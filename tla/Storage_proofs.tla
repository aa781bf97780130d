----------------------------- MODULE Storage_proofs -----------------------------
(* What the database keeps, proved: the rows of schema_migrations tell the     *)
(* schema, retention keeps what somebody may still read, a transaction on a   *)
(* pooled connection is whole, and uploaded images are accounted for - for    *)
(* every registry of migrations, every number of processes, workers,          *)
(* revisions, connections, requests, boards, images and cleanup items.        *)
EXTENDS MediaIngestion, Migrations, RevisionRetention, OwnedTransactions,
        FiniteSetTheorems, WellFoundedInduction, SequenceTheorems, TLAPS

(***************************************************************************)
(* Migrations                                                              *)
(***************************************************************************)

\* What a process may rely on where it stands: in a run it has the lock and the
\* rows end before its version; an adoption has verified every postcondition.
Sound(p) ==
  /\ at[p].pc \in {"statement", "adopt"} => lock = p
  /\ at[p].pc = "statement" =>
       /\ at[p].version \in 1..(Known[p] + 1) /\ ledger = 1..(at[p].version - 1)
       /\ at[p].step \in Nat \ {0}
  /\ at[p].pc = "adopt" =>
       at[p].version \in 1..Known[p] /\ ledger = 1..(at[p].version - 1) /\ AllHold(Known[p])
  /\ at[p].pc = "serving" => AllHold(Known[p]) /\ 1..Known[p] \subseteq ledger

IInv == TypeOK /\ LedgerTrue /\ \A p \in Processes : Sound(p)

\* What a step of p does to the others: p has the lock or takes it, or leaves
\* it and the rows alone; nothing is ever taken back.
Frame(p) ==
  /\ \A q \in Processes \ {p} : at'[q] = at[q]
  /\ schema \subseteq schema' /\ ledger \subseteq ledger'
  /\ lock \in {None, p} \/ UNCHANGED <<lock, ledger>>
  /\ UNCHANGED foreign

Place ==
  [pc : {"idle", "lock", "statement", "row", "adopt", "serving", "done", "failed"},
   cmd : Commands \cup {"none"}, version : 0..Len(Steps) + 1, step : Nat, why : Whys]

\* What the type of the state says of its parts.
LEMMA TypeParts ==
  ASSUME TypeOK
  PROVE  /\ at \in [Processes -> Place] /\ cuts \in 0..MaxCuts
         /\ schema \subseteq UNION {StatementsOf(m) : m \in Versions} /\ ledger \subseteq Versions
  BY DEF TypeOK, Place

\* A process that moves within the places keeps the type of the rest.
LEMMA Moved ==
  ASSUME TypeOK, NEW p \in Processes, NEW r \in Place, at' = [at EXCEPT ![p] = r],
         schema' \subseteq UNION {StatementsOf(m) : m \in Versions}, ledger' \subseteq Versions,
         lock' \in {lock, p, None}, cuts' \in 0..MaxCuts, UNCHANGED foreign
  PROVE  TypeOK' /\ at'[p] = r /\ \A q \in Processes \ {p} : at'[q] = at[q]
  BY DEF TypeOK, Place

\* The places a run moves to.
LEMMA PlaceMoves ==
  ASSUME NEW r \in Place, NEW v \in 0..Len(Steps) + 1
  PROVE  /\ AtVersion(r, v) \in Place /\ [r EXCEPT !.step = @ + 1] \in Place
         /\ [r EXCEPT !.pc = "adopt", !.version = v] \in Place
         /\ [r EXCEPT !.version = v] \in Place
  <1> DEFINE Vs == 0..Len(Steps) + 1
  <1>1. v \in Vs /\ r.step + 1 \in Nat /\ 1 \in Nat
    BY DEF Place
  <1>2. Place = [pc : {"idle", "lock", "statement", "row", "adopt", "serving", "done", "failed"},
                 cmd : Commands \cup {"none"}, version : Vs, step : Nat, why : Whys]
    BY DEF Place
  <1> HIDE DEF Vs
  <1>3. AtVersion(r, v) \in Place
    BY <1>1, <1>2 DEF AtVersion
  <1>4. [r EXCEPT !.step = @ + 1] \in Place
    BY <1>1, <1>2
  <1>5. [r EXCEPT !.pc = "adopt", !.version = v] \in Place
    BY <1>1, <1>2
  <1>6. [r EXCEPT !.version = v] \in Place
    BY <1>1, <1>2
  <1>7. QED
    BY <1>3, <1>4, <1>5, <1>6

\* The registries of the builds are prefixes of one list.
LEMMA KnownTyped ==
  ASSUME MigrationsAssumption, NEW p \in Processes
  PROVE  Known[p] \in Nat /\ Known[p] <= Len(Steps) /\ Len(Steps) \in Nat /\ p # None
  BY DEF MigrationsAssumption, Versions

\* What holds of the schema holds of a larger one.
LEMMA HoldGrows ==
  ASSUME NEW n, AllHold(n), schema \subseteq schema'
  PROVE  AllHold(n)'
  BY DEF AllHold, Holds

\* A step of one process keeps what the others rely on.
LEMMA OthersSound ==
  ASSUME MigrationsAssumption, IInv, NEW p \in Processes, NEW q \in Processes, q # p, Frame(p)
  PROVE  Sound(q)'
  <1>1. at'[q] = at[q] /\ Sound(q) /\ q # None
    BY KnownTyped DEF Frame, IInv
  <1>2. CASE at[q].pc \in {"statement", "adopt"}
    <2>1. lock = q /\ UNCHANGED <<lock, ledger>>
      BY <1>1, <1>2 DEF Sound, Frame
    <2>2. AllHold(Known[q]) => AllHold(Known[q])'
      BY HoldGrows DEF Frame
    <2>3. QED
      BY <1>1, <2>1, <2>2 DEF Sound
  <1>3. CASE at[q].pc = "serving"
    <2>1. AllHold(Known[q])'
      BY <1>1, <1>3, HoldGrows DEF Sound, Frame
    <2>2. QED
      BY <1>1, <1>3, <2>1 DEF Sound, Frame
  <1>4. QED
    BY <1>1, <1>2, <1>3 DEF Sound

\* The row after the last one leaves no hole.
LEMMA NextRow ==
  ASSUME NEW v \in Nat \ {0} PROVE 1..(v - 1) \cup {v} = 1..v
  OBVIOUS

\* A run that ends keeps the type of the places.
LEMMA EndTyped ==
  ASSUME IInv, NEW p \in Processes, NEW pc \in {"serving", "done", "failed"}, NEW why \in Whys,
         End(p, pc, why), UNCHANGED <<ledger, cuts, foreign>>,
         schema' = schema, pc = "serving" => AllHold(Known[p]) /\ 1..Known[p] \subseteq ledger,
         lock \in {None, p}
  PROVE  TypeOK' /\ LedgerTrue' /\ Sound(p)' /\ Frame(p)
  <1>1. /\ at' = [at EXCEPT ![p].pc = pc, ![p].why = why] /\ lock' = None
        /\ TypeOK /\ LedgerTrue
    BY DEF End, IInv
  <1>2. TypeOK'
    <2>1. at' \in [Processes ->
                   [pc : {"idle", "lock", "statement", "row", "adopt", "serving", "done", "failed"},
                    cmd : Commands \cup {"none"}, version : 0..Len(Steps) + 1, step : Nat, why : Whys]]
      <3>1. PICK a : a = [at[p] EXCEPT !.pc = pc, !.why = why]
        OBVIOUS
      <3>2. /\ at' = [at EXCEPT ![p] = a]
            /\ a \in [pc : {"idle", "lock", "statement", "row", "adopt", "serving", "done", "failed"},
                      cmd : Commands \cup {"none"}, version : 0..Len(Steps) + 1, step : Nat, why : Whys]
        BY <1>1, <3>1 DEF TypeOK
      <3>3. QED
        BY <1>1, <3>2 DEF TypeOK
    <2>2. QED
      BY <1>1, <2>1 DEF TypeOK, Versions, StatementsOf
  <1>3. at'[p].pc = pc /\ \A q \in Processes \ {p} : at'[q] = at[q]
    BY <1>1 DEF TypeOK
  <1>4. AllHold(Known[p]) => AllHold(Known[p])'
    BY HoldGrows
  <1>5. Sound(p)'
    BY <1>3, <1>4 DEF Sound
  <1>6. LedgerTrue'
    BY <1>1 DEF LedgerTrue
  <1>7. QED
    BY <1>2, <1>3, <1>5, <1>6 DEF Frame

\* Once a process has the lock.
LEMMA LockStep ==
  ASSUME MigrationsAssumption, IInv, NEW p \in Processes, Lock(p)
  PROVE  TypeOK' /\ LedgerTrue' /\ Sound(p)' /\ Frame(p)
  <1>1. /\ lock = None /\ UNCHANGED <<schema, ledger, cuts, foreign>> /\ at[p].pc = "lock"
        /\ TypeOK /\ LedgerTrue
    BY DEF Lock, Free, IInv
  <1>2. Known[p] \in Nat /\ Known[p] <= Len(Steps) /\ Len(Steps) \in Nat /\ p # None
    BY KnownTyped
  <1>3. ASSUME NEW pc \in {"done", "failed"}, NEW why \in Whys, End(p, pc, why)
        PROVE  TypeOK' /\ LedgerTrue' /\ Sound(p)' /\ Frame(p)
    BY <1>1, <1>3, EndTyped
  <1>4. CASE LedgerRefused(p) /\ End(p, "failed", "ledger")
    BY <1>3, <1>4 DEF Whys
  <1>5. ASSUME NEW n \in 0..Known[p], Assessed(p, n),
               lock' = p, at' = [at EXCEPT ![p] = AtVersion(at[p], n + 1)]
        PROVE  TypeOK' /\ LedgerTrue' /\ Sound(p)' /\ Frame(p)
    <2>1. AtVersion(at[p], n + 1) \in Place
      <3>1. at[p] \in Place /\ n + 1 \in 0..Len(Steps) + 1
        BY <1>1, <1>2, TypeParts
      <3>2. QED
        BY <3>1, PlaceMoves
    <2>2. /\ TypeOK' /\ at'[p] = AtVersion(at[p], n + 1)
          /\ \A q \in Processes \ {p} : at'[q] = at[q]
      BY <1>1, <1>5, <2>1, TypeParts, Moved
    <2>3. at'[p].pc = "statement" /\ at'[p].version = n + 1 /\ at'[p].step = 1
      BY <1>1, <2>2 DEF AtVersion, TypeOK
    <2>4. ledger' = 1..((n + 1) - 1)
      BY <1>1, <1>5 DEF Assessed
    <2>5. Sound(p)'
      BY <1>2, <1>5, <2>3, <2>4 DEF Sound
    <2>6. QED
      BY <1>1, <2>2, <2>5 DEF Frame, LedgerTrue
  <1>6. ASSUME NEW n \in 0..Known[p], Assessed(p, n), AdoptAnswer(p, n)
        PROVE  TypeOK' /\ LedgerTrue' /\ Sound(p)' /\ Frame(p)
    <2>1. CASE n # 0 \/ ~AllHold(Known[p])
      BY <1>3, <1>6, <2>1 DEF AdoptAnswer, Whys
    <2>2. CASE n = 0 /\ AllHold(Known[p])
      <3>1. lock' = p /\ at' = [at EXCEPT ![p].pc = "adopt", ![p].version = 1]
        BY <1>6, <2>2 DEF AdoptAnswer
      <3> DEFINE r == [at[p] EXCEPT !.pc = "adopt", !.version = 1]
      <3>9. r \in Place /\ r.pc = "adopt" /\ r.version = 1
        <4>1. at[p] \in Place /\ 1 \in 0..Len(Steps) + 1
          BY <1>1, <1>2, TypeParts
        <4>2. r \in Place
          BY <4>1, PlaceMoves
        <4>3. r.pc = "adopt" /\ r.version = 1
          BY <4>1 DEF Place
        <4>4. QED
          BY <4>2, <4>3
      <3>2. at' = [at EXCEPT ![p] = r]
        BY <1>1, <3>1, TypeParts DEF Place
      <3>3. TypeOK' /\ at'[p] = r /\ \A q \in Processes \ {p} : at'[q] = at[q]
        <4> HIDE DEF r
        <4>1. QED
          BY <1>1, <3>1, <3>2, <3>9, TypeParts, Moved
      <3>4. Known[p] >= 1
        BY DEF MigrationsAssumption, Versions
      <3>5. AllHold(Known[p])'
        BY <1>1, <2>2, HoldGrows
      <3>6. ledger' = 1..(1 - 1)
        BY <1>1, <1>6, <2>2 DEF Assessed
      <3>7. Sound(p)'
        <4> HIDE DEF r
        <4>1. 1 \in 1..Known[p] /\ at'[p].pc = "adopt" /\ at'[p].version = 1 /\ lock' = p
          BY <1>2, <3>1, <3>3, <3>4, <3>9
        <4>2. QED
          BY <3>5, <3>6, <4>1 DEF Sound
      <3>8. QED
        BY <1>1, <3>3, <3>7 DEF Frame, LedgerTrue
    <2>3. QED
      BY <2>1, <2>2
  <1>7. ASSUME NEW n \in 0..Known[p], Assessed(p, n), StatusAnswer(p, n)
        PROVE  TypeOK' /\ LedgerTrue' /\ Sound(p)' /\ Frame(p)
    <2>1. CASE n < Known[p] \/ ~AllHold(Known[p]) \/ at[p].cmd # "serve"
      BY <1>3, <1>7, <2>1 DEF StatusAnswer, Whys
    <2>2. CASE ~(n < Known[p]) /\ AllHold(Known[p]) /\ at[p].cmd = "serve"
      <3>1. End(p, "serving", "none") /\ n = Known[p]
        BY <1>2, <1>7, <2>2 DEF StatusAnswer
      <3>2. 1..Known[p] \subseteq ledger
        BY <1>7, <3>1 DEF Assessed
      <3>3. QED
        BY <1>1, <2>2, <3>1, <3>2, EndTyped DEF Whys
    <2>3. QED
      BY <2>1, <2>2
  <1>8. QED
    BY <1>4, <1>5, <1>6, <1>7 DEF Lock

\* A statement, whether it was there or not.
LEMMA StatementStep ==
  ASSUME MigrationsAssumption, IInv, NEW p \in Processes, Statement(p)
  PROVE  TypeOK' /\ LedgerTrue' /\ Sound(p)' /\ Frame(p)
  <1>1. /\ at[p].pc = "statement" /\ at[p].version <= Known[p]
        /\ at[p].step <= Len(Steps[at[p].version]) /\ UNCHANGED <<ledger, cuts, foreign>>
        /\ TypeOK /\ LedgerTrue /\ Sound(p)
    BY DEF Statement, IInv
  <1>2. lock = p /\ at[p].version \in 1..(Known[p] + 1)
    BY <1>1 DEF Sound
  <1>3. CASE End(p, "failed", "exists") /\ UNCHANGED schema
    BY <1>1, <1>2, <1>3, EndTyped DEF Whys
  <1>4. CASE /\ schema' = schema \cup {Here(p)}
             /\ at' = [at EXCEPT ![p].step = @ + 1]
             /\ UNCHANGED lock
    <2>1. /\ at'[p].pc = "statement" /\ at'[p].version = at[p].version
          /\ \A q \in Processes \ {p} : at'[q] = at[q]
          /\ at'[p].step = at[p].step + 1
      BY <1>1, <1>4 DEF TypeOK
    <2>2. Sound(p)'
      BY <1>1, <1>4, <2>1 DEF Sound
    <2>3. TypeOK'
      <3>1. at[p].version \in Versions /\ at[p].step \in 1..Len(Steps[at[p].version])
        BY <1>1, <1>2, KnownTyped DEF Versions, Sound, MigrationsAssumption
      <3>2. Here(p) \in UNION {StatementsOf(m) : m \in Versions}
        BY <3>1 DEF Here, StatementsOf
      <3> DEFINE r == [at[p] EXCEPT !.step = @ + 1]
      <3>6. r \in Place
        <4>1. at[p] \in Place /\ 0 \in 0..Len(Steps) + 1
          BY <1>1, KnownTyped, TypeParts
        <4>2. QED
          BY <4>1, PlaceMoves
      <3>3. at' = [at EXCEPT ![p] = r]
        BY <1>1, <1>4, TypeParts DEF Place
      <3>4. schema' \subseteq UNION {StatementsOf(m) : m \in Versions}
        BY <1>1, <1>4, <3>2, TypeParts
      <3>5. QED
        <4> HIDE DEF r
        <4>1. QED
          BY <1>1, <1>4, <3>3, <3>4, <3>6, TypeParts, Moved
    <2>4. LedgerTrue'
      BY <1>1, <1>4 DEF LedgerTrue
    <2>5. QED
      BY <1>2, <1>4, <1>1, <2>1, <2>2, <2>3, <2>4 DEF Frame
  <1>5. QED
    BY <1>3, <1>4 DEF Statement

\* The row of a migration is written after its last statement.
LEMMA RecordStep ==
  ASSUME MigrationsAssumption, IInv, NEW p \in Processes, Record(p)
  PROVE  TypeOK' /\ LedgerTrue' /\ Sound(p)' /\ Frame(p)
  <1> DEFINE v == at[p].version
  <1>1. /\ at[p].pc = "statement" /\ v <= Known[p] /\ UNCHANGED <<schema, cuts, foreign>>
        /\ TypeOK /\ LedgerTrue /\ Sound(p)
    BY DEF Record, IInv
  <1>2. Known[p] \in Nat /\ Known[p] <= Len(Steps) /\ Len(Steps) \in Nat /\ p # None
    BY KnownTyped
  <1>3. lock = p /\ v \in 1..Known[p] /\ ledger = 1..(v - 1)
    BY <1>1, <1>2 DEF Sound
  <1>4. CASE End(p, "failed", "schema") /\ UNCHANGED ledger
    BY <1>1, <1>3, <1>4, EndTyped DEF Whys
  <1>5. CASE /\ Holds(v) /\ ledger' = ledger \cup {v}
             /\ at' = [at EXCEPT ![p] = AtVersion(@, @.version + 1)] /\ UNCHANGED lock
    <2>1. ledger' = 1..v
      BY <1>2, <1>3, <1>5, NextRow
    <2>2. /\ at'[p].pc = "statement" /\ at'[p].version = v + 1 /\ at'[p].step = 1
          /\ \A q \in Processes \ {p} : at'[q] = at[q]
      BY <1>1, <1>5 DEF TypeOK, AtVersion
    <2>3. Sound(p)'
      <3>1. (v + 1) \in 1..(Known[p] + 1) /\ (v + 1) - 1 = v /\ 1 \in Nat \ {0}
        BY <1>2, <1>3
      <3>2. lock' = p
        BY <1>3, <1>5
      <3>3. QED
        BY <2>1, <2>2, <3>1, <3>2 DEF Sound
    <2>4. TypeOK'
      <3> DEFINE r == AtVersion(at[p], v + 1)
      <3>1. r \in Place
        <4>1. at[p] \in Place /\ v + 1 \in 0..Len(Steps) + 1
          BY <1>1, <1>2, <1>3, TypeParts
        <4>2. QED
          BY <4>1, PlaceMoves
      <3>4. at' = [at EXCEPT ![p] = r]
        BY <1>1, <1>5, TypeParts DEF Place
      <3>2. ledger' \subseteq Versions
        BY <1>1, <1>2, <1>3, <1>5, TypeParts DEF Versions
      <3>3. QED
        <4> HIDE DEF r
        <4>1. QED
          BY <1>1, <1>5, <3>1, <3>2, <3>4, TypeParts, Moved
    <2>5. LedgerTrue'
      <3>1. \A m \in ledger' : Holds(m)
        BY <1>1, <1>5 DEF LedgerTrue, Holds, StatementsOf
      <3>2. v \in 0..Len(Steps)
        BY <1>2, <1>3
      <3>3. QED
        BY <1>1, <2>1, <3>1, <3>2 DEF LedgerTrue, Holds, StatementsOf
    <2>6. QED
      BY <1>1, <1>3, <1>5, <2>2, <2>3, <2>4, <2>5 DEF Frame
  <1>6. QED
    BY <1>4, <1>5 DEF Record

\* A row of an adoption, which verified the schema before its first one.
LEMMA AdoptStep ==
  ASSUME MigrationsAssumption, IInv, NEW p \in Processes, AdoptRow(p)
  PROVE  TypeOK' /\ LedgerTrue' /\ Sound(p)' /\ Frame(p)
  <1> DEFINE v == at[p].version
  <1>1. /\ at[p].pc = "adopt" /\ UNCHANGED <<schema, cuts, foreign>>
        /\ TypeOK /\ LedgerTrue /\ Sound(p)
    BY DEF AdoptRow, IInv
  <1>2. Known[p] \in Nat /\ Known[p] <= Len(Steps) /\ Len(Steps) \in Nat /\ p # None
    BY KnownTyped
  <1>3. lock = p /\ v \in 1..Known[p] /\ ledger = 1..(v - 1) /\ AllHold(Known[p])
    BY <1>1 DEF Sound
  <1>4. CASE End(p, "failed", "exists") /\ UNCHANGED ledger
    BY <1>1, <1>3, <1>4, EndTyped DEF Whys
  <1>5. ASSUME ledger' = ledger \cup {v} PROVE LedgerTrue' /\ ledger' = 1..v
    <2>1. ledger' = 1..v
      BY <1>2, <1>3, <1>5, NextRow
    <2>2. \A m \in ledger' : Holds(m)
      BY <1>2, <1>3, <2>1 DEF AllHold
    <2>3. v \in 0..Len(Steps)
      BY <1>2, <1>3
    <2>4. QED
      BY <1>1, <2>1, <2>2, <2>3 DEF LedgerTrue, Holds, StatementsOf
  <1>6. CASE ledger' = ledger \cup {v} /\ v = Known[p] /\ End(p, "done", "none")
    <2>1. at' = [at EXCEPT ![p].pc = "done", ![p].why = "none"] /\ lock' = None
      BY <1>6 DEF End
    <2>2. at'[p].pc = "done" /\ \A q \in Processes \ {p} : at'[q] = at[q]
      BY <1>1, <2>1 DEF TypeOK
    <2>3. TypeOK'
      <3> DEFINE r == [at[p] EXCEPT !.pc = "done", !.why = "none"]
      <3>1. r \in Place
        BY <1>1, TypeParts DEF Place, Whys
      <3>4. at' = [at EXCEPT ![p] = r]
        BY <1>1, <2>1, TypeParts DEF Place
      <3>2. ledger' \subseteq Versions
        BY <1>1, <1>2, <1>3, <1>6, TypeParts DEF Versions
      <3>3. QED
        <4> HIDE DEF r
        <4>1. QED
          BY <1>1, <2>1, <3>1, <3>2, <3>4, TypeParts, Moved
    <2>4. QED
      BY <1>1, <1>3, <1>5, <1>6, <2>2, <2>3 DEF Sound, Frame
  <1>7. CASE /\ ledger' = ledger \cup {v} /\ v # Known[p]
             /\ at' = [at EXCEPT ![p].version = @ + 1] /\ UNCHANGED lock
    <2>1. /\ at'[p].pc = "adopt" /\ at'[p].version = v + 1
          /\ \A q \in Processes \ {p} : at'[q] = at[q]
      BY <1>1, <1>7 DEF TypeOK
    <2>2. AllHold(Known[p])'
      BY <1>1, <1>3, HoldGrows
    <2>3. Sound(p)'
      <3>1. (v + 1) \in 1..Known[p] /\ (v + 1) - 1 = v
        BY <1>2, <1>3, <1>7
      <3>2. lock' = p /\ ledger' = 1..v
        BY <1>3, <1>5, <1>7
      <3>3. QED
        BY <2>1, <2>2, <3>1, <3>2 DEF Sound
    <2>4. TypeOK'
      <3> DEFINE r == [at[p] EXCEPT !.version = @ + 1]
      <3>1. r \in Place
        BY <1>1, <1>2, <1>3, TypeParts DEF Place
      <3>4. at' = [at EXCEPT ![p] = r]
        BY <1>1, <1>7, TypeParts DEF Place
      <3>2. ledger' \subseteq Versions
        BY <1>1, <1>2, <1>3, <1>7, TypeParts DEF Versions
      <3>3. QED
        <4> HIDE DEF r
        <4>1. QED
          BY <1>1, <1>7, <3>1, <3>2, <3>4, TypeParts, Moved
    <2>5. QED
      BY <1>1, <1>3, <1>5, <1>7, <2>1, <2>3, <2>4 DEF Frame
  <1>8. QED
    BY <1>4, <1>6, <1>7 DEF AdoptRow

\* The end of up, the start of a command, a timeout, a cut and a stop: steps
\* that write nothing.
LEMMA OtherStep ==
  ASSUME MigrationsAssumption, IInv, NEW p \in Processes,
         FinishUp(p) \/ (\E c \in Commands : Start(p, c)) \/ LockTimeout(p) \/ CutRun(p)
           \/ StopServing(p)
  PROVE  TypeOK' /\ LedgerTrue' /\ Sound(p)' /\ Frame(p)
  <1>1. TypeOK /\ LedgerTrue /\ Sound(p)
    BY DEF IInv
  <1>2. CASE FinishUp(p)
    <2>1. /\ at[p].pc = "statement" /\ UNCHANGED <<schema, ledger, cuts, foreign>>
          /\ End(p, "done", "none") \/ End(p, "failed", "ledger")
      BY <1>2 DEF FinishUp
    <2>2. lock = p
      BY <1>1, <2>1 DEF Sound
    <2>3. QED
      BY <2>1, <2>2, EndTyped DEF Whys
  <1>3. ASSUME NEW r, r \in [pc : {"idle", "lock", "failed"}, cmd : Commands \cup {"none"},
                             version : 0..Len(Steps) + 1, step : Nat, why : Whys],
               at' = [at EXCEPT ![p] = r], UNCHANGED <<schema, ledger>>,
               cuts' \in 0..MaxCuts, UNCHANGED foreign, UNCHANGED lock \/ (lock = p /\ lock' = None)
        PROVE  TypeOK' /\ LedgerTrue' /\ Sound(p)' /\ Frame(p)
    <2>1. at'[p] = r /\ \A q \in Processes \ {p} : at'[q] = at[q]
      BY <1>1, <1>3 DEF TypeOK
    <2>2. TypeOK'
      BY <1>1, <1>3 DEF TypeOK
    <2>3. QED
      BY <1>1, <1>3, <2>1, <2>2 DEF LedgerTrue, Sound, Frame
  <1>4. /\ Len(Steps) \in Nat /\ cuts \in 0..MaxCuts /\ MaxCuts \in Nat
        /\ Idle \in [pc : {"idle", "lock", "failed"}, cmd : Commands \cup {"none"},
                     version : 0..Len(Steps) + 1, step : Nat, why : Whys]
    BY <1>1 DEF TypeOK, MigrationsAssumption, Idle, Whys
  <1>5. ASSUME NEW c \in Commands, Start(p, c) PROVE TypeOK' /\ LedgerTrue' /\ Sound(p)' /\ Frame(p)
    <2> DEFINE r == [Idle EXCEPT !.pc = "lock", !.cmd = c]
    <2>1. at' = [at EXCEPT ![p] = r] /\ UNCHANGED <<schema, ledger, lock, cuts, foreign>>
      BY <1>5 DEF Start
    <2>2. r \in [pc : {"idle", "lock", "failed"}, cmd : Commands \cup {"none"},
                 version : 0..Len(Steps) + 1, step : Nat, why : Whys]
      BY <1>4 DEF Idle
    <2>3. QED
      BY <1>3, <1>4, <2>1, <2>2
  <1>6. CASE LockTimeout(p)
    <2> DEFINE r == [at[p] EXCEPT !.pc = "failed", !.why = "timeout"]
    <2>1. at' = [at EXCEPT ![p] = r] /\ UNCHANGED <<schema, ledger, lock, cuts, foreign>>
      BY <1>1, <1>6 DEF LockTimeout, TypeOK
    <2>2. r \in [pc : {"idle", "lock", "failed"}, cmd : Commands \cup {"none"},
                 version : 0..Len(Steps) + 1, step : Nat, why : Whys]
      BY <1>1 DEF TypeOK, Whys
    <2>3. QED
      BY <1>3, <1>4, <2>1, <2>2
  <1>7. CASE CutRun(p)
    <2>1. /\ at' = [at EXCEPT ![p] = Idle] /\ UNCHANGED <<schema, ledger>>
          /\ cuts < MaxCuts /\ cuts' = cuts + 1 /\ UNCHANGED foreign
          /\ lock' = IF lock = p THEN None ELSE lock
      BY <1>7 DEF CutRun
    <2>2. cuts' \in 0..MaxCuts
      BY <1>4, <2>1
    <2>3. QED
      <3> HIDE DEF Idle
      <3>1. QED
        BY <1>3, <1>4, <2>1, <2>2
  <1>8. CASE StopServing(p)
    BY <1>3, <1>4, <1>8 DEF StopServing
  <1>9. QED
    BY <1>2, <1>5, <1>6, <1>7, <1>8

\* The invariant holds of a database without rows, empty or from elsewhere.
LEMMA InitIInv == ASSUME MigrationsAssumption PROVE Init => IInv
  <1> SUFFICES ASSUME Init PROVE IInv
    OBVIOUS
  <1>1. Len(Steps) \in Nat /\ MaxCuts \in Nat
    BY DEF MigrationsAssumption
  <1>2. /\ \A p \in Processes : at[p] = Idle
        /\ schema \subseteq UNION {StatementsOf(m) : m \in Versions} /\ ledger = {}
    BY DEF Init
  <1>3. TypeOK
    BY <1>1, <1>2 DEF Init, TypeOK, Idle, Whys
  <1>4. LedgerTrue
    <2>1. ledger = 1..0 /\ 0 \in 0..Len(Steps)
      BY <1>1, <1>2
    <2>2. QED
      BY <1>2, <2>1 DEF LedgerTrue
  <1>5. QED
    BY <1>2, <1>3, <1>4 DEF IInv, Sound, Idle

\* Every step keeps it.
LEMMA NextIInv == ASSUME MigrationsAssumption PROVE IInv /\ [Next]_vars => IInv'
  <1> SUFFICES ASSUME IInv, [Next]_vars PROVE IInv'
    OBVIOUS
  <1>1. ASSUME NEW p \in Processes, Run(p) \/ (\E c \in Commands : Start(p, c))
                                      \/ LockTimeout(p) \/ CutRun(p) \/ StopServing(p)
        PROVE  IInv'
    <2>1. TypeOK' /\ LedgerTrue' /\ Sound(p)' /\ Frame(p)
      BY <1>1, LockStep, StatementStep, RecordStep, AdoptStep, OtherStep DEF Run
    <2>2. \A q \in Processes : Sound(q)'
      BY <2>1, OthersSound
    <2>3. QED
      BY <2>1, <2>2 DEF IInv
  <1>2. CASE UNCHANGED vars
    BY <1>2 DEF vars, IInv, TypeOK, LedgerTrue, Sound, AllHold, Holds
  <1>3. QED
    BY <1>1, <1>2 DEF Next

(***************************************************************************)
(* Runs do not mix                                                         *)
(*                                                                         *)
(* What a run has done of its migration is there; without a cut and on an  *)
(* empty database nothing else is there but what the rows tell.            *)
(***************************************************************************)

DoneBy(p) ==
  at[p].pc = "statement" =>
    /\ \A s \in 1..(at[p].step - 1) : <<at[p].version, s>> \in schema
    /\ at[p].version = Known[p] + 1 => at[p].step = 1

NothingElse ==
  /\ \A p \in Processes : at[p].why # "exists"
  /\ \A m \in Versions, s \in Nat : <<m, s>> \in schema =>
       m \in ledger \/ \E p \in Processes : /\ at[p].pc = "statement" /\ at[p].version = m
                                            /\ s < at[p].step

AInv == (\A p \in Processes : DoneBy(p)) /\ (cuts = 0 /\ ~foreign => NothingElse)

\* Statements are counted from one.
LEMMA StatementTyped ==
  ASSUME TypeOK, MigrationsAssumption, NEW m, NEW s, <<m, s>> \in schema
  PROVE  m \in Versions /\ s \in 1..Len(Steps[m]) /\ Len(Steps[m]) \in Nat
  <1>1. PICK v \in Versions : <<m, s>> \in StatementsOf(v)
    BY DEF TypeOK
  <1>2. m = v /\ s \in 1..Len(Steps[v])
    BY <1>1 DEF StatementsOf
  <1>3. QED
    BY <1>2 DEF MigrationsAssumption

\* A step that adds no statement: the run it ends or takes on left nothing unfinished.
LEMMA QuietStep ==
  ASSUME MigrationsAssumption, IInv, AInv, NEW p \in Processes, Frame(p),
         schema' = schema, cuts' = 0 => cuts = 0,
         at'[p].pc = "statement" => at'[p].step = 1,
         at'[p].why = "exists" => at[p].why = "exists",
         cuts' = 0 /\ ~foreign /\ at[p].pc = "statement" =>
           at[p].step = 1 \/ at[p].version \in ledger'
  PROVE  AInv'
  <1>1. \A q \in Processes \ {p} : at'[q] = at[q]
    BY DEF Frame
  <1>2. ASSUME NEW q \in Processes PROVE DoneBy(q)'
    <2>1. CASE q = p
      BY <2>1 DEF DoneBy
    <2>2. CASE q # p
      BY <1>1, <2>2 DEF DoneBy, AInv
    <2>3. QED
      BY <2>1, <2>2
  <1>3. ASSUME cuts' = 0, ~foreign PROVE NothingElse'
    <2>1. NothingElse
      BY <1>3 DEF AInv
    <2>2. ASSUME NEW q \in Processes PROVE at'[q].why # "exists"
      BY <1>1, <2>1 DEF NothingElse
    <2>3. ASSUME NEW m \in Versions, NEW s \in Nat, <<m, s>> \in schema'
          PROVE  m \in ledger' \/ \E q \in Processes : /\ at'[q].pc = "statement"
                                                       /\ at'[q].version = m /\ s < at'[q].step
      <3>1. CASE m \in ledger
        BY <3>1 DEF Frame
      <3>2. ASSUME NEW q \in Processes, at[q].pc = "statement", at[q].version = m, s < at[q].step
            PROVE  m \in ledger' \/ \E x \in Processes : /\ at'[x].pc = "statement"
                                                         /\ at'[x].version = m /\ s < at'[x].step
        <4>1. CASE q # p
          BY <1>1, <3>2, <4>1
        <4>2. CASE q = p
          <5>1. s \in 1..Len(Steps[m])
            BY <2>3, StatementTyped DEF IInv
          <5>2. at[p].step # 1
            BY <3>2, <4>2, <5>1
          <5>3. QED
            BY <1>3, <3>2, <4>2, <5>2
        <4>3. QED
          BY <4>1, <4>2
      <3>3. QED
        BY <2>1, <2>3, <3>1, <3>2 DEF NothingElse
    <2>4. QED
      BY <2>2, <2>3 DEF NothingElse
  <1>4. QED
    BY <1>2, <1>3 DEF AInv, Frame

\* A run that is not cut, on an empty database, never meets its own statement.
LEMMA NewStatement ==
  ASSUME MigrationsAssumption, IInv, AInv, NEW p \in Processes, cuts = 0, ~foreign,
         at[p].pc = "statement", at[p].version \in Versions, at[p].step \in Nat
  PROVE  Here(p) \notin schema
  <1>1. Sound(p) /\ lock = p /\ ledger = 1..(at[p].version - 1) /\ NothingElse
    BY DEF IInv, Sound, AInv
  <1>2. at[p].version \notin ledger
    BY <1>1 DEF Versions
  <1>3. \A q \in Processes : at[q].pc = "statement" => q = p
    BY <1>1 DEF IInv, Sound
  <1>4. QED
    BY <1>1, <1>2, <1>3 DEF NothingElse, Here

\* The step a run is at, and the version.
LEMMA RunTyped ==
  ASSUME MigrationsAssumption, IInv, NEW p \in Processes, at[p].pc = "statement"
  PROVE  /\ at[p].step \in Nat \ {0} /\ at[p].version \in 1..(Known[p] + 1)
         /\ at[p].version <= Known[p] => at[p].version \in Versions
         /\ at[p].version \notin ledger
  <1>1. at[p].step \in Nat \ {0} /\ at[p].version \in 1..(Known[p] + 1)
        /\ ledger = 1..(at[p].version - 1)
    BY DEF IInv, Sound
  <1>2. QED
    BY <1>1, KnownTyped DEF Versions

\* A statement: it is new, or a cut or a foreign schema has left it.
LEMMA StatementAlone ==
  ASSUME MigrationsAssumption, IInv, AInv, NEW p \in Processes, Statement(p)
  PROVE  AInv' /\ StuckForCause
  <1>1. /\ at[p].pc = "statement" /\ at[p].version \in Versions
        /\ at[p].step \in Nat \ {0} /\ at[p].step <= Len(Steps[at[p].version])
        /\ UNCHANGED <<ledger, cuts, foreign>> /\ at[p].version <= Known[p] /\ Known[p] \in Nat
    BY RunTyped, KnownTyped DEF Statement
  <1>2. Frame(p) /\ TypeOK
    BY StatementStep DEF IInv
  <1>3. CASE Here(p) \in schema /\ ~Repeatable(p)
    <2>1. End(p, "failed", "exists") /\ schema' = schema
      BY <1>3 DEF Statement
    <2>2. at'[p].pc = "failed" /\ at'[p].why = "exists" /\ \A q \in Processes \ {p} : at'[q] = at[q]
      BY <1>2, <2>1 DEF End, TypeOK
    <2>3. cuts # 0 \/ foreign
      BY <1>1, <1>3, NewStatement
    <2>4. Steps[at[p].version][at[p].step] = "once"
      <3>1. Steps[at[p].version] \in Seq({"again", "once", "known"})
        BY <1>1 DEF MigrationsAssumption
      <3>2. Steps[at[p].version][at[p].step] \in {"again", "once", "known"}
        BY <1>1, <3>1
      <3>3. QED
        BY <1>3, <3>2 DEF Repeatable, Kind
    <2>5. cuts > 0 \/ foreign
      BY <1>2, <2>3 DEF TypeOK
    <2>6. StuckForCause
      BY <2>2, <2>4, <2>5 DEF StuckForCause
    <2>7. ASSUME NEW q \in Processes PROVE DoneBy(q)'
      BY <2>1, <2>2 DEF DoneBy, AInv
    <2>8. QED
      BY <1>1, <2>3, <2>6, <2>7 DEF AInv
  <1>4. CASE ~(Here(p) \in schema /\ ~Repeatable(p))
    <2>1. /\ schema' = schema \cup {Here(p)} /\ at' = [at EXCEPT ![p].step = @ + 1]
      BY <1>4 DEF Statement
    <2>2. /\ at'[p].pc = "statement" /\ at'[p].version = at[p].version
          /\ at'[p].step = at[p].step + 1 /\ at'[p].why = at[p].why
          /\ \A q \in Processes \ {p} : at'[q] = at[q]
      BY <1>1, <1>2, <2>1 DEF TypeOK
    <2>3. StuckForCause
      BY <2>2 DEF StuckForCause
    <2>4. ASSUME NEW q \in Processes PROVE DoneBy(q)'
      <3>1. CASE q = p
        <4>1. \A s \in 1..at[p].step : s \in 1..(at[p].step - 1) \/ s = at[p].step
          BY <1>1
        <4>2. at'[p].step - 1 = at[p].step
          BY <1>1, <2>2
        <4>3. \A s \in 1..(at'[p].step - 1) : <<at'[p].version, s>> \in schema'
          BY <1>1, <2>1, <2>2, <4>1, <4>2 DEF AInv, DoneBy, Here
        <4>4. at'[p].version # Known[p] + 1
          BY <1>1, <2>2
        <4>5. QED
          BY <3>1, <4>3, <4>4 DEF DoneBy
      <3>2. CASE q # p
        BY <2>1, <2>2, <3>2 DEF DoneBy, AInv
      <3>3. QED
        BY <3>1, <3>2
    <2>5. ASSUME cuts' = 0, ~foreign PROVE NothingElse'
      <3>1. NothingElse
        BY <1>1, <2>5 DEF AInv
      <3>2. ASSUME NEW q \in Processes PROVE at'[q].why # "exists"
        BY <2>2, <3>1 DEF NothingElse
      <3>3. ASSUME NEW m \in Versions, NEW s \in Nat, <<m, s>> \in schema'
            PROVE  m \in ledger' \/ \E q \in Processes : /\ at'[q].pc = "statement"
                                                         /\ at'[q].version = m /\ s < at'[q].step
        <4>1. CASE <<m, s>> = Here(p)
          <5>1. m = at[p].version /\ s = at[p].step
            BY <4>1 DEF Here
          <5>2. QED
            BY <1>1, <2>2, <5>1
        <4>2. CASE m \in ledger
          BY <1>1, <4>2
        <4>3. ASSUME NEW q \in Processes, at[q].pc = "statement", at[q].version = m, s < at[q].step
              PROVE  \E x \in Processes : /\ at'[x].pc = "statement"
                                          /\ at'[x].version = m /\ s < at'[x].step
          BY <1>1, <2>2, <4>3
        <4>4. QED
          BY <2>1, <3>1, <3>3, <4>1, <4>2, <4>3 DEF NothingElse
      <3>4. QED
        BY <3>2, <3>3 DEF NothingElse
    <2>6. QED
      BY <1>1, <2>3, <2>4, <2>5 DEF AInv
  <1>5. QED
    BY <1>3, <1>4

\* A step that ends nothing for a table that exists.
LEMMA NobodyIsStuck ==
  ASSUME NEW p \in Processes, Frame(p), at'[p].why = "exists" => at[p].why = "exists"
  PROVE  StuckForCause
  BY DEF Frame, StuckForCause

\* The lock, a row, and the end of a run or an adoption.
LEMMA RunAlone ==
  ASSUME MigrationsAssumption, IInv, AInv, NEW p \in Processes,
         Lock(p) \/ Record(p) \/ FinishUp(p) \/ AdoptRow(p)
  PROVE  AInv' /\ StuckForCause
  <1>1. Frame(p) /\ TypeOK /\ Sound(p) /\ schema' = schema /\ cuts' = cuts
    BY LockStep, RecordStep, OtherStep, AdoptStep DEF IInv, Lock, Record, FinishUp, AdoptRow
  <1>2. ASSUME NEW pc, NEW why, End(p, pc, why) PROVE at'[p].pc = pc /\ at'[p].why = why
    BY <1>1, <1>2 DEF End, TypeOK
  <1>3. /\ at'[p].pc = "statement" => at'[p].step = 1
        /\ at'[p].why = "exists" => at[p].why = "exists"
        /\ at[p].pc = "statement" => at[p].step = 1 \/ at[p].version \in ledger'
    <2>1. CASE Lock(p)
      <3>1. CASE End(p, "failed", "ledger")
        BY <1>2, <2>1, <3>1 DEF Lock
      <3>2. ASSUME NEW n, at' = [at EXCEPT ![p] = AtVersion(at[p], n + 1)]
            PROVE  at'[p].step = 1 /\ at'[p].why = at[p].why
        BY <1>1, <3>2 DEF AtVersion, TypeOK
      <3>3. ASSUME NEW n, AdoptAnswer(p, n)
            PROVE  at'[p].pc # "statement" /\ (at'[p].why = "exists" => at[p].why = "exists")
        <4>1. CASE at' = [at EXCEPT ![p].pc = "adopt", ![p].version = 1]
          BY <1>1, <4>1 DEF TypeOK
        <4>2. QED
          BY <1>2, <3>3, <4>1 DEF AdoptAnswer
      <3>4. ASSUME NEW n, StatusAnswer(p, n)
            PROVE  at'[p].pc # "statement" /\ at'[p].why # "exists"
        BY <1>2, <3>4 DEF StatusAnswer
      <3>5. QED
        BY <2>1, <3>1, <3>2, <3>3, <3>4 DEF Lock
    <2>2. CASE Record(p)
      <3>1. /\ at[p].pc = "statement" /\ at[p].version \in Versions
            /\ at[p].step = Len(Steps[at[p].version]) + 1 /\ Len(Steps[at[p].version]) \in Nat
        BY <2>2, RunTyped DEF Record, MigrationsAssumption
      <3>2. Holds(at[p].version)
        BY <3>1 DEF AInv, DoneBy, Holds, StatementsOf
      <3>3. /\ ledger' = ledger \cup {at[p].version}
            /\ at' = [at EXCEPT ![p] = AtVersion(@, @.version + 1)]
        BY <2>2, <3>2 DEF Record
      <3>4. at'[p].step = 1 /\ at'[p].why = at[p].why
        BY <1>1, <3>3 DEF AtVersion, TypeOK
      <3>5. QED
        BY <3>3, <3>4
    <2>3. CASE FinishUp(p)
      <3>1. at[p].step = 1
        BY <2>3 DEF FinishUp, AInv, DoneBy
      <3>2. QED
        BY <1>2, <2>3, <3>1 DEF FinishUp
    <2>4. CASE AdoptRow(p)
      <3>1. at[p].pc = "adopt" /\ at[p].version \notin ledger
        BY <1>1, <2>4, KnownTyped DEF AdoptRow, Sound
      <3>2. CASE at' = [at EXCEPT ![p].version = @ + 1]
        BY <1>1, <3>1, <3>2 DEF TypeOK
      <3>3. QED
        BY <1>2, <2>4, <3>1, <3>2 DEF AdoptRow
    <2>5. QED
      BY <2>1, <2>2, <2>3, <2>4
  <1>4. QED
    BY <1>1, <1>3, QuietStep, NobodyIsStuck

\* The steps that write nothing: only a cut ends a run half way.
LEMMA OtherAlone ==
  ASSUME MigrationsAssumption, IInv, AInv, NEW p \in Processes,
         (\E c \in Commands : Start(p, c)) \/ LockTimeout(p) \/ CutRun(p) \/ StopServing(p)
  PROVE  AInv' /\ StuckForCause
  <1>1. Frame(p) /\ TypeOK /\ cuts \in Nat
    BY OtherStep DEF IInv, TypeOK
  <1>2. /\ schema' = schema /\ (cuts' = 0 => cuts = 0)
        /\ cuts' = 0 => at[p].pc # "statement"
        /\ at'[p].pc # "statement" /\ (at'[p].why = "exists" => at[p].why = "exists")
    <2>1. CASE \E c \in Commands : Start(p, c)
      <3>1. PICK c \in Commands : Start(p, c)
        BY <2>1
      <3>2. /\ at[p].pc \in {"idle", "done", "failed"} /\ UNCHANGED <<schema, cuts>>
            /\ at' = [at EXCEPT ![p] = [Idle EXCEPT !.pc = "lock", !.cmd = c]]
        BY <3>1 DEF Start
      <3>3. at'[p].pc = "lock" /\ at'[p].why = "none"
        BY <1>1, <3>2 DEF TypeOK, Idle
      <3>4. QED
        BY <3>2, <3>3
    <2>2. CASE LockTimeout(p)
      BY <1>1, <2>2 DEF LockTimeout, TypeOK
    <2>3. CASE CutRun(p)
      BY <1>1, <2>3 DEF CutRun, TypeOK, Idle
    <2>4. CASE StopServing(p)
      BY <1>1, <2>4 DEF StopServing, TypeOK, Idle
    <2>5. QED
      BY <2>1, <2>2, <2>3, <2>4
  <1>3. QED
    BY <1>1, <1>2, QuietStep, NobodyIsStuck

\* Every step keeps it, and gets stuck only for a cause.
LEMMA NextAlone ==
  ASSUME MigrationsAssumption
  PROVE  IInv /\ AInv /\ [Next]_vars => AInv' /\ [StuckForCause]_vars
  <1> SUFFICES ASSUME IInv, AInv, [Next]_vars PROVE AInv' /\ [StuckForCause]_vars
    OBVIOUS
  <1>1. CASE Next
    BY <1>1, StatementAlone, RunAlone, OtherAlone DEF Next, Run
  <1>2. CASE UNCHANGED vars
    BY <1>2 DEF vars, AInv, DoneBy, NothingElse
  <1>3. QED
    BY <1>1, <1>2

\* At most one migration has statements and no row: the one of the run with the lock.
LEMMA AloneHolds ==
  ASSUME MigrationsAssumption, IInv, AInv
  PROVE  RunsAlone
  <1> SUFFICES ASSUME cuts = 0, ~foreign
               PROVE  /\ \A p \in Processes : at[p].why # "exists"
                      /\ Cardinality({m \in Versions : m \notin ledger /\ \E s \in 1..Len(Steps[m]) : <<m, s>> \in schema}) <= 1
    BY DEF RunsAlone
  <1>1. NothingElse
    BY DEF AInv
  <1> DEFINE U == {m \in Versions : m \notin ledger /\ \E s \in 1..Len(Steps[m]) : <<m, s>> \in schema}
  <1>2. \A m \in U : \E p \in Processes : lock = p /\ at[p].version = m
    <2>1. ASSUME NEW m \in U PROVE \E p \in Processes : lock = p /\ at[p].version = m
      <3>1. PICK s \in 1..Len(Steps[m]) : <<m, s>> \in schema
        OBVIOUS
      <3>2. PICK p \in Processes : at[p].pc = "statement" /\ at[p].version = m
        BY <1>1, <3>1 DEF NothingElse
      <3>3. QED
        BY <3>2 DEF IInv, Sound
    <2>2. QED
      BY <2>1
  <1>3. U \subseteq {at[lock].version}
    BY <1>2
  <1>4. IsFiniteSet({at[lock].version}) /\ Cardinality({at[lock].version}) = 1
    BY FS_Singleton
  <1>5. Cardinality(U) <= 1
    BY <1>3, <1>4, FS_Subset
  <1>6. QED
    BY <1>1, <1>5 DEF NothingElse

\* At first nothing has run.
LEMMA InitAlone == ASSUME MigrationsAssumption PROVE Init => AInv
  BY DEF Init, AInv, DoneBy, NothingElse, Idle

\* The rows of schema_migrations have no hole and say what the schema has, and a
\* server listens only on a schema that has all its build knows, however
\* commands of builds of different age follow each other and are cut.  Runs never
\* mix, and one that meets a table that exists has a cut or a foreign schema to blame.
THEOREM RowsTellTheSchema ==
  ASSUME MigrationsAssumption
  PROVE  Spec => LedgerTellsTruth
  <1>1. Init => IInv /\ AInv
    BY InitIInv, InitAlone
  <1>2. IInv /\ AInv /\ [Next]_vars => (IInv /\ AInv)' /\ [StuckForCause]_vars
    BY NextIInv, NextAlone
  <1>3. IInv => TypeOK /\ LedgerTrue /\ ServesItsSchema
    BY DEF IInv, Sound, ServesItsSchema, AllHold, Holds, StatementsOf
  <1>4. IInv /\ AInv => RunsAlone
    BY AloneHolds
  <1>5. QED
    BY <1>1, <1>2, <1>3, <1>4, PTL DEF Spec, LedgerTellsTruth

(***************************************************************************)
(* Retention                                                               *)
(*                                                                         *)
(* An item is planned for a revision that is old and stays old, since the  *)
(* head only grows, and for the run of the lease it was planned under.      *)
(***************************************************************************)

Row == [phase : Phases, attempts : Nat]
Restores == [stage : {"idle", "prepared", "ok", "not_found", "row_integrity"}, rev : Nat]

RetentionTypes ==
  /\ head \in Revisions /\ head \in catalog /\ catalog \subseteq 1..head
  /\ truncated \subseteq catalog /\ payload \subseteq 1..head /\ refs \subseteq 1..head
  /\ item \in [Items -> Row] /\ restore \in Restores
  /\ runs \in Nat /\ lease \in [run : 0..runs, live : BOOLEAN] /\ worker \in [Workers -> 0..runs]

\* What a row of an item stands for.
RowSound(i) ==
  /\ item[i].attempts \in 0..MaxAttempts
  /\ item[i].phase # "quarantined" => item[i].attempts < MaxAttempts
  /\ item[i].phase # "none" => i[1] <= runs /\ i[2] + Retained <= head

\* What the phase of an item says of its revision.
PhaseTells(i) ==
  /\ item[i].phase \notin {"none", "planned", "quarantined"} => i[2] \notin refs
  /\ item[i].phase \in {"payload_cleared", "catalog_removed", "complete"} => i[2] \notin payload
  /\ item[i].phase \in {"catalog_removed", "complete"} => i[2] \notin catalog

RInv ==
  /\ RetentionTypes /\ NewestStay /\ HeldIsReadable /\ BoundaryMarked
  /\ \A i \in Items : RowSound(i) /\ PhaseTells(i)

\* A set of revisions that is not empty has an oldest.
LEMMA OldestIsThere ==
  ASSUME NEW S, S \subseteq Nat, S # {}
  PROVE  OldestOf(S) \in S /\ \A y \in S : OldestOf(S) <= y
  <1>1. PICK x \in S : \A y \in S : <<y, x>> \notin OpToRel(<, Nat)
    BY NatLessThanWellFounded, WFMin
  <1>2. ASSUME NEW y \in S PROVE x <= y
    <2>1. x \in Nat /\ y \in Nat
      OBVIOUS
    <2>2. ~(y < x)
      BY <1>1, <2>1, Zenon DEF OpToRel
    <2>3. QED
      BY <2>1, <2>2
  <1>3. QED
    BY <1>2 DEF OldestOf

\* The oldest is known by being the least.
LEMMA OldestIs ==
  ASSUME NEW S, S \subseteq Nat, NEW x \in S, \A y \in S : x <= y
  PROVE  OldestOf(S) = x
  <1>1. OldestOf(S) \in S /\ \A y \in S : OldestOf(S) <= y
    BY OldestIsThere
  <1>2. OldestOf(S) <= x /\ x <= OldestOf(S) /\ OldestOf(S) \in Nat /\ x \in Nat
    BY <1>1
  <1>3. QED
    BY <1>2

LEMMA RetentionNumbers ==
  ASSUME RetentionAssumption
  PROVE  /\ Retained \in Nat /\ Retained >= 1 /\ MaxAttempts \in Nat /\ MaxAttempts >= 1
         /\ MaxRevision \in Nat /\ MaxRevision >= 1
         /\ \A i \in Items : i = <<i[1], i[2]>> /\ i[1] \in Nat /\ i[1] >= 1 /\ i[2] \in Revisions /\ i[2] \in Nat
  BY DEF RetentionAssumption, Items, Revisions

\* The state retention starts in.
LEMMA InitRInv == ASSUME RetentionAssumption PROVE RetentionInit => RInv
  <1> SUFFICES ASSUME RetentionInit PROVE RInv
    OBVIOUS
  <1>1. RetentionTypes
    BY RetentionNumbers DEF RetentionInit, RetentionTypes, Row, Restores, Phases, NoRestore, Revisions
  <1>2. NewestStay /\ HeldIsReadable
    BY DEF RetentionInit, NewestStay, HeldIsReadable
  <1>3. OldestOf(catalog) = 1
    BY OldestIs DEF RetentionInit
  <1>4. BoundaryMarked
    BY <1>3 DEF BoundaryMarked, RetentionInit
  <1>5. ASSUME NEW i \in Items PROVE RowSound(i) /\ PhaseTells(i)
    BY RetentionNumbers DEF RetentionInit, RowSound, PhaseTells
  <1>6. QED
    BY <1>1, <1>2, <1>4, <1>5 DEF RInv

\* A revision at the head, appended by a mutation or a restore.
Appends ==
  /\ head < MaxRevision /\ head' = head + 1
  /\ catalog' = catalog \cup {head + 1} /\ payload' = payload \cup {head + 1}
  /\ refs' = refs \cup {head + 1} /\ restore' \in Restores
  /\ UNCHANGED <<truncated, holds, lease, runs, worker, item>>

LEMMA AppendKeeps ==
  ASSUME RetentionAssumption, RInv, Appends
  PROVE  RInv'
  <1>0. head \in Nat /\ head >= 1 /\ head' \in Nat /\ head' = head + 1 /\ head' <= MaxRevision
    BY RetentionNumbers DEF RInv, RetentionTypes, Revisions, Appends
  <1>1. RetentionTypes'
    BY <1>0, RetentionNumbers DEF RInv, RetentionTypes, Appends, Revisions, Items
  <1>2. NewestStay'
    BY <1>0, RetentionNumbers DEF RInv, NewestStay, Appends
  <1>3. HeldIsReadable'
    BY DEF RInv, HeldIsReadable, Readable, Appends
  <1>4. BoundaryMarked'
    <2> DEFINE o == OldestOf(catalog)
    <2>1. catalog \subseteq Nat /\ catalog # {} /\ catalog' \subseteq Nat /\ \A r \in catalog : r < head + 1
      BY <1>0 DEF RInv, RetentionTypes, Appends
    <2>2. o \in catalog /\ \A y \in catalog : o <= y
      BY <2>1, OldestIsThere
    <2> HIDE DEF o
    <2>3. o \in Nat /\ o < head + 1 /\ catalog' = catalog \cup {head + 1}
      BY <2>1, <2>2 DEF Appends
    <2>4. o \in catalog' /\ \A y \in catalog' : o <= y
      BY <2>2, <2>3, <1>0
    <2>5. OldestOf(catalog') = o
      BY <2>1, <2>4, OldestIs
    <2>6. o > 1 <=> o \in truncated'
      BY DEF RInv, BoundaryMarked, Appends, o
    <2>7. QED
      BY <2>5, <2>6 DEF BoundaryMarked
  <1>5. ASSUME NEW i \in Items PROVE RowSound(i)' /\ PhaseTells(i)'
    <2>1. i[1] \in Nat /\ i[2] \in Nat /\ RowSound(i) /\ PhaseTells(i) /\ Retained \in Nat /\ Retained >= 1
      BY RetentionNumbers DEF RInv
    <2>2. RowSound(i)'
      BY <2>1, <1>0 DEF RowSound, Appends
    <2>3. item[i].phase # "none" => i[2] # head + 1
      BY <2>1, <1>0 DEF RowSound
    <2>4. QED
      BY <2>1, <2>2, <2>3 DEF PhaseTells, Appends
  <1>6. QED
    BY <1>1, <1>2, <1>3, <1>4, <1>5 DEF RInv

\* Steps that leave the revisions and the rows of items alone.
LEMMA ContentStays ==
  ASSUME RetentionAssumption, RInv, UNCHANGED <<head, content, item>>, runs' \in Nat, runs' >= runs,
         lease' \in [run : 0..runs', live : BOOLEAN], worker' \in [Workers -> 0..runs'],
         restore' \in Restores, HeldIsReadable'
  PROVE  RInv'
  <1>1. RetentionTypes'
    BY DEF RInv, RetentionTypes, content
  <1>2. NewestStay' /\ BoundaryMarked'
    BY DEF RInv, NewestStay, BoundaryMarked, content
  <1>3. ASSUME NEW i \in Items PROVE RowSound(i)' /\ PhaseTells(i)'
    <2>1. i[1] \in Nat /\ RowSound(i) /\ PhaseTells(i) /\ runs \in Nat
      BY RetentionNumbers DEF RInv, RetentionTypes
    <2>2. QED
      BY <2>1 DEF RowSound, PhaseTells, content
  <1>4. QED
    BY <1>1, <1>2, <1>3 DEF RInv

\* An item is in another phase, the others stay.
Moves(i, phase, n) ==
  item' \in [Items -> Row] /\ item'[i] = [phase |-> phase, attempts |-> n]
    /\ \A j \in Items \ {i} : item'[j] = item[j]

\* Nothing is taken away but what the item is of, and nothing of what is held.
TakesOnly(i) ==
  /\ UNCHANGED <<head, holds, lease, runs, worker, restore>>
  /\ payload' \subseteq payload /\ refs' \subseteq refs /\ catalog' \subseteq catalog
  /\ payload \subseteq payload' \cup {i[2]} /\ refs \subseteq refs' \cup {i[2]}
  /\ catalog \subseteq catalog' \cup {i[2]} /\ truncated' \subseteq catalog'
  /\ Held(i[2]) => payload' = payload /\ catalog' = catalog /\ refs' = refs

\* A step that moves one item to another phase, within what is old and not held
\* where it takes something away.
LEMMA ItemMoves ==
  ASSUME RetentionAssumption, RInv, NEW i \in Items, NEW phase \in Phases, NEW n \in Nat,
         item[i].phase \notin {"none", "quarantined"}, phase # "none",
         Moves(i, phase, n), n <= MaxAttempts, phase # "quarantined" => n < MaxAttempts,
         TakesOnly(i), BoundaryMarked', PhaseTells(i)'
  PROVE  RInv'
  <1>0. i[2] + Retained <= head /\ i[2] \in Nat /\ head \in Nat /\ Retained \in Nat /\ Retained >= 1
    BY RetentionNumbers DEF RInv, RowSound, RetentionTypes, Revisions
  <1>1. item'[i] = [phase |-> phase, attempts |-> n] /\ \A j \in Items \ {i} : item'[j] = item[j]
    BY DEF Moves
  <1>2. RetentionTypes'
    <2>1. head \in catalog'
      BY <1>0 DEF RInv, RetentionTypes, TakesOnly
    <2>2. item' \in [Items -> Row]
      BY DEF Moves
    <2>3. QED
      BY <2>1, <2>2 DEF RInv, RetentionTypes, TakesOnly
  <1>3. NewestStay'
    <2> SUFFICES ASSUME NEW rev \in 1..head, rev + Retained > head
                 PROVE  rev \in catalog' \cap payload' \cap refs'
      BY DEF NewestStay, TakesOnly
    <2>1. rev # i[2] /\ rev \in catalog \cap payload \cap refs
      BY <1>0 DEF RInv, NewestStay
    <2>2. QED
      BY <2>1 DEF TakesOnly
  <1>4. HeldIsReadable'
    BY DEF RInv, HeldIsReadable, Readable, Held, TakesOnly
  <1>5. ASSUME NEW j \in Items PROVE RowSound(j)' /\ PhaseTells(j)'
    <2>1. RowSound(j) /\ PhaseTells(j) /\ RowSound(i)
      BY DEF RInv
    <2>2. CASE j = i
      BY <1>1, <2>1, <2>2 DEF RowSound, TakesOnly
    <2>3. CASE j # i
      BY <1>1, <2>1, <2>3 DEF RowSound, PhaseTells, TakesOnly
    <2>4. QED
      BY <2>2, <2>3
  <1>6. QED
    BY <1>2, <1>3, <1>4, <1>5 DEF RInv

\* The removal of a row of the catalogue marks the oldest that is left.
LEMMA RemovalMarks ==
  ASSUME RetentionAssumption, RInv, NEW i \in Items, RemoveCatalog(i)
  PROVE  BoundaryMarked' /\ truncated' \subseteq catalog' /\ i[2] \notin catalog'
  <1> DEFINE rev == i[2]
             rest == catalog \ {rev}
             o == OldestOf(catalog)
             n == OldestOf(rest)
  <1>1. rev # head /\ rev \in Nat /\ head \in catalog /\ catalog \subseteq Nat \ {0} /\ truncated \subseteq catalog
    BY RetentionNumbers DEF RInv, RowSound, RetentionTypes, RemoveCatalog, Revisions
  <1>2. CASE rev \notin catalog
    <2>1. catalog' = catalog /\ truncated' = truncated
      BY <1>2 DEF RemoveCatalog
    <2>2. QED
      BY <1>1, <1>2, <2>1 DEF RInv, BoundaryMarked
  <1>3. CASE rev \in catalog
    <2>1. catalog' = rest /\ truncated' = (truncated \cup Boundary(rev)) \ {rev}
      BY <1>1, <1>3 DEF RemoveCatalog, Phases
    <2>2. o \in catalog /\ \A y \in catalog : o <= y
      BY <1>1, OldestIsThere
    <2>3. rest \subseteq Nat /\ rest # {}
      BY <1>1
    <2>4. n \in rest /\ \A y \in rest : n <= y
      BY <2>3, OldestIsThere
    <2> HIDE DEF n, o
    <2>5. CASE rev = o
      <3>1. Boundary(rev) = {n}
        BY <2>5 DEF Boundary, o, n
      <3>2. n > 1
        BY <1>1, <2>2, <2>4, <2>5
      <3>3. n \in truncated' /\ truncated' \subseteq catalog'
        BY <1>1, <2>1, <2>4, <3>1
      <3>4. QED
        BY <2>1, <3>2, <3>3 DEF BoundaryMarked, n
    <2>6. CASE rev # o
      <3>1. Boundary(rev) = {}
        BY <2>6 DEF Boundary, o
      <3>2. o \in rest /\ n = o
        BY <1>1, <2>2, <2>3, <2>6, OldestIs DEF n
      <3>3. o > 1 <=> o \in truncated'
        BY <2>1, <2>6, <3>1 DEF RInv, BoundaryMarked, o
      <3>4. QED
        BY <1>1, <2>1, <3>1, <3>2, <3>3 DEF BoundaryMarked, n
    <2>7. QED
      BY <2>5, <2>6
  <1>4. QED
    BY <1>2, <1>3

\* The phases of an item, and its failures.
LEMMA AdvanceKeeps ==
  ASSUME RetentionAssumption, RInv, NEW w \in Workers, NEW i \in Items,
         Advance(w, i) \/ RecordFailure(w, i)
  PROVE  RInv'
  <1> DEFINE n == item[i].attempts
  <1> HIDE DEF n
  <1>0. item[i] \in Row /\ RowSound(i) /\ PhaseTells(i) /\ BoundaryMarked /\ truncated \subseteq catalog
        /\ item \in [Items -> Row]
    BY DEF RInv, RetentionTypes
  <1>1. ASSUME NEW phase \in Phases, MoveTo(i, phase) PROVE Moves(i, phase, n)
    BY <1>0, <1>1 DEF MoveTo, Row, Moves, n
  <1>2. CASE Advance(w, i) /\ ~Barrier(i) /\ DetachReferences(i)
    <2>1. Moves(i, "refs_detached", n)
          /\ UNCHANGED <<catalog, truncated, payload>> /\ refs' = refs \ {i[2]} /\ item[i].phase = "planned"
      BY <1>1, <1>2 DEF DetachReferences, Phases
    <2>2. PhaseTells(i)'
      BY <1>0, <2>1 DEF PhaseTells, Moves
    <2>3. BoundaryMarked' /\ n \in Nat /\ n < MaxAttempts /\ n <= MaxAttempts
      BY <1>0, <2>1, RetentionNumbers DEF BoundaryMarked, RowSound, n
    <2>4. "refs_detached" \in Phases /\ TakesOnly(i)
      BY <1>0, <1>2, <2>1 DEF Advance, Barrier, Phases, TakesOnly
    <2>5. QED
      BY <1>0, <2>1, <2>2, <2>3, <2>4, ItemMoves
  <1>3. CASE Advance(w, i) /\ ~Barrier(i) /\ ClearPayload(i)
    <2>1. Moves(i, "payload_cleared", n)
          /\ UNCHANGED <<catalog, truncated, refs>> /\ payload' = payload \ {i[2]}
          /\ item[i].phase = "refs_detached"
      BY <1>1, <1>3 DEF ClearPayload, Phases
    <2>2. PhaseTells(i)'
      BY <1>0, <2>1 DEF PhaseTells, Moves
    <2>3. BoundaryMarked' /\ n \in Nat /\ n < MaxAttempts /\ n <= MaxAttempts
      BY <1>0, <2>1, RetentionNumbers DEF BoundaryMarked, RowSound, n
    <2>4. "payload_cleared" \in Phases /\ TakesOnly(i)
      BY <1>0, <1>3, <2>1 DEF Advance, Phases, Barrier, TakesOnly
    <2>5. QED
      BY <1>0, <2>1, <2>2, <2>3, <2>4, ItemMoves
  <1>4. CASE Advance(w, i) /\ ~Barrier(i) /\ RemoveCatalog(i)
    <2>1. Moves(i, "catalog_removed", n)
          /\ UNCHANGED <<payload, refs>> /\ item[i].phase = "payload_cleared"
      BY <1>1, <1>4 DEF RemoveCatalog, Phases
    <2>2. BoundaryMarked' /\ truncated' \subseteq catalog' /\ i[2] \notin catalog'
      BY <1>4, RemovalMarks
    <2>3. catalog' \subseteq catalog /\ catalog \subseteq catalog' \cup {i[2]}
      BY <1>4 DEF RemoveCatalog
    <2>4. PhaseTells(i)'
      BY <1>0, <2>1, <2>2 DEF PhaseTells, Moves
    <2>5. n \in Nat /\ n < MaxAttempts /\ n <= MaxAttempts
      BY <1>0, <2>1, RetentionNumbers DEF RowSound, n
    <2>6. "catalog_removed" \in Phases /\ TakesOnly(i)
      BY <1>0, <1>4, <2>1, <2>2, <2>3 DEF Advance, Phases, Barrier, TakesOnly
    <2>7. QED
      BY <1>0, <2>1, <2>2, <2>3, <2>4, <2>5, <2>6, ItemMoves
  <1>5. CASE Advance(w, i) /\ AppendAudit(i)
    <2>1. Moves(i, "complete", n)
          /\ UNCHANGED <<catalog, truncated, payload, refs>> /\ item[i].phase = "catalog_removed"
      BY <1>1, <1>5 DEF AppendAudit, content, Phases
    <2>2. PhaseTells(i)'
      BY <1>0, <2>1 DEF PhaseTells, Moves
    <2>3. BoundaryMarked' /\ n \in Nat /\ n < MaxAttempts /\ n <= MaxAttempts
      BY <1>0, <2>1, RetentionNumbers DEF BoundaryMarked, RowSound, n
    <2>4. "complete" \in Phases /\ TakesOnly(i)
      BY <1>0, <1>5, <2>1 DEF Advance, Phases, TakesOnly
    <2>5. QED
      BY <1>0, <2>1, <2>2, <2>3, <2>4, ItemMoves
  <1>6. CASE RecordFailure(w, i)
    <2> DEFINE m == item[i].attempts + 1
               phase == IF m >= MaxAttempts THEN "quarantined" ELSE item[i].phase
    <2>1. item[i].attempts \in Nat /\ m \in Nat /\ m <= MaxAttempts
      BY <1>0, <1>6, RetentionNumbers DEF RecordFailure, RowSound, Row
    <2>2. phase \in Phases /\ phase # "none" /\ item[i].phase \notin {"none", "quarantined"}
      BY <1>0, <1>6 DEF RecordFailure, Phases, Row
    <2>3. Moves(i, phase, m)
      BY <1>0, <1>6, <2>1, <2>2 DEF RecordFailure, Row, Moves
    <2>4. phase # "quarantined" => m < MaxAttempts
      BY <2>1, RetentionNumbers
    <2>5. UNCHANGED <<head, catalog, truncated, payload, refs, holds, lease, runs, worker, restore>>
      BY <1>6 DEF RecordFailure, content
    <2>6. item'[i] = [phase |-> phase, attempts |-> m]
      BY <2>3 DEF Moves
    <2>7. PhaseTells(i)'
      BY <1>0, <2>5, <2>6 DEF PhaseTells
    <2>8. TakesOnly(i) /\ BoundaryMarked'
      BY <1>0, <2>5 DEF BoundaryMarked, TakesOnly
    <2> HIDE DEF m, phase
    <2>9. QED
      BY <2>1, <2>2, <2>3, <2>4, <2>7, <2>8, ItemMoves
  <1>7. QED
    BY <1>2, <1>3, <1>4, <1>5, <1>6 DEF Advance

\* A run plans items of its own, for revisions that are old.
LEMMA PlanKeeps ==
  ASSUME RetentionAssumption, RInv, NEW w \in Workers, Plan(w)
  PROVE  RInv'
  <1>1. runs \in Nat /\ runs' = runs + 1 /\ lease' = [run |-> runs + 1, live |-> TRUE]
        /\ UNCHANGED <<head, catalog, truncated, payload, refs, holds, restore>>
        /\ item' = [i \in Items |-> IF i[1] = runs + 1 /\ i[2] \in Candidates
                              THEN [phase |-> "planned", attempts |-> 0] ELSE item[i]]
    BY DEF RInv, RetentionTypes, Plan, content
  <1>2. RetentionTypes'
    <2>1. worker' \in [Workers -> 0..runs']
      BY <1>1 DEF RInv, RetentionTypes, Plan
    <2>2. item' \in [Items -> Row]
      BY <1>1 DEF RInv, RetentionTypes, Row, Phases
    <2>3. QED
      BY <1>1, <2>1, <2>2 DEF RInv, RetentionTypes
  <1>3. NewestStay' /\ HeldIsReadable' /\ BoundaryMarked'
    BY <1>1 DEF RInv, NewestStay, HeldIsReadable, Readable, BoundaryMarked
  <1>4. ASSUME NEW i \in Items PROVE RowSound(i)' /\ PhaseTells(i)'
    <2>1. RowSound(i) /\ PhaseTells(i) /\ i[1] \in Nat
      BY RetentionNumbers DEF RInv
    <2>2. CASE i[1] = runs + 1 /\ i[2] \in Candidates
      <3>1. i[2] + Retained <= head
        BY <2>2 DEF Candidates, Old
      <3>2. item'[i] = [phase |-> "planned", attempts |-> 0]
        BY <1>1, <2>2
      <3>3. QED
        BY <1>1, <2>1, <2>2, <3>1, <3>2, RetentionNumbers DEF RowSound, PhaseTells
    <2>3. CASE ~(i[1] = runs + 1 /\ i[2] \in Candidates)
      <3>1. item'[i] = item[i]
        BY <1>1, <2>3
      <3>2. QED
        BY <1>1, <2>1, <3>1 DEF RowSound, PhaseTells
    <2>4. QED
      BY <2>2, <2>3
  <1>5. QED
    BY <1>2, <1>3, <1>4 DEF RInv

\* Every step keeps the invariant.
LEMMA NextRInv == ASSUME RetentionAssumption PROVE RInv /\ [RetentionNext]_retentionVars => RInv'
  <1> SUFFICES ASSUME RInv, [RetentionNext]_retentionVars PROVE RInv'
    OBVIOUS
  <1>0. runs \in Nat /\ lease \in [run : 0..runs, live : BOOLEAN] /\ worker \in [Workers -> 0..runs]
        /\ restore \in Restores /\ HeldIsReadable /\ runs <= runs
    BY DEF RInv, RetentionTypes
  <1>1. CASE AppendRevision
    BY <1>0, <1>1, AppendKeeps DEF AppendRevision, Appends
  <1>2. CASE RevalidateRestore
    <2>1. restore' \in Restores
      BY <1>0, <1>2 DEF RevalidateRestore, Restores
    <2>2. CASE Readable(restore.rev) = "ok"
      BY <1>2, <2>1, <2>2, AppendKeeps DEF RevalidateRestore, Appends
    <2>3. CASE Readable(restore.rev) # "ok"
      <3>1. UNCHANGED <<head, catalog, truncated, payload, refs, holds, lease, runs, worker, item>>
        BY <1>2, <2>3 DEF RevalidateRestore
      <3>2. HeldIsReadable'
        BY <1>0, <3>1 DEF HeldIsReadable, Readable
      <3>3. QED
        BY <1>0, <2>1, <3>1, <3>2, ContentStays DEF content
    <2>4. QED
      BY <2>2, <2>3
  <1>3. CASE LeaseLapses
    <2>1. lease' \in [run : 0..runs, live : BOOLEAN] /\ UNCHANGED <<head, content, holds, runs, worker, item, restore>>
      BY <1>0, <1>3 DEF LeaseLapses
    <2>2. HeldIsReadable'
      BY <1>0, <2>1 DEF HeldIsReadable, Readable, content
    <2>3. QED
      BY <1>0, <2>1, <2>2, ContentStays
  <1>4. ASSUME NEW rev \in Revisions, PrepareRestore(rev) PROVE RInv'
    <2>1. restore' \in Restores /\ UNCHANGED <<head, content, holds, lease, runs, worker, item>>
      BY <1>4, RetentionNumbers DEF PrepareRestore, Readable, Restores, Revisions
    <2>2. HeldIsReadable'
      BY <1>0, <2>1 DEF HeldIsReadable, Readable, content
    <2>3. QED
      BY <1>0, <2>1, <2>2, ContentStays
  <1>5. ASSUME NEW rev \in Revisions, NEW kind \in {"published", "export"}, Hold(kind, rev) PROVE RInv'
    <2> DEFINE new == [kind |-> kind, rev |-> rev, whole |-> rev \in refs]
    <2>1. /\ new.kind = kind /\ new.rev = rev /\ new.whole = (rev \in refs)
          /\ holds' = holds \cup {new} /\ UNCHANGED content
          /\ rev \in catalog \cap payload /\ (kind = "export" => rev \in refs)
      BY <1>5, Zenon DEF Hold
    <2> HIDE DEF new
    <2>2. UNCHANGED <<catalog, payload, refs>>
      BY <2>1 DEF content
    <2>3. IF new.whole THEN Readable(new.rev) = "ok"
          ELSE new.kind = "published" /\ new.rev \in catalog \cap payload
      <3>1. CASE rev \in refs
        BY <2>1, <3>1 DEF Readable
      <3>2. CASE rev \notin refs
        BY <2>1, <3>2
      <3>3. QED
        BY <3>1, <3>2
    <2>4. HeldIsReadable'
      BY <1>0, <2>1, <2>2, <2>3 DEF HeldIsReadable, Readable
    <2>5. QED
      BY <1>0, <1>5, <2>4, ContentStays DEF Hold
  <1>6. ASSUME NEW h \in holds, LetGo(h) PROVE RInv'
    <2>1. HeldIsReadable'
      BY <1>0, <1>6 DEF HeldIsReadable, Readable, LetGo, content
    <2>2. QED
      BY <1>0, <1>6, <2>1, ContentStays DEF LetGo
  <1>7. ASSUME NEW w \in Workers, Plan(w) \/ \E i \in Items : Advance(w, i) \/ RecordFailure(w, i)
        PROVE  RInv'
    BY <1>7, PlanKeeps, AdvanceKeeps
  <1>8. CASE UNCHANGED retentionVars
    <2>1. UNCHANGED <<head, content, holds, lease, runs, worker, item, restore>>
      BY <1>8 DEF retentionVars
    <2>2. HeldIsReadable'
      BY <1>0, <2>1 DEF HeldIsReadable, Readable, content
    <2>3. QED
      BY <1>0, <2>1, <2>2, ContentStays
  <1>9. QED
    BY <1>1, <1>2, <1>3, <1>4, <1>5, <1>6, <1>7, <1>8 DEF RetentionNext

\* An item is changed by the worker that owns the lease of its run, or planned.
LEMMA NextFencedOut == ASSUME RetentionAssumption PROVE RInv /\ [RetentionNext]_retentionVars => [FencedOut]_retentionVars
  <1> SUFFICES ASSUME RInv, RetentionNext, NEW i \in Items, item'[i] # item[i], item[i].phase # "none"
               PROVE  lease.live /\ lease.run = i[1]
    BY DEF FencedOut
  <1>1. item \in [Items -> Row] /\ i[1] <= runs /\ runs \in Nat /\ i[1] \in Nat
    BY RetentionNumbers DEF RInv, RowSound, RetentionTypes
  <1>2. ASSUME NEW w \in Workers, Plan(w) PROVE FALSE
    BY <1>1, <1>2 DEF Plan
  <1>3. ASSUME NEW w \in Workers, NEW j \in Items, Advance(w, j) \/ RecordFailure(w, j)
        PROVE  lease.live /\ lease.run = i[1]
    <2>1. j = i
      BY <1>1, <1>3 DEF Advance, RecordFailure, DetachReferences, ClearPayload, RemoveCatalog, AppendAudit, MoveTo
    <2>2. QED
      BY <1>3, <2>1 DEF Advance, RecordFailure, OwnsLease
  <1>4. QED
    BY <1>2, <1>3 DEF RetentionNext, AppendRevision, RevalidateRestore, LeaseLapses, PrepareRestore, Hold, LetGo

\* RetentionService and the transactions beside it: for any number of workers,
\* runs, revisions and holds, the newest revisions stay whole and the held ones as
\* whole as they were when they were held, the cut of the history is marked, phases
\* tell what is gone and a worker that lost its lease changes nothing.
THEOREM RevisionsAlwaysRetained ==
  ASSUME RetentionAssumption
  PROVE  RetentionSpec => RevisionsAreRetained
  <1>1. RInv => RetentionTypeOK /\ PhasesTell
    BY DEF RInv, RetentionTypes, RetentionTypeOK, RowSound, Row, Restores, PhaseTells, PhasesTell
  <1>2. RInv => NewestStay /\ HeldIsReadable /\ BoundaryMarked
    BY DEF RInv
  <1>3. QED
    BY <1>1, <1>2, InitRInv, NextRInv, NextFencedOut, PTL DEF RetentionSpec, RevisionsAreRetained

(***************************************************************************)
(* Transactions on pooled connections                                      *)
(*                                                                         *)
(* A connection never carries more than one statement of a request that    *)
(* waits, after a ROLLBACK at most that nobody waits for; and beside the     *)
(* ROLLBACK of a transaction that was given up before its connection, one     *)
(* statement of its operation.                                               *)
(***************************************************************************)

Statements == [by : Requests, kind : StatementKinds, work : Nat]
SlotRow == [state : {"closed", "idle", "used"}, queue : Seq(Statements), open : BOOLEAN,
            writes : SUBSET (Requests \X Nat)]
Call == [pc : {"new", "asking", "late"} \cup StatementKinds \cup {"undone", "ended"},
         at : Slots \cup {NoSlot}, runs : BOOLEAN, early : BOOLEAN, told : Answers]

\* The ROLLBACK of a request that ended.
LeftBy(o) == o \in Requests /\ req[o].pc = "ended"

\* Nobody uses the connection.
Unused(c) ==
  /\ slot[c].state # "used" /\ \A r \in Requests : req[r].at # c
  /\ \/ slot[c].queue = <<>> /\ ~slot[c].open /\ slot[c].writes = {}
     \/ /\ slot[c].state = "idle"
        /\ \E o \in Requests : LeftBy(o) /\ slot[c].queue = <<Sent(o, "rollback", 0)>>

\* How far the transaction of r is, by the statement it waits for.
Sets(c, r) ==
  /\ req[r].pc = "configure"
  /\ \/ slot[c].queue = <<Sent(r, "configure", 0)>> /\ ~slot[c].open /\ slot[c].writes = {}
     \/ \E o \in Requests :
          LeftBy(o) /\ slot[c].queue = <<Sent(o, "rollback", 0), Sent(r, "configure", 0)>>
Begins(c, r) ==
  /\ req[r].pc = "begin"
  /\ slot[c].queue = <<Sent(r, "begin", 0)>> /\ ~slot[c].open /\ slot[c].writes = {}
Writing(c, r) ==
  /\ req[r].pc = "work" /\ req[r].runs /\ slot[c].open
  /\ \E n \in 1..Works : /\ slot[c].queue = <<Sent(r, "work", n)>>
                         /\ slot[c].writes = {<<r, k>> : k \in 1..(n - 1)}
Committing(c, r) ==
  /\ req[r].pc = "commit" /\ ~req[r].runs /\ slot[c].open
  /\ slot[c].queue = <<Sent(r, "commit", 0)>> /\ slot[c].writes = AllWorks(r)
RollsBack(c, r) ==
  /\ req[r].pc = "rollback" /\ slot[c].open /\ slot[c].queue = <<Sent(r, "rollback", 0)>>

\* The transaction was given up: the operation writes on, or its COMMIT is sent.
WritesOn(c, r) ==
  /\ req[r].runs /\ slot[c].open
  /\ \E n \in 1..Works : slot[c].queue = <<Sent(r, "work", n), Sent(r, "rollback", 0)>>
WritesAfter(c, r) ==
  /\ req[r].runs
  /\ \E n \in 2..Works : slot[c].queue = <<Sent(r, "rollback", 0), Sent(r, "work", n)>>
CommitsFirst(c, r) ==
  /\ ~req[r].runs /\ slot[c].open /\ slot[c].writes = AllWorks(r)
  /\ slot[c].queue = <<Sent(r, "commit", 0), Sent(r, "rollback", 0)>>
Overruns(c, r) ==
  /\ req[r].pc = "undone" /\ req[r].early
  /\ \/ WritesOn(c, r) \/ WritesAfter(c, r) \/ CommitsFirst(c, r)
     \/ slot[c].queue = <<Sent(r, "rollback", 0)>>

UsedBy(c, r) ==
  /\ slot[c].state = "used" /\ req[r].at = c /\ \A q \in Requests \ {r} : req[q].at # c
  /\ \/ Sets(c, r) \/ Begins(c, r) \/ Writing(c, r) \/ Committing(c, r)
     \/ RollsBack(c, r) \/ Overruns(c, r)

SlotSound(c) == Unused(c) \/ \E r \in Requests : UsedBy(c, r)

All(r) == \A n \in 1..Works : <<r, n>> \in durable
Nothing(r) == \A n \in 1..Works : <<r, n>> \notin durable

\* One write of it is committed alone.
Stray(r) ==
  /\ req[r].early /\ req[r].told = "aborted"
  /\ \E w \in 2..Works : \A n \in 1..Works : <<r, n>> \in durable <=> n = w

CallShape(r) ==
  /\ req[r].at \in Slots <=> req[r].pc \in StatementKinds \cup {"undone"}
  /\ req[r].pc \notin {"late", "ended"} => req[r].told = "none"
  /\ req[r].told \in {"ok", "failed"} => req[r].pc = "ended"

CallSound(r) ==
  /\ CallShape(r)
  /\ req[r].pc # "ended" /\ (req[r].pc = "undone" => req[r].runs) => Nothing(r)
  /\ req[r].pc = "undone" => All(r) \/ Nothing(r)
  /\ req[r].told = "ok" => All(r)
  /\ req[r].told = "failed" => Nothing(r)
  /\ All(r) \/ Nothing(r) \/ Stray(r)

TInv ==
  /\ req \in [Requests -> Call] /\ slot \in [Slots -> SlotRow]
  /\ durable \subseteq UNION {AllWorks(r) : r \in Requests}
  /\ \A c \in Slots : SlotSound(c)
  /\ \A r \in Requests : CallSound(r)

\* What the operators on sequences make of a queue.
LEMMA Queues ==
  ASSUME NEW s \in Statements, NEW t \in Statements
  PROVE  /\ <<s>> # <<>> /\ <<s, t>> # <<>> /\ Head(<<s>>) = s /\ Tail(<<s>>) = <<>>
         /\ <<s>>[1] = s /\ <<s, t>>[1] = s
         /\ Head(<<s, t>>) = s /\ Tail(<<s, t>>) = <<t>>
         /\ Append(<<>>, t) = <<t>> /\ Append(<<s>>, t) = <<s, t>>
         /\ <<>> \o <<>> = <<>> /\ <<t>> \o <<>> = <<t>> /\ <<s>> \o <<t>> = <<s, t>>
         /\ <<s>> \in Seq(Statements) /\ <<s, t>> \in Seq(Statements) /\ <<>> \in Seq(Statements)
  <1>1. <<s>> # <<>> /\ <<s, t>> # <<>> /\ <<>> \in Seq(Statements)
    OBVIOUS
  <1>2. Head(<<s>>) = s /\ Head(<<s, t>>) = s /\ <<s>>[1] = s /\ <<s, t>>[1] = s
    OBVIOUS
  <1>3. <<s>> \in Seq(Statements) /\ <<s, t>> \in Seq(Statements)
    OBVIOUS
  <1>4. Tail(<<s>>) = <<>>
    OBVIOUS
  <1>5. Tail(<<s, t>>) = <<t>>
    OBVIOUS
  <1>6. Append(<<>>, t) = <<t>>
    OBVIOUS
  <1>7. Append(<<s>>, t) = <<s, t>>
    <2>1. /\ Append(<<s>>, t) \in Seq(Statements) /\ Len(Append(<<s>>, t)) = 2
          /\ Append(<<s>>, t)[1] = s /\ Append(<<s>>, t)[2] = t
      BY <1>3
    <2>2. Len(<<s, t>>) = 2 /\ <<s, t>>[1] = s /\ <<s, t>>[2] = t
      OBVIOUS
    <2>3. \A i \in 1..2 : i = 1 \/ i = 2
      OBVIOUS
    <2>4. QED
      BY <1>3, <2>1, <2>2, <2>3, SeqEqual
  <1>8. <<>> \o <<>> = <<>>
    OBVIOUS
  <1>9. <<t>> \o <<>> = <<t>>
    OBVIOUS
  <1>10. <<s>> \o <<t>> = <<s, t>>
    <2>1. /\ <<s>> \o <<t>> \in Seq(Statements) /\ Len(<<s>> \o <<t>>) = 2
          /\ (<<s>> \o <<t>>)[1] = s /\ (<<s>> \o <<t>>)[2] = t
      BY <1>3, ConcatProperties
    <2>2. Len(<<s, t>>) = 2 /\ <<s, t>>[1] = s /\ <<s, t>>[2] = t
      OBVIOUS
    <2>3. \A i \in 1..2 : i = 1 \/ i = 2
      OBVIOUS
    <2>4. QED
      BY <1>3, <2>1, <2>2, <2>3, SeqEqual
  <1>11. QED
    BY <1>1, <1>2, <1>3, <1>4, <1>5, <1>6, <1>7, <1>8, <1>9, <1>10

LEMMA StatementSent ==
  ASSUME NEW r \in Requests, NEW k \in StatementKinds, NEW n \in Nat
  PROVE  /\ Sent(r, k, n) \in Statements
         /\ Sent(r, k, n).by = r /\ Sent(r, k, n).kind = k /\ Sent(r, k, n).work = n
  BY DEF Sent, Statements

\* The database changes whether a transaction is open and what it wrote.
LEMMA ExecutedIs ==
  ASSUME TInv, NEW c \in Slots, NEW s \in Statements
  PROVE  /\ Executed(c, s) \in SlotRow
         /\ Executed(c, s).state = slot[c].state /\ Executed(c, s).queue = slot[c].queue
         /\ s.kind = "begin" => Executed(c, s).open /\ Executed(c, s).writes = {}
         /\ s.kind = "work" /\ slot[c].open =>
              Executed(c, s).open /\ Executed(c, s).writes = slot[c].writes \cup {<<s.by, s.work>>}
         /\ s.kind \in {"commit", "rollback"} => ~Executed(c, s).open /\ Executed(c, s).writes = {}
         /\ s.kind = "configure" => Executed(c, s) = slot[c]
  <1>1. slot[c] \in SlotRow
    BY DEF TInv
  <1>2. <<s.by, s.work>> \in Requests \X Nat
    BY DEF Statements
  <1>3. CASE s.kind = "begin"
    BY <1>1, <1>3 DEF Executed, SlotRow
  <1>4. CASE s.kind = "work" /\ slot[c].open
    BY <1>1, <1>2, <1>4 DEF Executed, SlotRow
  <1>5. CASE s.kind \in {"commit", "rollback"}
    BY <1>1, <1>5 DEF Executed, SlotRow
  <1>6. CASE s.kind = "configure" \/ (s.kind = "work" /\ ~slot[c].open)
    BY <1>1, <1>6 DEF Executed
  <1>7. QED
    BY <1>3, <1>4, <1>5, <1>6 DEF Statements, StatementKinds

\* A step leaves a connection sound that it leaves alone, with its request.
LEMMA SlotFrame ==
  ASSUME NEW c \in Slots, SlotSound(c), slot'[c] = slot[c],
         \A r \in Requests : req[r].at = c \/ req'[r].at = c => req'[r] = req[r],
         \A r \in Requests : req[r].pc = "ended" => req'[r].pc = "ended"
  PROVE  SlotSound(c)'
  <1>1. \A o \in Requests : LeftBy(o) => LeftBy(o)'
    BY DEF LeftBy
  <1>2. CASE Unused(c)
    BY <1>1, <1>2 DEF Unused, SlotSound
  <1>3. ASSUME NEW r \in Requests, UsedBy(c, r) PROVE UsedBy(c, r)'
    <2>1. req'[r] = req[r] /\ \A q \in Requests \ {r} : req'[q].at # c
      BY <1>3 DEF UsedBy
    <2>2. Sets(c, r) => Sets(c, r)'
      BY <1>1, <2>1 DEF Sets
    <2>3. Begins(c, r) => Begins(c, r)'
      BY <2>1 DEF Begins
    <2>4. Writing(c, r) => Writing(c, r)'
      BY <2>1 DEF Writing
    <2>5. Committing(c, r) => Committing(c, r)'
      BY <2>1 DEF Committing
    <2>6. RollsBack(c, r) => RollsBack(c, r)'
      BY <2>1 DEF RollsBack
    <2>7. Overruns(c, r) => Overruns(c, r)'
      BY <2>1 DEF Overruns, WritesOn, WritesAfter, CommitsFirst
    <2>8. QED
      BY <1>3, <2>1, <2>2, <2>3, <2>4, <2>5, <2>6, <2>7 DEF UsedBy
  <1>4. QED
    BY <1>2, <1>3 DEF SlotSound

\* A statement commits nothing, or the whole transaction of the request that
\* waits for its COMMIT or did when it was given up.
LEMMA CommitsWhole ==
  ASSUME OwnedAssumption, TInv, NEW c \in Slots, slot[c].queue # <<>>
  PROVE  \/ Commits(c, Head(slot[c].queue)) = {}
         \/ \E r \in Requests : /\ req[r].at = c /\ req[r].pc \in {"commit", "undone"}
                                /\ Commits(c, Head(slot[c].queue)) = AllWorks(r)
  <1>1. SlotSound(c)
    BY DEF TInv
  <1>2. ASSUME NEW o \in Requests, Head(slot[c].queue) = Sent(o, "rollback", 0)
        PROVE  Commits(c, Head(slot[c].queue)) = {}
    BY <1>2 DEF Commits, Sent
  <1>3. CASE Unused(c)
    BY <1>2, <1>3, Queues, StatementSent DEF Unused, StatementKinds
  <1>4. ASSUME NEW r \in Requests, UsedBy(c, r)
        PROVE  \/ Commits(c, Head(slot[c].queue)) = {}
               \/ /\ req[r].at = c /\ req[r].pc \in {"commit", "undone"}
                  /\ Commits(c, Head(slot[c].queue)) = AllWorks(r)
    <2> USE DEF StatementKinds
    <2>1. CASE Sets(c, r)
      BY <1>2, <2>1, Queues, StatementSent DEF Sets, Commits
    <2>2. CASE Begins(c, r)
      BY <2>2, Queues, StatementSent DEF Begins, Commits
    <2>3. CASE Writing(c, r)
      BY <2>3, Queues, StatementSent DEF Writing, Commits
    <2>4. CASE Committing(c, r)
      BY <1>4, <2>4, Queues, StatementSent DEF Committing, Commits, UsedBy
    <2>5. CASE RollsBack(c, r)
      BY <1>2, <2>5, Queues, StatementSent DEF RollsBack
    <2>6. CASE Overruns(c, r)
      <3>1. ASSUME NEW n \in Nat PROVE Sent(r, "work", n) \in Statements
        BY StatementSent
      <3>2. Sent(r, "rollback", 0) \in Statements /\ Sent(r, "commit", 0) \in Statements
        BY StatementSent
      <3>3. \A n \in 1..Works : n \in Nat
        BY DEF OwnedAssumption
      <3>4. \A n \in 2..Works : n \in Nat
        BY DEF OwnedAssumption
      <3>5. CASE WritesOn(c, r)
        <4>1. PICK n \in 1..Works : slot[c].queue = <<Sent(r, "work", n), Sent(r, "rollback", 0)>>
          BY <3>5 DEF WritesOn
        <4>2. Head(slot[c].queue) = Sent(r, "work", n) /\ slot[c].open
          BY <3>1, <3>2, <3>3, <3>5, <4>1, Queues DEF WritesOn
        <4>3. QED
          BY <3>3, <4>2, StatementSent DEF Commits
      <3>6. CASE WritesAfter(c, r)
        <4>1. PICK n \in 2..Works : slot[c].queue = <<Sent(r, "rollback", 0), Sent(r, "work", n)>>
          BY <3>6 DEF WritesAfter
        <4>2. QED
          BY <1>2, <3>1, <3>2, <3>4, <4>1, Queues
      <3>7. CASE CommitsFirst(c, r)
        <4>1. Head(slot[c].queue) = Sent(r, "commit", 0)
          BY <3>2, <3>7, Queues DEF CommitsFirst
        <4>2. Commits(c, Head(slot[c].queue)) = slot[c].writes
          BY <4>1, StatementSent DEF Commits
        <4>3. QED
          BY <1>4, <2>6, <3>7, <4>2 DEF CommitsFirst, Overruns, UsedBy
      <3>8. CASE slot[c].queue = <<Sent(r, "rollback", 0)>>
        BY <1>2, <3>2, <3>8, Queues
      <3>9. QED
        BY <2>6, <3>5, <3>6, <3>7, <3>8 DEF Overruns
    <2>7. QED
      BY <1>4, <2>1, <2>2, <2>3, <2>4, <2>5, <2>6 DEF UsedBy
  <1>5. QED
    BY <1>1, <1>3, <1>4 DEF SlotSound

\* Where a connection ends, nothing is committed or a transaction whose COMMIT
\* was on its way; or a write that followed a ROLLBACK.
WholeBy(c, w) ==
  /\ req[w].at = c /\ durable' = durable \cup AllWorks(w) /\ req'[w].told # "failed"
  /\ req'[w].pc = "ended" \/ (req'[w].pc = "undone" /\ ~req'[w].runs)
StrayBy(c, w) ==
  /\ req[w].at = c /\ Nothing(w) /\ \E n \in 2..Works : durable' = durable \cup {<<w, n>>}
  /\ req'[w].pc = "ended" /\ req'[w].early /\ req'[w].told = "aborted"
Whole(c) ==
  \/ durable' = durable
  \/ \E w \in Requests : WholeBy(c, w)
  \/ \E w \in Requests : StrayBy(c, w)

LEMMA EndIsWhole ==
  ASSUME OwnedAssumption, TInv, NEW c \in Slots, SessionEnds(c),
         \A w \in Requests : req[w].at = c /\ req[w].pc \in {"commit", "undone"} =>
           req'[w].pc = "ended" /\ req'[w].told # "failed"
  PROVE  Whole(c)
  <1>1. PICK done \in BOOLEAN :
          durable' = IF done /\ slot[c].queue # <<>>
                     THEN durable \cup Commits(c, Head(slot[c].queue)) ELSE durable
    BY DEF SessionEnds
  <1>2. CASE durable' = durable
    BY <1>2 DEF Whole
  <1>3. CASE durable' # durable
    <2>1. slot[c].queue # <<>> /\ durable' = durable \cup Commits(c, Head(slot[c].queue))
      BY <1>1, <1>3
    <2>2. Commits(c, Head(slot[c].queue)) # {}
      BY <1>3, <2>1
    <2>3. QED
      BY <2>1, <2>2, CommitsWhole DEF Whole, WholeBy
  <1>4. QED
    BY <1>2, <1>3

\* Works of different requests are different.
LEMMA WorksApart ==
  ASSUME NEW r \in Requests, NEW w \in Requests, r # w, NEW W \in SUBSET AllWorks(w),
         durable' = durable \cup W
  PROVE  \A n : <<r, n>> \in durable' <=> <<r, n>> \in durable
  BY DEF AllWorks

\* What is committed of r does not change and neither does r, or it was on its way.
LEMMA CallFrame ==
  ASSUME NEW r \in Requests, CallSound(r), CallShape(r)',
         \A n \in 1..Works : <<r, n>> \in durable' <=> <<r, n>> \in durable,
         req'[r] # req[r] => req[r].pc # "ended",
         req'[r] # req[r] /\ req[r].pc = "undone" => req'[r].pc = "ended" /\ req'[r].told = "aborted",
         req'[r].told = "ok" => req'[r] = req[r] \/ AllWorks(r) \subseteq durable'
  PROVE  CallSound(r)'
  <1>1. (All(r) <=> All(r)') /\ (Nothing(r) <=> Nothing(r)')
    BY DEF All, Nothing
  <1>2. CASE req'[r] = req[r]
    <2>1. Stray(r) => Stray(r)'
      BY <1>2 DEF Stray
    <2>2. QED
      BY <1>1, <1>2, <2>1 DEF CallSound
  <1>3. CASE req'[r] # req[r]
    <2>1. AllWorks(r) \subseteq durable' => All(r)'
      BY DEF All, AllWorks
    <2>2. req[r].pc # "ended"
      BY <1>3
    <2>3. CASE req[r].pc = "undone"
      BY <1>1, <1>3, <2>3 DEF CallSound
    <2>4. CASE req[r].pc # "undone"
      BY <1>1, <1>3, <2>1, <2>2, <2>4 DEF CallSound
    <2>5. QED
      BY <2>3, <2>4
  <1>4. QED
    BY <1>2, <1>3

\* A step that concerns one connection and requests that use it or none.
LEMMA StepSound ==
  ASSUME OwnedAssumption, TInv, NEW c \in Slots \cup {NoSlot},
         req' \in [Requests -> Call], slot' \in [Slots -> SlotRow],
         \A d \in Slots \ {c} : slot'[d] = slot[d],
         \A r \in Requests : req'[r] # req[r] =>
           req[r].at \in {c, NoSlot} /\ req'[r].at \in {c, NoSlot} /\ req[r].pc # "ended",
         \A r \in Requests : req'[r] # req[r] /\ req[r].pc = "undone" =>
           req'[r].pc = "ended" /\ req'[r].told = "aborted",
         c \in Slots => SlotSound(c)', Whole(c),
         \A r \in Requests : CallShape(r)',
         \A r \in Requests : req'[r].told = "ok" => req'[r] = req[r] \/ AllWorks(r) \subseteq durable'
  PROVE  TInv'
  <1>1. durable' \subseteq UNION {AllWorks(r) : r \in Requests}
    <2>1. \A w \in Requests : \A n \in 2..Works : <<w, n>> \in AllWorks(w)
      BY DEF AllWorks, OwnedAssumption
    <2>2. QED
      BY <2>1 DEF TInv, Whole, WholeBy, StrayBy
  <1>2. ASSUME NEW d \in Slots PROVE SlotSound(d)'
    <2>1. CASE d = c
      BY <2>1
    <2>2. CASE d # c
      <3>1. SlotSound(d) /\ d # NoSlot
        BY DEF TInv, OwnedAssumption
      <3>2. slot'[d] = slot[d]
        BY <2>2
      <3>3. \A r \in Requests : req[r].at = d \/ req'[r].at = d => req'[r] = req[r]
        BY <2>2, <3>1
      <3>4. \A r \in Requests : req[r].pc = "ended" => req'[r].pc = "ended"
        OBVIOUS
      <3>5. QED
        BY <3>1, <3>2, <3>3, <3>4, SlotFrame
    <2>3. QED
      BY <2>1, <2>2
  <1>3. ASSUME NEW r \in Requests PROVE CallSound(r)'
    <2>1. CallSound(r) /\ CallShape(r)'
      BY DEF TInv
    <2>2. (\A n \in 1..Works : <<r, n>> \in durable' <=> <<r, n>> \in durable) => CallSound(r)'
      BY <2>1, CallFrame
    <2>3. CASE durable' = durable
      BY <2>2, <2>3
    <2>4. ASSUME NEW w \in Requests, WholeBy(c, w)
          PROVE  CallSound(r)'
      <3>1. CASE r = w
        <4>1. All(r)'
          BY <2>4, <3>1 DEF All, AllWorks, WholeBy
        <4>2. QED
          BY <2>1, <2>4, <3>1, <4>1 DEF CallSound, WholeBy
      <3>2. CASE r # w
        <4>1. \A n : <<r, n>> \in durable' <=> <<r, n>> \in durable
          BY <2>4, <3>2, WorksApart DEF WholeBy
        <4>2. QED
          BY <2>2, <4>1
      <3>3. QED
        BY <3>1, <3>2
    <2>5. ASSUME NEW w \in Requests, StrayBy(c, w)
          PROVE  CallSound(r)'
      <3>1. PICK n \in 2..Works : durable' = durable \cup {<<w, n>>}
        BY <2>5 DEF StrayBy
      <3>2. n \in 1..Works
        BY DEF OwnedAssumption
      <3>3. CASE r = w
        <4>1. \A m \in 1..Works : <<r, m>> \in durable' <=> m = n
          BY <2>5, <3>1, <3>3 DEF StrayBy, Nothing
        <4>2. Stray(r)'
          BY <2>5, <3>3, <4>1 DEF Stray, StrayBy
        <4>3. QED
          BY <2>1, <2>5, <3>3, <4>2 DEF CallSound, StrayBy
      <3>4. CASE r # w
        <4>1. {<<w, n>>} \in SUBSET AllWorks(w)
          BY <3>2 DEF AllWorks
        <4>2. \A m : <<r, m>> \in durable' <=> <<r, m>> \in durable
          BY <3>1, <3>4, <4>1, WorksApart
        <4>3. QED
          BY <2>2, <4>2
      <3>5. QED
        BY <3>3, <3>4
    <2>6. QED
      BY <2>3, <2>4, <2>5 DEF Whole
  <1>4. QED
    BY <1>1, <1>2, <1>3 DEF TInv

\* A request that has a connection uses it, and an unused one has no user.
LEMMA UserIs ==
  ASSUME TInv, NEW r \in Requests, req[r].at \in Slots
  PROVE  UsedBy(req[r].at, r)
  BY DEF TInv, SlotSound, Unused, UsedBy

LEMMA FreshIs == Fresh \in SlotRow /\ Fresh.queue = <<>> /\ ~Fresh.open /\ Fresh.writes = {} /\ Fresh.state = "closed"
  BY DEF Fresh, SlotRow

\* A request asks for a connection.
LEMMA AskKeeps ==
  ASSUME OwnedAssumption, TInv, NEW r \in Requests, Ask(r)
  PROVE  TInv'
  <1>1. req[r] \in Call /\ CallSound(r) /\ req \in [Requests -> Call] /\ slot \in [Slots -> SlotRow]
    BY DEF TInv
  <1>2. req'[r] = [req[r] EXCEPT !.pc = "asking"] /\ \A q \in Requests \ {r} : req'[q] = req[q]
    BY <1>1 DEF Ask
  <1>3. req' \in [Requests -> Call]
    BY <1>1 DEF Ask, Call
  <1>4. req[r].at = NoSlot /\ req'[r].at = NoSlot /\ CallShape(r)' /\ req'[r].told = "none"
    BY <1>1, <1>2 DEF CallSound, CallShape, Ask, Call, StatementKinds
  <1>5. \A q \in Requests : CallShape(q)'
    BY <1>2, <1>4 DEF TInv, CallSound, CallShape
  <1>6. Whole(NoSlot) /\ slot' = slot
    BY DEF Ask, Whole
  <1>7. QED
    BY <1>1, <1>2, <1>3, <1>4, <1>5, <1>6, StepSound DEF Ask, OwnedAssumption

\* The pool gives a request a connection, or a late one is destroyed.
LEMMA ConnectKeeps ==
  ASSUME OwnedAssumption, TInv, NEW r \in Requests, NEW c \in Slots, Connect(r, c)
  PROVE  TInv'
  <1>1. /\ req[r] \in Call /\ CallSound(r) /\ req \in [Requests -> Call] /\ slot \in [Slots -> SlotRow]
        /\ slot[c] \in SlotRow /\ req[r].at = NoSlot /\ Unused(c) /\ c # NoSlot
    BY DEF TInv, Connect, CallSound, CallShape, Call, StatementKinds, SlotSound, UsedBy, OwnedAssumption
  <1>2. CASE req[r].pc = "late"
    <2>1. slot' = [slot EXCEPT ![c] = Fresh] /\ req' = [req EXCEPT ![r].pc = "ended"]
      BY <1>2 DEF Connect, Late
    <2>2. req'[r] = [req[r] EXCEPT !.pc = "ended"] /\ \A q \in Requests \ {r} : req'[q] = req[q]
      BY <1>1, <2>1
    <2>3. req' \in [Requests -> Call]
      BY <1>1, <2>1 DEF Call
    <2>4. slot' \in [Slots -> SlotRow] /\ slot'[c] = Fresh /\ \A d \in Slots \ {c} : slot'[d] = slot[d]
      BY <1>1, <2>1, FreshIs
    <2>5. req'[r].at = NoSlot /\ CallShape(r)' /\ req'[r].told # "ok" /\ req'[r].told # "failed"
      BY <1>1, <1>2, <2>2 DEF CallSound, CallShape, Call, StatementKinds
    <2>6. \A q \in Requests : CallShape(q)'
      BY <2>2, <2>5 DEF TInv, CallSound, CallShape
    <2>7. SlotSound(c)'
      <3>1. \A q \in Requests : req'[q].at # c
        BY <1>1, <2>2, <2>5 DEF Unused
      <3>2. QED
        BY <2>4, <3>1, FreshIs DEF SlotSound, Unused
    <2>8. Whole(c)
      <3>1. CASE slot[c].queue = <<>>
        BY <1>2, <3>1 DEF Connect, Whole
      <3>2. CASE slot[c].queue # <<>>
        BY <1>1, <1>2, <3>2, EndIsWhole DEF Connect, Unused
      <3>3. QED
        BY <3>1, <3>2
    <2>9. QED
      BY <1>1, <1>2, <2>2, <2>3, <2>4, <2>5, <2>6, <2>7, <2>8, StepSound
  <1>3. CASE req[r].pc = "asking"
    <2> DEFINE s == Sent(r, "configure", 0)
    <2>1. /\ slot' = [slot EXCEPT ![c].state = "used", ![c].queue = Append(@, s)]
          /\ req' = [req EXCEPT ![r].pc = "configure", ![r].at = c] /\ durable' = durable
      BY <1>3 DEF Connect
    <2>2. req'[r] = [req[r] EXCEPT !.pc = "configure", !.at = c] /\ \A q \in Requests \ {r} : req'[q] = req[q]
      BY <1>1, <2>1
    <2>3. req' \in [Requests -> Call]
      BY <1>1, <2>1 DEF Call, StatementKinds
    <2>4. s \in Statements /\ Append(slot[c].queue, s) \in Seq(Statements)
      BY <1>1, StatementSent, AppendProperties DEF StatementKinds, SlotRow
    <2> HIDE DEF s
    <2>5. /\ slot'[c].state = "used" /\ slot'[c].queue = Append(slot[c].queue, s)
          /\ slot'[c].open = slot[c].open /\ slot'[c].writes = slot[c].writes
          /\ slot' \in [Slots -> SlotRow] /\ \A d \in Slots \ {c} : slot'[d] = slot[d]
      BY <1>1, <2>1, <2>4 DEF SlotRow
    <2>6. req'[r].at = c /\ req'[r].pc = "configure" /\ req'[r].told = "none" /\ CallShape(r)'
      BY <1>1, <1>3, <2>2 DEF CallSound, CallShape, Call, StatementKinds
    <2>7. \A q \in Requests : CallShape(q)'
      BY <2>2, <2>6 DEF TInv, CallSound, CallShape
    <2>8. \A o \in Requests : LeftBy(o) => LeftBy(o)'
      BY <1>3, <2>2 DEF LeftBy
    <2>9. Sets(c, r)'
      <3>1. CASE slot[c].queue = <<>> /\ ~slot[c].open /\ slot[c].writes = {}
        BY <2>4, <2>5, <2>6, <3>1, Queues DEF Sets, s
      <3>2. ASSUME NEW o \in Requests, LeftBy(o), slot[c].queue = <<Sent(o, "rollback", 0)>>
            PROVE  Sets(c, r)'
        <4> DEFINE left == Sent(o, "rollback", 0)
        <4>1. left \in Statements
          BY StatementSent DEF StatementKinds
        <4> HIDE DEF left
        <4>2. Append(<<left>>, s) = <<left, s>>
          BY <2>4, <4>1, Queues
        <4>3. slot'[c].queue = <<left, s>>
          BY <2>5, <3>2, <4>2 DEF left
        <4>4. QED
          BY <2>6, <2>8, <3>2, <4>3 DEF Sets, s, left
      <3>3. QED
        BY <1>1, <3>1, <3>2 DEF Unused
    <2>10. UsedBy(c, r)'
      BY <1>1, <2>2, <2>5, <2>6, <2>9 DEF UsedBy, Unused
    <2>11. Whole(c)
      BY <2>1 DEF Whole
    <2>12. QED
      BY <1>1, <1>3, <2>2, <2>3, <2>5, <2>6, <2>7, <2>10, <2>11, StepSound DEF SlotSound
  <1>4. QED
    BY <1>2, <1>3 DEF Connect

\* A connection that is left or given up with its request.
LEMMA UserLeaves ==
  ASSUME OwnedAssumption, TInv, NEW r \in Requests, NEW c \in Slots, req[r].at = c,
         req' \in [Requests -> Call], slot' \in [Slots -> SlotRow],
         \A d \in Slots \ {c} : slot'[d] = slot[d], \A q \in Requests \ {r} : req'[q] = req[q],
         req'[r].pc = "ended", req'[r].at = NoSlot, req'[r].told = "ok" => AllWorks(r) \subseteq durable',
         req[r].pc = "undone" => req'[r].told = "aborted",
         slot'[c].state # "used", Whole(c),
         \/ slot'[c].queue = <<>> /\ ~slot'[c].open /\ slot'[c].writes = {}
         \/ slot'[c].state = "idle" /\ slot'[c].queue = <<Sent(r, "rollback", 0)>>
  PROVE  TInv'
  <1>1. UsedBy(c, r) /\ NoSlot \notin Slots /\ CallSound(r) /\ req[r].pc # "ended"
    BY UserIs DEF OwnedAssumption, TInv, CallSound, CallShape, StatementKinds
  <1>2. \A q \in Requests : req'[q].at # c
    BY <1>1 DEF UsedBy
  <1>3. LeftBy(r)'
    BY DEF LeftBy
  <1>4. Unused(c)'
    BY <1>2, <1>3 DEF Unused
  <1>5. \A q \in Requests : CallShape(q)'
    BY <1>1 DEF TInv, CallSound, CallShape, StatementKinds
  <1>6. QED
    BY <1>1, <1>4, <1>5, StepSound DEF SlotSound

\* The grace of a rollback ends, or the wait for a request.
LEMMA LeaveKeeps ==
  ASSUME OwnedAssumption, TInv, NEW r \in Requests, GraceOver(r) \/ Abort(r)
  PROVE  TInv'
  <1> DEFINE c == req[r].at
  <1>1. /\ req[r] \in Call /\ CallSound(r) /\ req \in [Requests -> Call] /\ slot \in [Slots -> SlotRow]
        /\ NoSlot \notin Slots
    BY DEF TInv, OwnedAssumption
  <1>2. CASE GraceOver(r)
    <2>1. c \in Slots /\ UsedBy(c, r) /\ req[r].pc = "rollback"
      BY <1>1, <1>2, UserIs DEF GraceOver, CallSound, CallShape, StatementKinds
    <2>2. slot[c] \in SlotRow /\ slot[c].queue = <<Sent(r, "rollback", 0)>>
      BY <1>1, <2>1 DEF UsedBy, Sets, Begins, Writing, Committing, RollsBack, Overruns
    <2>3. slot' = [slot EXCEPT ![c] = [slot[c] EXCEPT !.state = "idle"]]
      BY <1>2 DEF GraceOver
    <2>4. /\ req'[r] = Released(r, "failed") /\ req' \in [Requests -> Call]
          /\ \A q \in Requests \ {r} : req'[q] = req[q]
      BY <1>1, <1>2 DEF GraceOver, Call, Released, Answers
    <2>5. req'[r].pc = "ended" /\ req'[r].at = NoSlot /\ req'[r].told = "failed"
      BY <1>1, <2>4 DEF Released, Call
    <2> HIDE DEF c
    <2>6. /\ slot'[c].state = "idle" /\ slot'[c].queue = <<Sent(r, "rollback", 0)>>
          /\ slot' \in [Slots -> SlotRow] /\ \A d \in Slots \ {c} : slot'[d] = slot[d]
      BY <1>1, <2>1, <2>2, <2>3 DEF SlotRow
    <2>7. Whole(c)
      BY <1>2 DEF GraceOver, Whole
    <2>8. QED
      BY <2>1, <2>4, <2>5, <2>6, <2>7, UserLeaves DEF c
  <1>3. CASE Abort(r) /\ req[r].pc = "asking"
    <2>1. req'[r] = [req[r] EXCEPT !.pc = "late", !.told = "aborted"] /\ UNCHANGED <<slot, durable>>
          /\ \A q \in Requests \ {r} : req'[q] = req[q]
      BY <1>1, <1>3 DEF Abort
    <2>2. req' \in [Requests -> Call]
      BY <1>1, <1>3 DEF Abort, Call, Answers
    <2>3. req[r].at = NoSlot /\ req'[r].at = NoSlot /\ CallShape(r)' /\ req'[r].told = "aborted"
      BY <1>1, <1>3, <2>1 DEF CallSound, CallShape, Call, StatementKinds
    <2>4. \A q \in Requests : CallShape(q)'
      <3>1. ASSUME NEW q \in Requests \ {r} PROVE CallShape(q)'
        BY <2>1 DEF TInv, CallSound, CallShape
      <3>2. QED
        BY <2>3, <3>1
    <2>5. Whole(NoSlot)
      BY <2>1 DEF Whole
    <2>6. QED
      BY <1>1, <1>3, <2>1, <2>2, <2>3, <2>4, <2>5, StepSound
  <1>4. CASE Abort(r) /\ req[r].pc # "asking"
    <2>1. c \in Slots /\ UsedBy(c, r)
      BY <1>1, <1>4, UserIs DEF Abort, CallSound, CallShape, StatementKinds, Call
    <2>2. /\ req'[r] = [req[r] EXCEPT !.pc = "ended", !.at = NoSlot, !.told = "aborted"]
          /\ \A q \in Requests \ {r} : req'[q] = req[q]
          /\ slot' = [slot EXCEPT ![c] = Fresh] /\ SessionEnds(c)
      BY <1>1, <1>4 DEF Abort, Abandon
    <2>3. req' \in [Requests -> Call]
      BY <1>1, <1>4 DEF Abort, Call, Answers
    <2>4. req'[r].pc = "ended" /\ req'[r].at = NoSlot /\ req'[r].told = "aborted"
      BY <1>1, <2>2 DEF Call
    <2>5. slot' \in [Slots -> SlotRow] /\ slot'[c] = Fresh /\ \A d \in Slots \ {c} : slot'[d] = slot[d]
      BY <1>1, <2>1, <2>2, FreshIs
    <2>6. \A w \in Requests : req[w].at = c => w = r
      BY <2>1 DEF UsedBy
    <2> HIDE DEF c
    <2>7. Whole(c)
      BY <2>1, <2>2, <2>4, <2>6, EndIsWhole
    <2>8. QED
      BY <2>1, <2>2, <2>3, <2>4, <2>5, <2>7, UserLeaves, FreshIs DEF c
  <1>5. QED
    BY <1>2, <1>3, <1>4

\* The deadline of a transaction passes before that of its connection.
LEMMA InsideKeeps ==
  ASSUME OwnedAssumption, TInv, NEW r \in Requests, DeadlineInside(r)
  PROVE  TInv'
  <1> DEFINE b == Sent(r, "rollback", 0)
  <1>0. PICK c \in Slots : c = req[r].at
    BY DEF TInv, DeadlineInside, CallSound, CallShape, StatementKinds
  <1>1. /\ req[r] \in Call /\ CallSound(r) /\ req \in [Requests -> Call] /\ slot \in [Slots -> SlotRow]
        /\ NoSlot \notin Slots /\ c \in Slots /\ UsedBy(c, r) /\ req[r].pc \in {"work", "commit"}
        /\ slot[c] \in SlotRow
    BY <1>0, UserIs DEF TInv, OwnedAssumption, DeadlineInside, CallSound, CallShape, StatementKinds
  <1>2. b \in Statements /\ Append(slot[c].queue, b) \in Seq(Statements)
    BY <1>1, StatementSent, AppendProperties DEF StatementKinds, SlotRow
  <1>3. /\ slot' = [slot EXCEPT ![c].queue = Append(@, b)] /\ durable' = durable
        /\ req' = [req EXCEPT ![r].pc = "undone", ![r].early = TRUE]
    BY <1>0 DEF DeadlineInside
  <1>4. /\ req'[r] = [req[r] EXCEPT !.pc = "undone", !.early = TRUE]
        /\ \A q \in Requests \ {r} : req'[q] = req[q]
    BY <1>1, <1>3
  <1>5. req' \in [Requests -> Call]
    BY <1>1, <1>3 DEF Call
  <1>6. req'[r].pc = "undone" /\ req'[r].early /\ req'[r].at = c /\ req'[r].runs = req[r].runs
        /\ req'[r].told = req[r].told
    BY <1>0, <1>1, <1>4 DEF Call
  <1> HIDE DEF b
  <1>7. /\ slot'[c].state = slot[c].state /\ slot'[c].queue = Append(slot[c].queue, b)
        /\ slot'[c].open = slot[c].open /\ slot'[c].writes = slot[c].writes
        /\ slot' \in [Slots -> SlotRow] /\ \A d \in Slots \ {c} : slot'[d] = slot[d]
    BY <1>1, <1>2, <1>3 DEF SlotRow
  <1>8. ASSUME Writing(c, r) PROVE Overruns(c, r)'
    <2>1. PICK n \in 1..Works : slot[c].queue = <<Sent(r, "work", n)>>
      BY <1>8 DEF Writing
    <2> DEFINE w == Sent(r, "work", n)
    <2>2. w \in Statements
      BY StatementSent DEF StatementKinds, OwnedAssumption
    <2> HIDE DEF w
    <2>3. Append(<<w>>, b) = <<w, b>>
      BY <1>2, <2>2, Queues
    <2>4. slot'[c].queue = <<Sent(r, "work", n), b>>
      BY <1>7, <2>1, <2>3 DEF w
    <2>5. QED
      BY <1>6, <1>7, <1>8, <2>4 DEF Writing, WritesOn, Overruns, b
  <1>9. ASSUME Committing(c, r) PROVE Overruns(c, r)'
    <2> DEFINE w == Sent(r, "commit", 0)
    <2>1. w \in Statements
      BY StatementSent DEF StatementKinds
    <2> HIDE DEF w
    <2>2. Append(<<w>>, b) = <<w, b>>
      BY <1>2, <2>1, Queues
    <2>3. slot'[c].queue = <<Sent(r, "commit", 0), b>>
      BY <1>7, <1>9, <2>2 DEF Committing, w
    <2>4. QED
      BY <1>6, <1>7, <1>9, <2>3 DEF Committing, CommitsFirst, Overruns, b
  <1>10. Overruns(c, r)'
    BY <1>1, <1>8, <1>9 DEF UsedBy, Sets, Begins, RollsBack, Overruns
  <1>11. UsedBy(c, r)' /\ Whole(c)
    BY <1>1, <1>3, <1>4, <1>6, <1>7, <1>10 DEF UsedBy, Whole
  <1>12. CallShape(r)' /\ req'[r].told = "none"
    BY <1>0, <1>1, <1>6 DEF CallSound, CallShape, StatementKinds
  <1>13. \A q \in Requests : CallShape(q)'
    BY <1>4, <1>12 DEF TInv, CallSound, CallShape
  <1>14. QED
    BY <1>0, <1>1, <1>4, <1>5, <1>6, <1>7, <1>11, <1>12, <1>13, StepSound DEF SlotSound

\* The ROLLBACK of a transaction that was given up is answered.
LEMMA UndoKeeps ==
  ASSUME OwnedAssumption, TInv, NEW r \in Requests, Undo(r)
  PROVE  TInv'
  <1> DEFINE c == req[r].at
  <1>1. /\ req[r] \in Call /\ CallSound(r) /\ req \in [Requests -> Call] /\ slot \in [Slots -> SlotRow]
        /\ NoSlot \notin Slots /\ c \in Slots /\ UsedBy(c, r) /\ req[r].pc = "undone"
    BY UserIs DEF TInv, OwnedAssumption, Undo, CallSound, CallShape
  <1>2. Overruns(c, r) /\ Head(slot[c].queue).kind = "rollback" /\ Works \in Nat
    BY <1>1 DEF UsedBy, Sets, Begins, Writing, Committing, RollsBack, Undo, Undone, OwnedAssumption
  <1>3. req' = [req EXCEPT ![r] = Released(r, "aborted")] /\ slot' = [slot EXCEPT ![c] = Fresh]
    BY DEF Undo
  <1>4. /\ req' \in [Requests -> Call] /\ \A q \in Requests \ {r} : req'[q] = req[q]
        /\ req'[r].pc = "ended" /\ req'[r].at = NoSlot /\ req'[r].told = "aborted"
        /\ req'[r].early = req[r].early
    <2>1. req'[r] = [req[r] EXCEPT !.pc = "ended", !.at = NoSlot, !.runs = FALSE, !.told = "aborted"]
          /\ \A q \in Requests \ {r} : req'[q] = req[q]
      BY <1>1, <1>3 DEF Released
    <2>2. /\ req'[r] \in Call /\ req'[r].pc = "ended" /\ req'[r].at = NoSlot /\ req'[r].told = "aborted"
          /\ req'[r].early = req[r].early
      BY <1>1, <2>1 DEF Call, Answers
    <2>3. QED
      BY <1>1, <1>3, <2>1, <2>2
  <1>5. slot' \in [Slots -> SlotRow] /\ slot'[c] = Fresh /\ \A d \in Slots \ {c} : slot'[d] = slot[d]
    BY <1>1, <1>3, FreshIs
  <1>6. \/ durable' = durable
        \/ Tail(slot[c].queue) # <<>> /\ durable' = durable \cup {<<r, Head(Tail(slot[c].queue)).work>>}
    BY DEF Undo
  <1>7. req[r].at = c
    OBVIOUS
  <1> HIDE DEF c
  <1>8. Whole(c)
    <2>1. CASE durable' = durable
      BY <2>1 DEF Whole
    <2>2. CASE durable' # durable
      <3>1. Tail(slot[c].queue) # <<>> /\ durable' = durable \cup {<<r, Head(Tail(slot[c].queue)).work>>}
        BY <1>6, <2>2
      <3>2. \A n \in 1..Works : n \in Nat
        BY <1>2
      <3>3. Sent(r, "rollback", 0) \in Statements /\ Sent(r, "commit", 0) \in Statements
            /\ \A n \in 1..Works : Sent(r, "work", n) \in Statements
        BY <3>2, StatementSent DEF StatementKinds
      <3>4. WritesAfter(c, r)
        <4>1. ~WritesOn(c, r)
          <5> SUFFICES ASSUME NEW n \in 1..Works,
                              slot[c].queue = <<Sent(r, "work", n), Sent(r, "rollback", 0)>>
                       PROVE  FALSE
            BY DEF WritesOn
          <5>1. Head(slot[c].queue) = Sent(r, "work", n)
            BY <3>3, Queues
          <5>2. QED
            BY <1>2, <3>2, <5>1, StatementSent DEF StatementKinds
        <4>2. ~CommitsFirst(c, r)
          <5> SUFFICES ASSUME slot[c].queue = <<Sent(r, "commit", 0), Sent(r, "rollback", 0)>>
                       PROVE  FALSE
            BY DEF CommitsFirst
          <5>1. Head(slot[c].queue) = Sent(r, "commit", 0)
            BY <3>3, Queues
          <5>2. QED
            BY <1>2, <5>1, StatementSent DEF StatementKinds
        <4>3. slot[c].queue # <<Sent(r, "rollback", 0)>>
          BY <3>1, <3>3, Queues
        <4>4. QED
          BY <1>2, <4>1, <4>2, <4>3 DEF Overruns
      <3>5. PICK n \in 2..Works : slot[c].queue = <<Sent(r, "rollback", 0), Sent(r, "work", n)>>
        BY <3>4 DEF WritesAfter
      <3>6. n \in 1..Works /\ n \in Nat
        BY <1>2
      <3>7. Tail(slot[c].queue) = <<Sent(r, "work", n)>> /\ Head(<<Sent(r, "work", n)>>) = Sent(r, "work", n)
        BY <3>3, <3>5, <3>6, Queues
      <3>8. Sent(r, "work", n).work = n
        BY <3>6, StatementSent DEF StatementKinds
      <3>9. durable' = durable \cup {<<r, n>>}
        BY <3>1, <3>7, <3>8
      <3>10. Nothing(r) /\ req[r].early
        BY <1>1, <1>2, <3>4 DEF CallSound, WritesAfter, Overruns
      <3>11. StrayBy(c, r)
        BY <1>4, <1>7, <3>9, <3>10 DEF StrayBy
      <3>12. QED
        BY <3>11 DEF Whole
    <2>3. QED
      BY <2>1, <2>2
  <1>9. QED
    BY <1>1, <1>4, <1>5, <1>7, <1>8, UserLeaves, FreshIs

\* A connection is lost.
LEMMA LoseKeeps ==
  ASSUME OwnedAssumption, TInv, NEW c \in Slots, Lose(c)
  PROVE  TInv'
  <1>1. req \in [Requests -> Call] /\ slot \in [Slots -> SlotRow] /\ NoSlot \notin Slots
    BY DEF TInv, OwnedAssumption
  <1>2. slot' \in [Slots -> SlotRow] /\ slot'[c] = Fresh /\ \A d \in Slots \ {c} : slot'[d] = slot[d]
    BY <1>1, FreshIs DEF Lose
  <1>3. /\ req' \in [Requests -> Call]
        /\ \A r \in Requests : IF req[r].at = c
             THEN req'[r].pc = "ended" /\ req'[r].at = NoSlot /\ req'[r].told = LostAs(req[r].pc)
             ELSE req'[r] = req[r]
    <2>1. \A r \in Requests : req[r] \in Call /\ req'[r] =
            IF req[r].at = c
            THEN [req[r] EXCEPT !.pc = "ended", !.at = NoSlot, !.runs = FALSE,
                                !.told = LostAs(req[r].pc)]
            ELSE req[r]
      BY <1>1 DEF Lose, Released
    <2>2. ASSUME NEW r \in Requests, req[r].at = c
          PROVE  /\ req'[r] \in Call /\ req'[r].pc = "ended" /\ req'[r].at = NoSlot
                 /\ req'[r].told = LostAs(req[r].pc)
      <3> DEFINE told == LostAs(req[r].pc)
      <3>1. told \in Answers
        BY DEF Answers, LostAs
      <3> HIDE DEF told
      <3>2. req[r] \in Call /\ req'[r] =
              [req[r] EXCEPT !.pc = "ended", !.at = NoSlot, !.runs = FALSE, !.told = told]
        BY <2>1, <2>2 DEF told
      <3>3. /\ req'[r] \in Call /\ req'[r].pc = "ended" /\ req'[r].at = NoSlot /\ req'[r].told = told
        BY <3>1, <3>2 DEF Call
      <3>4. QED
        BY <3>3 DEF told
    <2>3. \A r \in Requests : req'[r] \in Call
      BY <2>1, <2>2
    <2>4. req' \in [Requests -> Call]
      BY <2>3 DEF Lose
    <2>5. QED
      BY <2>1, <2>2, <2>4
  <1>4. Whole(c)
    BY <1>3, EndIsWhole DEF Lose, LostAs
  <1>5. Unused(c)'
    BY <1>1, <1>2, <1>3, FreshIs DEF Unused
  <1>6. \A r \in Requests : req[r].at = c => req[r].pc # "ended"
    BY DEF TInv, CallSound, CallShape, StatementKinds
  <1>7. \A r \in Requests : CallShape(r)'
    BY <1>1, <1>3 DEF TInv, CallSound, CallShape, StatementKinds
  <1>8. \A r \in Requests : req'[r].told = "ok" => req'[r] = req[r]
    BY <1>3 DEF LostAs
  <1>9. \A r \in Requests : req'[r] # req[r] /\ req[r].pc = "undone" =>
          req'[r].pc = "ended" /\ req'[r].told = "aborted"
    BY <1>3 DEF LostAs
  <1>10. QED
    BY <1>1, <1>2, <1>3, <1>4, <1>5, <1>6, <1>7, <1>8, <1>9, StepSound DEF SlotSound

\* The statements that follow an answer.
LEMMA NextStatements ==
  ASSUME OwnedAssumption, NEW s \in Statements, NEW n \in AfterAnswer(s),
         s.kind \in {"configure", "begin", "work"}
  PROVE  /\ n \in Statements /\ n.by = s.by /\ n.kind \in {"begin", "work", "rollback", "commit"}
         /\ s.kind = "configure" => n = Sent(s.by, "begin", 0)
         /\ s.kind = "begin" => n = Sent(s.by, "work", 1)
         /\ s.kind = "work" => \/ n = Sent(s.by, "rollback", 0)
                               \/ s.work < Works /\ n = Sent(s.by, "work", s.work + 1)
                               \/ ~(s.work < Works) /\ n = Sent(s.by, "commit", 0)
  <1>1. s.by \in Requests /\ s.work \in Nat /\ s.work + 1 \in Nat /\ Works \in Nat
    BY DEF Statements, OwnedAssumption
  <1>2. CASE s.kind = "configure"
    BY <1>1, <1>2, StatementSent DEF AfterAnswer, StatementKinds
  <1>3. CASE s.kind = "begin"
    BY <1>1, <1>3, StatementSent DEF AfterAnswer, StatementKinds
  <1>4. CASE s.kind = "work"
    <2>1. \/ n = Sent(s.by, "rollback", 0)
          \/ s.work < Works /\ n = Sent(s.by, "work", s.work + 1)
          \/ ~(s.work < Works) /\ n = Sent(s.by, "commit", 0)
      BY <1>4 DEF AfterAnswer
    <2>2. QED
      BY <1>1, <1>4, <2>1, StatementSent DEF StatementKinds
  <1>5. QED
    BY <1>2, <1>3, <1>4

\* What the answer to the statement s leaves of the connection, in its queue q.
AnswerLeaves(c, s, state, q) ==
  /\ slot' \in [Slots -> SlotRow] /\ \A d \in Slots \ {c} : slot'[d] = slot[d]
  /\ slot'[c].state = state /\ slot'[c].queue = q
  /\ slot'[c].open = Executed(c, s).open /\ slot'[c].writes = Executed(c, s).writes
  /\ durable' = durable \cup Commits(c, s)

Waits(c, s) == req[s.by].at = c /\ req[s.by].pc = s.kind

\* The three ways in which an answer is taken.
GoesOn(c, s, q) ==
  /\ Waits(c, s) /\ s.kind \in {"configure", "begin", "work"}
  /\ \E n \in AfterAnswer(s) :
       /\ AnswerLeaves(c, s, slot[c].state, Append(q, n))
       /\ req' = [req EXCEPT ![s.by].pc = n.kind, ![s.by].runs = n.kind = "work"]
Ends(c, s, q) ==
  /\ Waits(c, s) /\ s.kind \in {"commit", "rollback"}
  /\ AnswerLeaves(c, s, "idle", q)
  /\ req' = [req EXCEPT ![s.by] = Released(s.by, IF s.kind = "commit" THEN "ok" ELSE "failed")]
Unheard(c, s, q) == AnswerLeaves(c, s, slot[c].state, q \o OnItsOwn(s)) /\ UNCHANGED req

\* What an operation sends after a caller that has gone.
LEMMA OwnIs ==
  ASSUME OwnedAssumption, NEW s \in Statements
  PROVE  /\ OnItsOwn(s) \in Seq(Statements)
         /\ s.kind # "work" => OnItsOwn(s) = <<>>
         /\ \/ OnItsOwn(s) = <<>>
            \/ /\ req[s.by].runs /\ s.work + 1 \in Nat /\ s.work < Works
               /\ OnItsOwn(s) = <<Sent(s.by, "work", s.work + 1)>>
  <1>1. s.by \in Requests /\ s.work + 1 \in Nat
    BY DEF Statements
  <1>2. Sent(s.by, "work", s.work + 1) \in Statements
    BY <1>1, StatementSent DEF StatementKinds
  <1>3. QED
    BY <1>1, <1>2, Queues DEF OnItsOwn

LEMMA AnswerIs ==
  ASSUME OwnedAssumption, TInv, NEW c \in Slots, Answer(c),
         NEW s \in Statements, NEW q \in Seq(Statements),
         s = Head(slot[c].queue), q = Tail(slot[c].queue)
  PROVE  slot[c].queue # <<>> /\ (GoesOn(c, s, q) \/ Ends(c, s, q) \/ (~Waits(c, s) /\ Unheard(c, s, q)))
  <1> DEFINE row == Executed(c, s)
             rest == [row EXCEPT !.queue = Tail(@)]
  <1>1. row \in SlotRow /\ row.state = slot[c].state /\ row.queue = slot[c].queue
    BY ExecutedIs
  <1>2. slot \in [Slots -> SlotRow] /\ slot[c] \in SlotRow
    BY DEF TInv
  <1> HIDE DEF row
  <1>3. /\ rest \in SlotRow /\ rest.queue = q /\ rest.state = row.state
        /\ rest.open = row.open /\ rest.writes = row.writes
    BY <1>1 DEF SlotRow
  <1> HIDE DEF rest
  <1>4. ASSUME NEW p \in Seq(Statements), NEW state \in {"closed", "idle", "used"}, NEW full,
               full \in SlotRow, full.state = state, full.queue = p, full.open = rest.open,
               full.writes = rest.writes, slot' = [slot EXCEPT ![c] = full],
               durable' = durable \cup Commits(c, s)
        PROVE  AnswerLeaves(c, s, state, p)
    BY <1>2, <1>3, <1>4 DEF AnswerLeaves, row
  <1>5. ASSUME NEW p \in Seq(Statements)
        PROVE  LET full == [rest EXCEPT !.queue = p] IN
               full \in SlotRow /\ full.state = slot[c].state /\ full.queue = p
               /\ full.open = rest.open /\ full.writes = rest.writes
    BY <1>1, <1>3 DEF SlotRow
  <1>6. LET full == [rest EXCEPT !.state = "idle"] IN
               full \in SlotRow /\ full.state = "idle" /\ full.queue = q
               /\ full.open = rest.open /\ full.writes = rest.writes
    BY <1>3 DEF SlotRow
  <1>7. slot[c].queue # <<>> /\ durable' = durable \cup Commits(c, s)
    BY DEF Answer
  <1>8. CASE /\ Waits(c, s) /\ s.kind \in {"configure", "begin", "work"}
             /\ \E n \in AfterAnswer(s) :
                  /\ slot' = [slot EXCEPT ![c] = [rest EXCEPT !.queue = Append(@, n)]]
                  /\ req' = [req EXCEPT ![s.by].pc = n.kind, ![s.by].runs = n.kind = "work"]
    <2>1. PICK n \in AfterAnswer(s) :
            /\ slot' = [slot EXCEPT ![c] = [rest EXCEPT !.queue = Append(@, n)]]
            /\ req' = [req EXCEPT ![s.by].pc = n.kind, ![s.by].runs = n.kind = "work"]
      BY <1>8
    <2>2. n \in Statements
      BY <1>8, NextStatements
    <2>3. Append(q, n) \in Seq(Statements)
      BY <2>2, AppendProperties
    <2>4. slot' = [slot EXCEPT ![c] = [rest EXCEPT !.queue = Append(q, n)]]
      BY <1>3, <2>1
    <2>5. AnswerLeaves(c, s, slot[c].state, Append(q, n))
      <3> DEFINE full == [rest EXCEPT !.queue = Append(q, n)]
      <3>1. full \in SlotRow /\ full.state = slot[c].state /\ full.queue = Append(q, n)
            /\ full.open = rest.open /\ full.writes = rest.writes
        BY <1>5, <2>3
      <3>2. slot' = [slot EXCEPT ![c] = full] /\ slot[c].state \in {"closed", "idle", "used"}
        BY <1>2, <2>4 DEF SlotRow
      <3> HIDE DEF full
      <3>3. QED
        BY <1>4, <1>7, <2>3, <3>1, <3>2
    <2>6. QED
      BY <1>7, <1>8, <2>1, <2>5 DEF GoesOn
  <1>9. CASE /\ Waits(c, s) /\ s.kind \in {"commit", "rollback"}
             /\ slot' = [slot EXCEPT ![c] = [rest EXCEPT !.state = "idle"]]
             /\ req' = [req EXCEPT ![s.by] = Released(s.by, IF s.kind = "commit" THEN "ok" ELSE "failed")]
    <2>1. AnswerLeaves(c, s, "idle", q)
      BY <1>4, <1>6, <1>7, <1>9
    <2>2. QED
      BY <1>7, <1>9, <2>1 DEF Ends
  <1>10. CASE /\ ~Waits(c, s) /\ UNCHANGED req
              /\ slot' = [slot EXCEPT ![c] = [rest EXCEPT !.queue = @ \o OnItsOwn(s)]]
    <2> DEFINE p == q \o OnItsOwn(s)
    <2>1. p \in Seq(Statements)
      BY OwnIs, ConcatProperties
    <2>2. rest.queue \o OnItsOwn(s) = p
      BY <1>3
    <2> HIDE DEF p
    <2>3. slot' = [slot EXCEPT ![c] = [rest EXCEPT !.queue = p]]
      BY <1>10, <2>2
    <2> DEFINE full == [rest EXCEPT !.queue = p]
    <2>4. full \in SlotRow /\ full.state = slot[c].state /\ full.queue = p
          /\ full.open = rest.open /\ full.writes = rest.writes
      BY <1>5, <2>1
    <2>5. slot' = [slot EXCEPT ![c] = full] /\ slot[c].state \in {"closed", "idle", "used"}
      BY <1>2, <2>3 DEF SlotRow
    <2> HIDE DEF full
    <2>6. AnswerLeaves(c, s, slot[c].state, p)
      BY <1>4, <1>7, <2>1, <2>4, <2>5
    <2>7. QED
      BY <1>7, <1>10, <2>6 DEF Unheard, p
  <1>11. QED
    BY <1>8, <1>9, <1>10 DEF Answer, Waits, rest, row

\* A request that goes on to another statement keeps its connection.
LEMMA UserGoesOn ==
  ASSUME OwnedAssumption, TInv, NEW c \in Slots, NEW r \in Requests, req[r].at = c,
         NEW s \in Statements, s.by = r, Commits(c, s) = {}, req[r].pc # "undone",
         NEW n \in Statements, n.kind \in {"begin", "work", "rollback", "commit"},
         AnswerLeaves(c, s, "used", <<n>>),
         req' = [req EXCEPT ![r].pc = n.kind, ![r].runs = n.kind = "work"],
         req'[r].pc = n.kind => Begins(c, r)' \/ Writing(c, r)' \/ Committing(c, r)' \/ RollsBack(c, r)'
  PROVE  TInv'
  <1>1. UsedBy(c, r) /\ CallSound(r) /\ req[r] \in Call /\ req \in [Requests -> Call]
    BY UserIs DEF TInv
  <1>2. /\ req' \in [Requests -> Call] /\ \A q \in Requests \ {r} : req'[q] = req[q]
        /\ req'[r].at = c /\ req'[r].pc = n.kind /\ req'[r].told = req[r].told
    BY <1>1 DEF Call, StatementKinds
  <1>3. UsedBy(c, r)'
    BY <1>1, <1>2 DEF UsedBy, AnswerLeaves
  <1>4. CallShape(r)' /\ req[r].pc # "ended" /\ req'[r].told # "ok" /\ req[r].pc # "undone"
    BY <1>1, <1>2 DEF CallSound, CallShape, StatementKinds
  <1>5. \A q \in Requests : CallShape(q)'
    BY <1>2, <1>4 DEF TInv, CallSound, CallShape
  <1>6. Whole(c)
    BY DEF Whole, AnswerLeaves
  <1>7. QED
    BY <1>1, <1>2, <1>3, <1>4, <1>5, <1>6, StepSound DEF SlotSound, AnswerLeaves

\* The database answers.
LEMMA AnswerKeeps ==
  ASSUME OwnedAssumption, TInv, NEW c \in Slots, Answer(c)
  PROVE  TInv'
  <1> USE DEF StatementKinds
  <1>1. SlotSound(c) /\ slot[c] \in SlotRow /\ req \in [Requests -> Call] /\ Works \in Nat /\ Works >= 1
    BY DEF TInv, OwnedAssumption
  <1>2. slot[c].queue # <<>> /\ ~Undone(c, Head(slot[c].queue))
    BY DEF Answer
  \* A ROLLBACK that nobody waits for, alone on the connection.
  <1>3. ASSUME NEW o \in Requests, LeftBy(o), slot[c].queue = <<Sent(o, "rollback", 0)>>, Unused(c)
        PROVE  TInv'
    <2> DEFINE s == Sent(o, "rollback", 0)
    <2>1. s \in Statements /\ s.by = o /\ s.kind = "rollback"
      BY StatementSent
    <2> HIDE DEF s
    <2>2. s = Head(slot[c].queue) /\ Tail(slot[c].queue) = <<>> /\ <<>> \in Seq(Statements)
      BY <1>3, <2>1, Queues DEF s
    <2>3. ~Waits(c, s)
      BY <1>3, <2>1 DEF Waits, LeftBy
    <2>4. AnswerLeaves(c, s, slot[c].state, <<>>) /\ UNCHANGED req
      <3>1. Unheard(c, s, <<>>)
        BY <2>1, <2>2, <2>3, AnswerIs DEF GoesOn, Ends
      <3>2. OnItsOwn(s) = <<>> /\ <<>> \o <<>> = <<>>
        BY <2>1, OwnIs, Queues
      <3>3. QED
        BY <3>1, <3>2 DEF Unheard
    <2>5. Commits(c, s) = {}
      BY <2>1 DEF Commits
    <2>6. Unused(c)'
      BY <1>3, <2>1, <2>4, ExecutedIs DEF Unused, AnswerLeaves
    <2>7. Whole(c)
      BY <2>4, <2>5 DEF AnswerLeaves, Whole
    <2>8. \A q \in Requests : CallShape(q)'
      BY <2>4 DEF TInv, CallSound, CallShape
    <2>9. QED
      BY <1>1, <2>4, <2>6, <2>7, <2>8, StepSound DEF SlotSound, AnswerLeaves
  \* The same with another request behind it.
  <1>4. ASSUME NEW r \in Requests, UsedBy(c, r), NEW o \in Requests, LeftBy(o), req[r].pc = "configure",
               slot[c].queue = <<Sent(o, "rollback", 0), Sent(r, "configure", 0)>>
        PROVE  TInv'
    <2> DEFINE s == Sent(o, "rollback", 0)
               n == Sent(r, "configure", 0)
    <2>1. s \in Statements /\ s.by = o /\ s.kind = "rollback" /\ n \in Statements
      BY StatementSent
    <2> HIDE DEF s, n
    <2>2. s = Head(slot[c].queue) /\ Tail(slot[c].queue) = <<n>> /\ <<n>> \in Seq(Statements)
      BY <1>4, <2>1, Queues DEF s, n
    <2>3. ~Waits(c, s)
      BY <1>4, <2>1 DEF Waits, LeftBy
    <2>4. AnswerLeaves(c, s, slot[c].state, <<n>>) /\ UNCHANGED req
      <3>1. Unheard(c, s, <<n>>)
        BY <2>1, <2>2, <2>3, AnswerIs DEF GoesOn, Ends
      <3>2. OnItsOwn(s) = <<>> /\ <<n>> \o <<>> = <<n>>
        BY <2>1, <2>2, OwnIs, ConcatEmptySeq
      <3>3. QED
        BY <3>1, <3>2 DEF Unheard
    <2>5. Commits(c, s) = {}
      BY <2>1 DEF Commits
    <2>6. ~slot'[c].open /\ slot'[c].writes = {} /\ slot'[c].queue = <<n>> /\ slot'[c].state = "used"
      BY <1>4, <2>1, <2>4, ExecutedIs DEF UsedBy, AnswerLeaves
    <2>7. Sets(c, r)'
      BY <1>4, <2>4, <2>6 DEF Sets, n
    <2>8. UsedBy(c, r)'
      BY <1>4, <2>4, <2>6, <2>7 DEF UsedBy
    <2>9. Whole(c)
      BY <2>4, <2>5 DEF AnswerLeaves, Whole
    <2>10. \A q \in Requests : CallShape(q)'
      BY <2>4 DEF TInv, CallSound, CallShape
    <2>11. QED
      BY <1>1, <2>4, <2>8, <2>9, <2>10, StepSound DEF SlotSound, AnswerLeaves
  \* The statement of the request that uses the connection.
  <1>5. ASSUME NEW r \in Requests, UsedBy(c, r), NEW s \in Statements, s.by = r, s.kind = req[r].pc,
               slot[c].queue = <<s>>
        PROVE  GoesOn(c, s, <<>>) \/ Ends(c, s, <<>>)
    <2>1. s = Head(slot[c].queue) /\ Tail(slot[c].queue) = <<>> /\ <<>> \in Seq(Statements)
      BY <1>5, Queues
    <2>2. Waits(c, s)
      BY <1>5 DEF Waits, UsedBy
    <2>3. QED
      BY <2>1, <2>2, AnswerIs
  <1>6. ASSUME NEW r \in Requests, UsedBy(c, r), NEW s \in Statements, s.by = r, s.kind = req[r].pc,
                slot[c].queue = <<s>>, s.kind \in {"configure", "begin", "work"}
         PROVE  \E n \in AfterAnswer(s) :
                  /\ AnswerLeaves(c, s, "used", <<n>>)
                  /\ req' = [req EXCEPT ![r].pc = n.kind, ![r].runs = n.kind = "work"]
    <2>1. GoesOn(c, s, <<>>)
      BY <1>5, <1>6 DEF Ends
    <2>2. PICK n \in AfterAnswer(s) :
            /\ AnswerLeaves(c, s, slot[c].state, Append(<<>>, n))
            /\ req' = [req EXCEPT ![s.by].pc = n.kind, ![s.by].runs = n.kind = "work"]
      BY <2>1 DEF GoesOn
    <2>3. n \in Statements
      BY <1>6, NextStatements
    <2>4. Append(<<>>, n) = <<n>>
      BY <2>3, Queues
    <2>5. slot[c].state = "used"
      BY <1>6 DEF UsedBy
    <2>6. QED
      BY <1>6, <2>2, <2>4, <2>5
  <1>7. ASSUME NEW r \in Requests, UsedBy(c, r), NEW s \in Statements, s.by = r, s.kind = req[r].pc,
                slot[c].queue = <<s>>, s.kind \in {"commit", "rollback"}
         PROVE  /\ AnswerLeaves(c, s, "idle", <<>>)
                /\ req' = [req EXCEPT ![r] = Released(r, IF s.kind = "commit" THEN "ok" ELSE "failed")]
    <2>1. Ends(c, s, <<>>)
      BY <1>5, <1>7 DEF GoesOn
    <2>2. QED
      BY <1>7, <2>1 DEF Ends
  <1>8. ASSUME NEW r \in Requests, UsedBy(c, r), slot[c].queue = <<Sent(r, "configure", 0)>>,
               req[r].pc = "configure", ~slot[c].open, slot[c].writes = {}
        PROVE  TInv'
    <2> DEFINE s == Sent(r, "configure", 0)
    <2>1. s \in Statements /\ s.by = r /\ s.kind = "configure"
      BY StatementSent
    <2> HIDE DEF s
    <2>2. PICK n \in AfterAnswer(s) : /\ AnswerLeaves(c, s, "used", <<n>>)
                                      /\ req' = [req EXCEPT ![r].pc = n.kind, ![r].runs = n.kind = "work"]
      <3>1. s.kind = req[r].pc /\ s.kind \in {"configure", "begin", "work"} /\ slot[c].queue = <<s>>
        BY <1>8, <2>1 DEF s
      <3>2. QED
        BY <1>6, <1>8, <2>1, <3>1
    <2>3. n \in Statements /\ n = Sent(r, "begin", 0) /\ n.kind = "begin" /\ Commits(c, s) = {}
      BY <2>1, NextStatements, StatementSent DEF Commits
    <2>4. req'[r].pc = n.kind => Begins(c, r)'
      BY <1>8, <2>1, <2>2, <2>3, ExecutedIs DEF Begins, AnswerLeaves
    <2>5. QED
      BY <1>8, <2>1, <2>2, <2>3, <2>4, UserGoesOn DEF UsedBy
  <1>9. ASSUME NEW r \in Requests, UsedBy(c, r), Begins(c, r)
        PROVE  TInv'
    <2> DEFINE s == Sent(r, "begin", 0)
    <2>1. s \in Statements /\ s.by = r /\ s.kind = "begin" /\ req[r].pc = "begin" /\ slot[c].queue = <<s>>
          /\ slot[c].writes = {}
      BY <1>9, StatementSent DEF Begins
    <2> HIDE DEF s
    <2>2. PICK n \in AfterAnswer(s) : /\ AnswerLeaves(c, s, "used", <<n>>)
                                      /\ req' = [req EXCEPT ![r].pc = n.kind, ![r].runs = n.kind = "work"]
      <3>1. s.kind = req[r].pc /\ s.kind \in {"configure", "begin", "work"}
        BY <2>1
      <3>2. QED
        BY <1>6, <1>9, <2>1, <3>1
    <2>3. n \in Statements /\ n = Sent(r, "work", 1) /\ n.kind = "work" /\ Commits(c, s) = {}
      BY <2>1, NextStatements, StatementSent DEF Commits
    <2>4. slot'[c].open /\ slot'[c].writes = {} /\ slot'[c].queue = <<Sent(r, "work", 1)>>
      BY <2>1, <2>2, <2>3, ExecutedIs DEF AnswerLeaves
    <2>5. slot'[c].writes = {<<r, k>> : k \in 1..(1 - 1)}
      BY <2>4
    <2>9. req'[r].runs
      BY <1>1, <2>2, <2>3 DEF Call
    <2>6. req'[r].pc = n.kind => Writing(c, r)'
      BY <1>1, <2>2, <2>3, <2>4, <2>5, <2>9 DEF Writing
    <2>7. QED
      BY <1>9, <2>1, <2>2, <2>3, <2>6, UserGoesOn DEF UsedBy
  <1>10. ASSUME NEW r \in Requests, UsedBy(c, r), NEW m \in 1..Works, req[r].pc = "work", slot[c].open,
               slot[c].queue = <<Sent(r, "work", m)>>, slot[c].writes = {<<r, k>> : k \in 1..(m - 1)}
        PROVE  TInv'
    <2> DEFINE s == Sent(r, "work", m)
    <2>1. s \in Statements /\ s.by = r /\ s.kind = "work" /\ s.work = m /\ m \in Nat
      BY <1>1, StatementSent
    <2> HIDE DEF s
    <2>2. PICK n \in AfterAnswer(s) : /\ AnswerLeaves(c, s, "used", <<n>>)
                                      /\ req' = [req EXCEPT ![r].pc = n.kind, ![r].runs = n.kind = "work"]
      <3>1. s.kind = req[r].pc /\ s.kind \in {"configure", "begin", "work"} /\ slot[c].queue = <<s>>
        BY <1>10, <2>1 DEF s
      <3>2. QED
        BY <1>6, <1>10, <2>1, <3>1
    <2>3. n \in Statements /\ n.kind \in {"begin", "work", "rollback", "commit"} /\ Commits(c, s) = {}
      BY <1>10, <2>1, NextStatements DEF Commits
    <2>4. slot'[c].open /\ slot'[c].queue = <<n>> /\ slot'[c].writes = {<<r, k>> : k \in 1..m}
      <3>1. {<<r, k>> : k \in 1..(m - 1)} \cup {<<r, m>>} = {<<r, k>> : k \in 1..m}
        BY <2>1
      <3>2. QED
        BY <1>10, <2>1, <2>2, <3>1, ExecutedIs DEF AnswerLeaves
    <2>9. req'[r].runs = (n.kind = "work")
      BY <1>1, <2>2 DEF Call
    <2>5. ASSUME req'[r].pc = n.kind
          PROVE  Writing(c, r)' \/ Committing(c, r)' \/ RollsBack(c, r)'
      <3>1. CASE n = Sent(r, "rollback", 0)
        BY <2>4, <2>5, <3>1, StatementSent DEF RollsBack
      <3>2. CASE m < Works /\ n = Sent(r, "work", m + 1)
        <4>1. m + 1 \in 1..Works /\ (m + 1) - 1 = m /\ n.kind = "work"
          BY <1>1, <2>1, <3>2, StatementSent
        <4>2. QED
          BY <2>4, <2>5, <2>9, <3>2, <4>1 DEF Writing
      <3>3. CASE ~(m < Works) /\ n = Sent(r, "commit", 0)
        <4>1. m = Works /\ n.kind = "commit"
          BY <1>1, <2>1, <3>3, StatementSent
        <4>2. QED
          BY <2>4, <2>5, <2>9, <3>3, <4>1 DEF Committing, AllWorks
      <3>4. QED
        BY <2>1, <3>1, <3>2, <3>3, NextStatements
    <2>6. QED
      BY <1>10, <2>1, <2>2, <2>3, <2>5, UserGoesOn DEF UsedBy
  <1>11. ASSUME NEW r \in Requests, UsedBy(c, r), Committing(c, r) \/ RollsBack(c, r)
        PROVE  TInv'
    <2> DEFINE k == req[r].pc
               s == Sent(r, k, 0)
    <2>1. s \in Statements /\ s.by = r /\ s.kind = k /\ k \in {"commit", "rollback"} /\ slot[c].queue = <<s>>
      BY <1>11, StatementSent DEF Committing, RollsBack
    <2> HIDE DEF s, k
    <2>2. /\ AnswerLeaves(c, s, "idle", <<>>)
          /\ req' = [req EXCEPT ![r] = Released(r, IF k = "commit" THEN "ok" ELSE "failed")]
      BY <1>7, <1>11, <2>1 DEF k
    <2>3. /\ req' \in [Requests -> Call] /\ \A q \in Requests \ {r} : req'[q] = req[q]
          /\ req'[r].pc = "ended" /\ req'[r].at = NoSlot
          /\ req'[r].told = IF k = "commit" THEN "ok" ELSE "failed"
      <3>1. req[r] \in Call /\ req'[r] =
              [req[r] EXCEPT !.pc = "ended", !.at = NoSlot, !.runs = FALSE,
                             !.told = IF k = "commit" THEN "ok" ELSE "failed"]
            /\ \A q \in Requests \ {r} : req'[q] = req[q]
        BY <1>1, <2>2 DEF Released
      <3>2. /\ req'[r] \in Call /\ req'[r].pc = "ended" /\ req'[r].at = NoSlot
            /\ req'[r].told = IF k = "commit" THEN "ok" ELSE "failed"
        BY <3>1 DEF Call, Answers
      <3>3. req' \in [Requests -> Call]
        BY <1>1, <2>2, <3>2
      <3>4. QED
        BY <3>1, <3>2, <3>3
    <2>4. /\ slot'[c].queue = <<>> /\ ~slot'[c].open /\ slot'[c].writes = {} /\ slot'[c].state = "idle"
          /\ slot' \in [Slots -> SlotRow] /\ \A d \in Slots \ {c} : slot'[d] = slot[d]
      BY <2>1, <2>2, ExecutedIs DEF AnswerLeaves
    <2>5. k = "commit" => durable' = durable \cup AllWorks(r)
      BY <1>11, <2>1, <2>2 DEF AnswerLeaves, Commits, Committing, RollsBack, k
    <2>6. k = "rollback" => durable' = durable
      BY <2>1, <2>2 DEF AnswerLeaves, Commits
    <2>7. Whole(c)
      BY <1>11, <2>1, <2>3, <2>5, <2>6 DEF Whole, WholeBy, UsedBy, k
    <2>8. req'[r].told = "ok" => AllWorks(r) \subseteq durable'
      BY <2>1, <2>3, <2>5
    <2>9. QED
      BY <1>11, <2>1, <2>3, <2>4, <2>7, <2>8, UserLeaves DEF UsedBy, k
  \* What is on its way before the ROLLBACK of a transaction that was given up.
  <1>12. ASSUME NEW r \in Requests, UsedBy(c, r), Overruns(c, r), NEW s \in Statements,
                s.kind \in {"work", "commit"}, s.by = r, slot[c].open,
                slot[c].queue = <<s, Sent(r, "rollback", 0)>>
         PROVE  /\ AnswerLeaves(c, s, "used", <<Sent(r, "rollback", 0)>> \o OnItsOwn(s)) /\ req' = req
                /\ \A q \in Requests : CallShape(q)'
    <2> DEFINE b == Sent(r, "rollback", 0)
    <2>1. b \in Statements
      BY StatementSent
    <2> HIDE DEF b
    <2>2. s = Head(slot[c].queue) /\ Tail(slot[c].queue) = <<b>> /\ <<b>> \in Seq(Statements)
      BY <1>12, <2>1, Queues DEF b
    <2>3. ~Waits(c, s) /\ slot[c].state = "used"
      BY <1>12 DEF Waits, Overruns, UsedBy
    <2>4. Unheard(c, s, <<b>>)
      BY <2>2, <2>3, AnswerIs DEF GoesOn, Ends
    <2>5. req' = req
      BY <2>4 DEF Unheard
    <2>6. QED
      BY <2>3, <2>4, <2>5 DEF Unheard, b, TInv, CallSound, CallShape
  <1>13. ASSUME NEW r \in Requests, UsedBy(c, r), Overruns(c, r), WritesOn(c, r)
         PROVE  TInv'
    <2>1. PICK n \in 1..Works : slot[c].queue = <<Sent(r, "work", n), Sent(r, "rollback", 0)>>
      BY <1>13 DEF WritesOn
    <2> DEFINE s == Sent(r, "work", n)
               b == Sent(r, "rollback", 0)
    <2>2. s \in Statements /\ s.kind = "work" /\ s.by = r /\ s.work = n /\ b \in Statements /\ n \in Nat
      BY <1>1, StatementSent
    <2>3. slot[c].open /\ slot[c].queue = <<s, b>> /\ req[r].runs
      BY <1>13, <2>1 DEF WritesOn
    <2> HIDE DEF s
    <2>4. AnswerLeaves(c, s, "used", <<b>> \o OnItsOwn(s)) /\ req' = req /\ \A q \in Requests : CallShape(q)'
      BY <1>12, <1>13, <2>2, <2>3
    <2>5. Commits(c, s) = {} /\ Executed(c, s).open
      BY <2>2, <2>3, ExecutedIs DEF Commits
    <2>6. Overruns(c, r)'
      <3>1. CASE OnItsOwn(s) = <<>>
        <4>1. <<b>> \o OnItsOwn(s) = <<b>>
          BY <2>2, <3>1, Queues, ConcatEmptySeq
        <4>2. slot'[c].queue = <<b>>
          BY <2>4, <4>1 DEF AnswerLeaves
        <4>3. QED
          BY <1>13, <2>4, <4>2 DEF Overruns
      <3>2. CASE OnItsOwn(s) = <<Sent(r, "work", n + 1)>> /\ n < Works
        <4>1. n + 1 \in 2..Works /\ Sent(r, "work", n + 1) \in Statements
          BY <1>1, <2>2, <3>2, StatementSent
        <4>2. slot'[c].queue = <<b, Sent(r, "work", n + 1)>>
          BY <2>2, <2>4, <3>2, <4>1, Queues DEF AnswerLeaves
        <4>3. QED
          BY <1>13, <2>3, <2>4, <4>1, <4>2 DEF Overruns, WritesAfter
      <3>3. QED
        BY <2>2, <3>1, <3>2, OwnIs
    <2>7. UsedBy(c, r)' /\ Whole(c)
      BY <1>13, <2>4, <2>5, <2>6 DEF UsedBy, AnswerLeaves, Whole
    <2>8. QED
      BY <1>1, <2>4, <2>7, StepSound DEF SlotSound, AnswerLeaves
  <1>14. ASSUME NEW r \in Requests, UsedBy(c, r), Overruns(c, r), CommitsFirst(c, r)
         PROVE  TInv'
    <2> DEFINE s == Sent(r, "commit", 0)
               b == Sent(r, "rollback", 0)
    <2>1. s \in Statements /\ s.kind = "commit" /\ s.by = r /\ b \in Statements
      BY StatementSent
    <2>2. slot[c].open /\ slot[c].queue = <<s, b>> /\ ~req[r].runs /\ slot[c].writes = AllWorks(r)
      BY <1>14 DEF CommitsFirst
    <2> HIDE DEF s
    <2>3. AnswerLeaves(c, s, "used", <<b>> \o OnItsOwn(s)) /\ req' = req /\ \A q \in Requests : CallShape(q)'
      BY <1>12, <1>14, <2>1, <2>2
    <2>4. OnItsOwn(s) = <<>> /\ <<b>> \o OnItsOwn(s) = <<b>>
      BY <2>1, OwnIs, Queues, ConcatEmptySeq
    <2>5. slot'[c].queue = <<b>> /\ durable' = durable \cup AllWorks(r)
      BY <2>1, <2>2, <2>3, <2>4 DEF AnswerLeaves, Commits
    <2>6. Overruns(c, r)'
      BY <1>14, <2>3, <2>5 DEF Overruns
    <2>7. WholeBy(c, r)
      <3>1. req[r].told = "none"
        BY <1>14 DEF Overruns, TInv, CallSound, CallShape
      <3>2. QED
        BY <1>14, <2>2, <2>3, <2>5, <3>1 DEF WholeBy, UsedBy, Overruns
    <2>8. UsedBy(c, r)' /\ Whole(c)
      BY <1>14, <2>3, <2>6, <2>7 DEF UsedBy, AnswerLeaves, Whole
    <2>9. QED
      BY <1>1, <2>3, <2>8, StepSound DEF SlotSound, AnswerLeaves
  \* The answer to that ROLLBACK is the step Undo.
  <1>15. ASSUME NEW r \in Requests, UsedBy(c, r), Overruns(c, r),
                WritesAfter(c, r) \/ slot[c].queue = <<Sent(r, "rollback", 0)>>
         PROVE  FALSE
    <2>1. Sent(r, "rollback", 0) \in Statements /\ \A n \in 2..Works : Sent(r, "work", n) \in Statements
      BY <1>1, StatementSent
    <2>2. Head(slot[c].queue) = Sent(r, "rollback", 0)
      BY <1>15, <2>1, Queues DEF WritesAfter
    <2>3. Undone(c, Head(slot[c].queue))
      BY <1>15, <2>2, StatementSent DEF Undone, Overruns, UsedBy
    <2>4. QED
      BY <1>2, <2>3
  <1>16. ASSUME NEW r \in Requests, UsedBy(c, r) PROVE TInv'
    <2>1. CASE Overruns(c, r)
      BY <1>13, <1>14, <1>15, <1>16, <2>1 DEF Overruns
    <2>2. CASE Sets(c, r)
      BY <1>4, <1>8, <1>16, <2>2 DEF Sets
    <2>3. CASE Writing(c, r)
      BY <1>10, <1>16, <2>3 DEF Writing
    <2>4. QED
      BY <1>9, <1>11, <1>16, <2>1, <2>2, <2>3 DEF UsedBy
  <1>17. QED
    BY <1>1, <1>2, <1>3, <1>16 DEF SlotSound, Unused

LEMMA InitTInv == ASSUME OwnedAssumption PROVE PoolInit => TInv
  <1> SUFFICES ASSUME PoolInit PROVE TInv
    OBVIOUS
  <1>1. req \in [Requests -> Call] /\ slot \in [Slots -> SlotRow]
    BY FreshIs DEF PoolInit, Call, Answers
  <1>2. \A c \in Slots : Unused(c)
    BY FreshIs DEF PoolInit, Unused, OwnedAssumption
  <1>3. \A r \in Requests : CallSound(r)
    BY DEF PoolInit, CallSound, CallShape, All, Nothing, StatementKinds, OwnedAssumption
  <1>4. QED
    BY <1>1, <1>2, <1>3 DEF TInv, SlotSound, PoolInit

LEMMA NextTInv == ASSUME OwnedAssumption PROVE TInv /\ [PoolNext]_poolVars => TInv'
  <1> SUFFICES ASSUME TInv, [PoolNext]_poolVars PROVE TInv'
    OBVIOUS
  <1>1. CASE UNCHANGED poolVars
    BY <1>1 DEF poolVars, TInv, SlotSound, Unused, UsedBy, Sets, Begins, Writing, Committing, RollsBack,
                Overruns, WritesOn, WritesAfter, CommitsFirst, LeftBy, CallSound, CallShape, All, Nothing, Stray
  <1>2. CASE PoolNext
    BY <1>2, AskKeeps, LeaveKeeps, ConnectKeeps, AnswerKeeps, LoseKeeps, InsideKeeps, UndoKeeps DEF PoolNext
  <1>3. QED
    BY <1>1, <1>2

\* What the invariant says of the statement that is next on a connection in use.
LEMMA NotMixed == ASSUME OwnedAssumption PROVE TInv => NeverMixed
  <1> SUFFICES ASSUME TInv, NEW c \in Slots, slot[c].queue # <<>>, slot[c].state = "used"
               PROVE  /\ slot[c].queue[1].kind = "begin" => ~slot[c].open
                      /\ slot[c].queue[1].kind = "work" => slot[c].open
    BY DEF NeverMixed
  <1>1. PICK r \in Requests : UsedBy(c, r)
    BY DEF TInv, SlotSound, Unused
  <1>2. CASE Sets(c, r)
    <2>1. slot[c].queue[1].kind \in {"configure", "rollback"}
      BY <1>2, Queues, StatementSent DEF Sets, StatementKinds
    <2>2. QED
      BY <2>1
  <1>3. CASE Begins(c, r)
    BY <1>3 DEF Begins, Sent
  <1>4. CASE Writing(c, r) \/ Committing(c, r) \/ RollsBack(c, r)
    <2>1. slot[c].open /\ slot[c].queue[1].kind \in {"work", "commit", "rollback"}
      BY <1>4, Queues, StatementSent DEF Writing, Committing, RollsBack, StatementKinds, OwnedAssumption
    <2>2. QED
      BY <2>1
  <1>5. CASE Overruns(c, r)
    <2>1. Sent(r, "rollback", 0) \in Statements /\ Sent(r, "commit", 0) \in Statements
      BY StatementSent DEF StatementKinds
    <2>2. ASSUME NEW n \in Nat PROVE Sent(r, "work", n) \in Statements
      BY StatementSent DEF StatementKinds
    <2>3. \A n \in 1..Works : n \in Nat
      BY DEF OwnedAssumption
    <2>4. CASE WritesOn(c, r)
      <3>1. PICK n \in 1..Works : slot[c].queue = <<Sent(r, "work", n), Sent(r, "rollback", 0)>>
        BY <2>4 DEF WritesOn
      <3>2. slot[c].queue[1] = Sent(r, "work", n) /\ slot[c].open
        BY <2>1, <2>2, <2>3, <2>4, <3>1, Queues DEF WritesOn
      <3>3. QED
        BY <3>2 DEF Sent
    <2>5. CASE WritesAfter(c, r)
      <3>1. PICK n \in 2..Works : slot[c].queue = <<Sent(r, "rollback", 0), Sent(r, "work", n)>>
        BY <2>5 DEF WritesAfter
      <3>2. slot[c].queue[1] = Sent(r, "rollback", 0)
        BY <2>1, <2>2, <2>3, <3>1, Queues DEF OwnedAssumption
      <3>3. QED
        BY <3>2 DEF Sent
    <2>6. CASE CommitsFirst(c, r) \/ slot[c].queue = <<Sent(r, "rollback", 0)>>
      <3>1. slot[c].queue[1] \in {Sent(r, "rollback", 0), Sent(r, "commit", 0)}
        BY <2>1, <2>6, Queues DEF CommitsFirst
      <3>2. QED
        BY <3>1 DEF Sent
    <2>7. QED
      BY <1>5, <2>4, <2>5, <2>6 DEF Overruns
  <1>6. QED
    BY <1>1, <1>2, <1>3, <1>4, <1>5 DEF UsedBy

\* MysqlService and its transactions: for any number of requests, connections and
\* works, whatever is aborted, late or lost, a transaction is all or nothing, what
\* was told holds, and no transaction meets another on a connection.
THEOREM TransactionsAlwaysWhole ==
  ASSUME OwnedAssumption
  PROVE  PoolSpec => TransactionsAreWhole
  <1>1. TInv => PoolTypeOK
    <2> SUFFICES ASSUME TInv PROVE PoolTypeOK
      OBVIOUS
    <2>1. ASSUME NEW c \in Slots
          PROVE  /\ slot[c].state \in {"closed", "idle", "used"}
                 /\ slot[c].state # "used" => ~slot[c].open \/ slot[c].queue # <<>>
                 /\ slot[c].state = "closed" => slot[c].queue = <<>>
      <3>1. SlotSound(c) /\ slot[c] \in SlotRow
        BY DEF TInv
      <3>2. CASE \E r \in Requests : UsedBy(c, r)
        BY <3>1, <3>2 DEF UsedBy
      <3>3. CASE Unused(c)
        <4>1. \A o \in Requests : <<Sent(o, "rollback", 0)>> # <<>>
          BY Queues, StatementSent DEF StatementKinds
        <4>2. QED
          BY <3>1, <3>3, <4>1 DEF Unused, SlotRow
      <3>4. QED
        BY <3>1, <3>2, <3>3 DEF SlotSound
    <2>2. QED
      BY <2>1 DEF TInv, PoolTypeOK, Call
  <1>2. TInv => AllOrNothing /\ AnswersHold
    BY DEF TInv, CallSound, AllOrNothing, AnswersHold, All, Nothing, Stray
  <1>3. QED
    BY <1>1, <1>2, InitTInv, NextTInv, NotMixed, PTL DEF PoolSpec, TransactionsAreWhole

(***************************************************************************)
(* Uploaded images                                                         *)
(***************************************************************************)

\* The rows of an image: none without an object, and an owner only of an active one.
RowsFit ==
  \A b \in Boards, i \in Images :
    /\ object[i].state = "none" => ~HasRow(b, i)
    /\ object[i].state # "none" => object[i].life >= 1
    /\ b \in Owners(i) => object[i].state = "active"

\* What an item may rely on: as long as its object lives the row it names is there, at
\* its version or a later one; at its own version while it works on the row, the row is
\* in quarantine, and once it has looked for references the board has none.
ItemFits(n) ==
  LET x == cleanup[n]
  IN  /\ x.phase \notin Final => x.attempts < MaxFailures
      /\ x.life <= object[x.image].life
      /\ x.life = object[x.image].life /\ object[x.image].state # "none" =>
           /\ HasRow(x.board, x.image)
           /\ x.version <= ownership[<<x.board, x.image>>].version
           /\ x.version = ownership[<<x.board, x.image>>].version
                /\ x.phase \in {"ownership_quarantined", "refs_rechecked"} =>
                /\ ownership[<<x.board, x.image>>].status = "quarantined"
                /\ x.phase = "refs_rechecked" =>
                     \A r \in named : <<r.board, r.image>> # <<x.board, x.image>>

ItemsFit == \A n \in CleanupItems : cleanup[n] # NoItem => ItemFits(n)
MediaInv == ImagesAreAccounted /\ RowsFit /\ ItemsFit

\* All of it but the types.
MediaFits ==
  /\ QuotaMatches /\ ReferencedIsKept /\ ReceiptsHold /\ LeasedIsActive
  /\ QuarantineHasItem /\ RowsFit /\ ItemsFit

LEMMA MediaBounds == {Quota, MaxFailures, MaxLives, MaxVersion} \subseteq Nat \ {0}
BY MediaAssumption

LEMMA MediaFacts ==
  ASSUME MediaTypeOK
  PROVE  /\ \A b \in Boards, i \in Images : HasRow(b, i) => ownership[<<b, i>>] \in Ownership
         /\ \A n \in CleanupItems : cleanup[n] # NoItem => cleanup[n] \in Item
         /\ \A bk \in Boards \X Keys : receipt[bk] # NoRow => receipt[bk] \in Receipt
         /\ \A i \in Images : object[i] \in Object
         /\ \A u \in Uploads : upload[u] \in Request \cup Response
         /\ DOMAIN ownership = Boards \X Images /\ DOMAIN receipt = Boards \X Keys
BY DEF MediaTypeOK, HasRow

\* One row changes, to `row`.
Edited(b, i, row) ==
  /\ ownership[<<b, i>>] \in Ownership /\ row \in Ownership
  /\ ownership' \in [Boards \X Images -> Ownership \cup {NoRow}]
  /\ ownership'[<<b, i>>] = row
  /\ \A c \in Boards, j \in Images : <<c, j>> # <<b, i>> => ownership'[<<c, j>>] = ownership[<<c, j>>]

\* One item changes, to `y`.
ItemMoved(n, y) ==
  /\ y \in Item /\ cleanup'[n] = y
  /\ \A m \in CleanupItems \ {n} : cleanup'[m] = cleanup[m]

\* What a board is charged for.
Charged(b) == {i \in Images : b \in Owners(i)}

LEMMA ChargesKept ==
  ASSUME QuotaMatches, UNCHANGED used,
         \A c \in Boards, j \in Images : (c \in Owners(j))' <=> c \in Owners(j)
  PROVE  QuotaMatches'
<1>1. \A c \in Boards : {i \in Images : c \in Owners(i)}' = {i \in Images : c \in Owners(i)}
  OBVIOUS
<1> QED BY <1>1 DEF QuotaMatches

\* One row changes its status, or its lease, but not whether it is owned.
LEMMA OwnersKept ==
  ASSUME MediaTypeOK, NEW b \in Boards, NEW i \in Images, NEW row, Edited(b, i, row), HasRow(b, i),
         ownership[<<b, i>>].status \in Live, row.status \in Live
  PROVE  \A c \in Boards, j \in Images : (c \in Owners(j))' <=> c \in Owners(j)
<1> SUFFICES ASSUME NEW c \in Boards, NEW j \in Images
             PROVE  (c \in Owners(j))' <=> c \in Owners(j)
  OBVIOUS
<1>1. CASE <<c, j>> = <<b, i>>
  BY <1>1, MediaAssumption DEF Owners, HasRow, Edited
<1>2. CASE <<c, j>> # <<b, i>>
  BY <1>2 DEF Owners, HasRow, Edited
<1> QED BY <1>1, <1>2

\* A lease that is renewed or runs out.
LEMMA LeaseFits ==
  ASSUME MediaInv, NEW b \in Boards, NEW i \in Images, NEW row, Edited(b, i, row), HasRow(b, i),
         row.status = ownership[<<b, i>>].status,
         ~row.lapsed => row.status = "active",
         \/ row.version = ownership[<<b, i>>].version
         \/ row.version = ownership[<<b, i>>].version + 1 /\ row.status = "active",
         UNCHANGED <<object, used, receipt, named, cleanup>>
  PROVE  MediaFits'
<1> USE MediaFacts, MediaAssumption DEF MediaInv, ImagesAreAccounted
<1>0. \A c \in Boards, j \in Images : /\ HasRow(c, j)' <=> HasRow(c, j)
                                      /\ (c \in Owners(j))' <=> c \in Owners(j)
                                      /\ HasRow(c, j) => ownership'[<<c, j>>].status = ownership[<<c, j>>].status
                                      /\ HasRow(c, j) => ownership[<<c, j>>].version <= ownership'[<<c, j>>].version
  <2> SUFFICES ASSUME NEW c \in Boards, NEW j \in Images
               PROVE  /\ HasRow(c, j)' <=> HasRow(c, j)
                      /\ (c \in Owners(j))' <=> c \in Owners(j)
                      /\ HasRow(c, j) => ownership'[<<c, j>>].status = ownership[<<c, j>>].status
                      /\ HasRow(c, j) => ownership[<<c, j>>].version <= ownership'[<<c, j>>].version
    OBVIOUS
  <2>1. CASE <<c, j>> = <<b, i>>
    BY <2>1 DEF Edited, HasRow, Owners, Ownership
  <2>2. CASE <<c, j>> # <<b, i>>
    <3>1. ownership'[<<c, j>>] = ownership[<<c, j>>] BY <2>2 DEF Edited
    <3>2. HasRow(c, j) => ownership[<<c, j>>].version \in Int BY DEF Ownership
    <3> QED BY <3>1, <3>2 DEF HasRow, Owners
  <2> QED BY <2>1, <2>2
<1>1. QuotaMatches' BY <1>0, ChargesKept
<1>2. ReferencedIsKept' BY <1>0 DEF ReferencedIsKept, MediaTypeOK, Reference
<1>3. ReceiptsHold' BY <1>0 DEF ReceiptsHold, MediaTypeOK, Receipt
<1>4. LeasedIsActive' BY <1>0 DEF LeasedIsActive, Edited, HasRow
<1>5. QuarantineHasItem' BY <1>0 DEF QuarantineHasItem, Owns
<1>6. RowsFit' BY <1>0 DEF RowsFit
<1>7. ItemsFit'
  <2> SUFFICES ASSUME NEW n \in CleanupItems, cleanup[n] # NoItem PROVE ItemFits(n)'
    BY DEF ItemsFit
  <2>1. ItemFits(n) /\ cleanup[n] \in Item BY DEF ItemsFit
  <2>2. CASE <<cleanup[n].board, cleanup[n].image>> = <<b, i>>
    BY <1>0, <2>1, <2>2 DEF ItemFits, Edited, Item, Ownership, HasRow
  <2>3. CASE <<cleanup[n].board, cleanup[n].image>> # <<b, i>>
    BY <1>0, <2>1, <2>3 DEF ItemFits, Edited, Item, Ownership, HasRow
  <2> QED BY <2>2, <2>3
<1> QED BY <1>1, <1>2, <1>3, <1>4, <1>5, <1>6, <1>7 DEF MediaFits

\* An item takes the row it expects into quarantine, or gives it back.
LEMMA StatusFits ==
  ASSUME MediaInv, NEW n \in CleanupItems, cleanup[n] # NoItem, cleanup[n].phase \notin Final,
         NEW b, NEW i, b = cleanup[n].board, i = cleanup[n].image, NEW row, NEW y,
         Edited(b, i, row), Expected(n, Live), ItemMoved(n, y),
         row.status \in Live, row.version = ownership[<<b, i>>].version + 1,
         ~row.lapsed => row.status = "active",
         y.board = b, y.image = i, y.life = cleanup[n].life, y.version = row.version,
         y.attempts = cleanup[n].attempts,
         \/ row.status = "quarantined" /\ y.phase = "ownership_quarantined"
         \/ row.status = "active" /\ y.phase = "complete",
         UNCHANGED <<object, used, receipt, named>>
  PROVE  MediaFits'
<1> USE MediaFacts, MediaAssumption DEF MediaInv, ImagesAreAccounted
<1>a. cleanup[n] \in Item /\ b \in Boards /\ i \in Images /\ HasRow(b, i)
  BY DEF Item, Expected
<1>0. \A c \in Boards, j \in Images : /\ HasRow(c, j)' <=> HasRow(c, j)
                                      /\ (c \in Owners(j))' <=> c \in Owners(j)
                                      /\ <<c, j>> # <<b, i>> => ownership'[<<c, j>>] = ownership[<<c, j>>]
  <2>1. \A c \in Boards, j \in Images : (c \in Owners(j))' <=> c \in Owners(j)
    BY <1>a, OwnersKept DEF Expected
  <2>2. \A c \in Boards, j \in Images : HasRow(c, j)' <=> HasRow(c, j)
    BY <1>a DEF Edited, HasRow
  <2> QED BY <2>1, <2>2 DEF Edited
<1>1. QuotaMatches' BY <1>0, ChargesKept
<1>2. ReferencedIsKept' BY <1>0 DEF ReferencedIsKept, MediaTypeOK, Reference
<1>3. ReceiptsHold' BY <1>0 DEF ReceiptsHold, MediaTypeOK, Receipt
<1>4. LeasedIsActive'
  <2> SUFFICES ASSUME NEW c \in Boards, NEW j \in Images, HasRow(c, j)', ~ownership'[<<c, j>>].lapsed
               PROVE  ownership'[<<c, j>>].status = "active"
    BY DEF LeasedIsActive, Edited, HasRow
  <2>1. CASE <<c, j>> = <<b, i>> BY <2>1 DEF Edited
  <2>2. CASE <<c, j>> # <<b, i>> BY <2>2, <1>0 DEF LeasedIsActive, HasRow
  <2> QED BY <2>1, <2>2
<1>5. QuarantineHasItem'
  <2> SUFFICES ASSUME NEW c \in Boards, NEW j \in Images, Owns(c, j, "quarantined")'
               PROVE  \E m \in CleanupItems :
                 /\ cleanup'[m] # NoItem
                 /\ cleanup'[m].board = c /\ cleanup'[m].image = j /\ cleanup'[m].life = object[j].life
                 /\ cleanup'[m].phase \in {"ownership_quarantined", "refs_rechecked", "quarantined"}
    BY DEF QuarantineHasItem
  <2>1. CASE <<c, j>> = <<b, i>>
    <3>1. y.phase = "ownership_quarantined" BY <2>1 DEF Owns, HasRow, Edited
    <3>2. cleanup[n].life = object[j].life BY <2>1 DEF Expected
    <3> QED BY <3>1, <3>2, <2>1 DEF ItemMoved
  <2>2. CASE <<c, j>> # <<b, i>>
    <3>1. Owns(c, j, "quarantined") BY <2>2, <1>0 DEF Owns, HasRow
    <3>2. PICK m \in CleanupItems :
            /\ cleanup[m] # NoItem
            /\ cleanup[m].board = c /\ cleanup[m].image = j /\ cleanup[m].life = object[j].life
            /\ cleanup[m].phase \in {"ownership_quarantined", "refs_rechecked", "quarantined"}
      BY <3>1 DEF QuarantineHasItem
    <3>3. m # n BY <3>2, <2>2
    <3> QED BY <3>2, <3>3 DEF ItemMoved
  <2> QED BY <2>1, <2>2
<1>6. RowsFit' BY <1>0 DEF RowsFit
<1>7. ItemsFit'
  <2> SUFFICES ASSUME NEW m \in CleanupItems, cleanup'[m] # NoItem PROVE ItemFits(m)'
    BY DEF ItemsFit
  <2>1. CASE m = n
    <3>1. ItemFits(n) BY DEF ItemsFit
    <3>2. cleanup'[m] = y BY <2>1 DEF ItemMoved
    <3>3. ownership'[<<y.board, y.image>>] = row BY DEF Edited
    <3>4. row.version \in Int BY DEF Edited, Ownership
    <3>5. HasRow(y.board, y.image)' BY <1>0, <1>a
    <3> QED BY <1>a, <3>1, <3>2, <3>3, <3>4, <3>5 DEF ItemFits, Final, Live
  <2>2. CASE m # n
    <3>1. cleanup'[m] = cleanup[m] BY <2>2 DEF ItemMoved
    <3>2. ItemFits(m) /\ cleanup[m] \in Item BY <3>1 DEF ItemsFit
    <3>3. CASE <<cleanup[m].board, cleanup[m].image>> = <<b, i>>
      <4>1. ownership'[<<cleanup[m].board, cleanup[m].image>>] = row BY <3>3 DEF Edited
      <4>2. ownership[<<b, i>>].version \in Int /\ cleanup[m].version \in Int
        BY <1>a, <3>2 DEF Ownership, Item
      <4> QED BY <3>1, <3>2, <3>3, <4>1, <4>2, <1>0, <1>a DEF ItemFits
    <3>4. CASE <<cleanup[m].board, cleanup[m].image>> # <<b, i>>
      <4>1. ownership'[<<cleanup[m].board, cleanup[m].image>>]
              = ownership[<<cleanup[m].board, cleanup[m].image>>]
        BY <3>2, <3>4, <1>0 DEF Item
      <4> QED BY <3>1, <3>2, <4>1 DEF ItemFits, HasRow
    <3> QED BY <3>3, <3>4
  <2> QED BY <2>1, <2>2
<1> QED BY <1>1, <1>2, <1>3, <1>4, <1>5, <1>6, <1>7 DEF MediaFits

\* A step of an item alone.
LEMMA ItemAloneFits ==
  ASSUME MediaInv, NEW n \in CleanupItems, NEW y, ItemMoved(n, y), ItemFits(n)',
         cleanup[n] # NoItem =>
           /\ y.board = cleanup[n].board /\ y.image = cleanup[n].image /\ y.life = cleanup[n].life
           /\ cleanup[n].phase \in {"ownership_quarantined", "refs_rechecked", "quarantined"}
                => y.phase \in {"ownership_quarantined", "refs_rechecked", "quarantined"},
         UNCHANGED <<object, ownership, used, receipt, named>>
  PROVE  MediaFits'
<1> USE DEF MediaInv, ImagesAreAccounted
<1>1. QuotaMatches' BY DEF QuotaMatches, Owners, HasRow
<1>2. ReferencedIsKept' BY DEF ReferencedIsKept, Owners, HasRow
<1>3. ReceiptsHold' BY DEF ReceiptsHold, Owners, HasRow
<1>4. LeasedIsActive' BY DEF LeasedIsActive
<1>5. QuarantineHasItem'
  <2> SUFFICES ASSUME NEW c \in Boards, NEW j \in Images, Owns(c, j, "quarantined")
               PROVE  \E m \in CleanupItems :
                 /\ cleanup'[m] # NoItem
                 /\ cleanup'[m].board = c /\ cleanup'[m].image = j /\ cleanup'[m].life = object[j].life
                 /\ cleanup'[m].phase \in {"ownership_quarantined", "refs_rechecked", "quarantined"}
    BY DEF QuarantineHasItem, Owns, HasRow
  <2>1. PICK m \in CleanupItems :
          /\ cleanup[m] # NoItem
          /\ cleanup[m].board = c /\ cleanup[m].image = j /\ cleanup[m].life = object[j].life
          /\ cleanup[m].phase \in {"ownership_quarantined", "refs_rechecked", "quarantined"}
    BY DEF QuarantineHasItem
  <2>2. CASE m = n BY <2>1, <2>2, MediaAssumption DEF ItemMoved
  <2>3. CASE m # n BY <2>1, <2>3 DEF ItemMoved
  <2> QED BY <2>2, <2>3
<1>6. RowsFit' BY DEF RowsFit, Owners, HasRow
<1>7. ItemsFit'
  <2> SUFFICES ASSUME NEW m \in CleanupItems, cleanup'[m] # NoItem, m # n PROVE ItemFits(m)'
    BY DEF ItemsFit
  <2> QED BY DEF ItemsFit, ItemFits, HasRow, ItemMoved
<1> QED BY <1>1, <1>2, <1>3, <1>4, <1>5, <1>6, <1>7 DEF MediaFits

-----------------------------------------------------------------------------
LEMMA UnchangedFits ==
  ASSUME MediaInv, UNCHANGED <<object, ownership, used, receipt, named, cleanup>>,
         upload' \in [Uploads -> Request \cup Response]
  PROVE  MediaTypeOK' /\ MediaFits'
<1>1. MediaTypeOK' BY DEF MediaInv, ImagesAreAccounted, MediaTypeOK
<1>2. QuotaMatches' BY DEF MediaInv, ImagesAreAccounted, QuotaMatches, Owners, HasRow
<1>3. ReferencedIsKept' /\ ReceiptsHold'
  BY DEF MediaInv, ImagesAreAccounted, ReferencedIsKept, ReceiptsHold, Owners, HasRow
<1>4. LeasedIsActive' /\ QuarantineHasItem'
  BY DEF MediaInv, ImagesAreAccounted, LeasedIsActive, QuarantineHasItem, Owns, HasRow
<1>5. RowsFit' BY DEF MediaInv, RowsFit, Owners, HasRow
<1>6. ItemsFit' BY DEF MediaInv, ItemsFit, ItemFits, HasRow
<1> QED BY <1>1, <1>2, <1>3, <1>4, <1>5, <1>6 DEF MediaFits

LEMMA RespondTyped ==
  ASSUME MediaTypeOK, NEW u \in Uploads,
         NEW a \in {"none", "created", "replayed", "conflict", "expired", "quota", "limited",
                    "undecodable", "row_integrity"},
         upload' = Respond(u, a)
  PROVE  upload' \in [Uploads -> Request \cup Response]
<1>1. [answer |-> a] \in Response BY DEF Response
<1> QED BY <1>1 DEF MediaTypeOK, Respond

\* A replayed upload, and a lease that runs out.
LEMMA ReplayFits ==
  ASSUME MediaInv, NEW u \in Uploads, NEW b \in Boards, NEW k \in Keys, NEW i \in Images,
         receipt[<<b, k>>] # NoRow, Replay(u, b, k, i)
  PROVE  MediaTypeOK' /\ MediaFits'
<1> USE DEF MediaInv, ImagesAreAccounted
<1>1. receipt[<<b, k>>] \in Receipt BY MediaFacts
<1>2. ReplayAnswer(b, k, i) \in {"conflict", "expired", "row_integrity", "replayed"}
  BY <1>1 DEF ReplayAnswer, Receipt
<1>3. upload' \in [Uploads -> Request \cup Response] BY <1>2, RespondTyped DEF Replay
<1>4. CASE ReplayAnswer(b, k, i) # "replayed"
  BY <1>3, <1>4, UnchangedFits DEF Replay
<1>5. CASE ReplayAnswer(b, k, i) = "replayed"
  <2> DEFINE row == [ownership[<<b, i>>] EXCEPT !.lapsed = FALSE, !.version = @ + 1]
  <2>1. HasRow(b, i) /\ ownership[<<b, i>>].status = "active"
    BY <1>1, <1>5 DEF ReplayAnswer, Receipt, Owns
  <2>2. ownership[<<b, i>>] \in Ownership BY <2>1, MediaFacts
  <2>3. ownership[<<b, i>>].version < MaxVersion /\ ownership' = [ownership EXCEPT ![<<b, i>>] = row]
    BY <1>5, <2>2 DEF Replay, MediaTypeOK
  <2>4. row \in Ownership
    <3>1. ownership[<<b, i>>].version + 1 \in 1 .. MaxVersion BY <2>2, <2>3, MediaBounds DEF Ownership
    <3> QED BY <2>2, <3>1 DEF Ownership
  <2>5. /\ row.status = "active" /\ row.version = ownership[<<b, i>>].version + 1
    BY <2>1, <2>2 DEF Ownership
  <2> HIDE DEF row
  <2>6. Edited(b, i, row) BY <2>2, <2>3, <2>4 DEF Edited, MediaTypeOK
  <2>7. UNCHANGED <<object, used, receipt, named, cleanup>> BY <1>5 DEF Replay
  <2>8. MediaFits' BY <2>1, <2>5, <2>6, <2>7, LeaseFits
  <2> QED BY <1>3, <2>6, <2>7, <2>8 DEF MediaTypeOK, Edited
<1> QED BY <1>4, <1>5

LEMMA LapseFits ==
  ASSUME MediaInv, NEW b \in Boards, NEW i \in Images, Lease(b, i)
  PROVE  MediaTypeOK' /\ MediaFits'
<1> USE DEF MediaInv, ImagesAreAccounted
<1> DEFINE row == [ownership[<<b, i>>] EXCEPT !.lapsed = TRUE]
<1>1. HasRow(b, i) BY DEF Lease
<1>2. ownership[<<b, i>>] \in Ownership BY <1>1, MediaFacts
<1>3. ownership' = [ownership EXCEPT ![<<b, i>>] = row] BY <1>2 DEF Lease, MediaTypeOK
<1>4. row \in Ownership /\ row.status = ownership[<<b, i>>].status
       /\ row.version = ownership[<<b, i>>].version /\ row.lapsed
  BY <1>2 DEF Ownership
<1> HIDE DEF row
<1>5. Edited(b, i, row) BY <1>2, <1>3, <1>4 DEF Edited, MediaTypeOK
<1>6. UNCHANGED <<object, used, receipt, named, upload, cleanup>> BY DEF Lease
<1>7. MediaFits' BY <1>1, <1>4, <1>5, <1>6, LeaseFits
<1> QED BY <1>5, <1>6, <1>7 DEF MediaTypeOK, Edited

LEMMA MutateFits ==
  ASSUME MediaInv, NEW b \in Boards, NEW i \in Images, Mutate(b, i)
  PROVE  MediaTypeOK' /\ MediaFits'
<1> USE DEF MediaInv, ImagesAreAccounted
<1> DEFINE r == [board |-> b, image |-> i, life |-> object[i].life]
<1>1. HasRow(b, i) /\ ownership[<<b, i>>].status = "active" /\ b \in Owners(i)
  BY DEF Mutate, Owns, Owners, Live
<1>2. object[i].state = "active" /\ object[i].life >= 1 BY <1>1 DEF RowsFit
<1>3. object[i] \in Object BY MediaFacts
<1>4. r \in Reference /\ object[i] = [life |-> r.life, state |-> "active"]
  BY <1>2, <1>3, MediaAssumption DEF Object, Reference
<1>5. named' = named \cup {r} /\ UNCHANGED <<object, ownership, used, receipt, upload, cleanup>>
  BY DEF Mutate
<1>6. MediaTypeOK' BY <1>4, <1>5 DEF MediaTypeOK
<1>7. QuotaMatches' /\ ReceiptsHold' BY <1>5 DEF QuotaMatches, ReceiptsHold, Owners, HasRow
<1>8. ReferencedIsKept'
  <2> SUFFICES ASSUME NEW x \in named'
               PROVE  /\ object[x.image] = [life |-> x.life, state |-> "active"]
                      /\ x.board \in Owners(x.image)
    BY <1>5 DEF ReferencedIsKept, Owners, HasRow
  <2>1. CASE x = r BY <1>1, <1>4, <2>1
  <2>2. CASE x \in named BY <2>2 DEF ReferencedIsKept
  <2> QED BY <1>5, <2>1, <2>2
<1>9. LeasedIsActive' /\ QuarantineHasItem' BY <1>5 DEF LeasedIsActive, QuarantineHasItem, Owns, HasRow
<1>10. RowsFit' BY <1>5 DEF RowsFit, Owners, HasRow
<1>11. ItemsFit'
  <2> SUFFICES ASSUME NEW n \in CleanupItems, cleanup[n] # NoItem PROVE ItemFits(n)'
    BY <1>5 DEF ItemsFit
  <2>1. ItemFits(n) BY DEF ItemsFit
  <2>2. CASE <<cleanup[n].board, cleanup[n].image>> = <<b, i>>
    BY <1>1, <1>5, <2>1, <2>2 DEF ItemFits, HasRow
  <2>3. CASE <<cleanup[n].board, cleanup[n].image>> # <<b, i>>
    BY <1>5, <2>1, <2>3 DEF ItemFits, HasRow
  <2> QED BY <2>2, <2>3
<1> QED BY <1>6, <1>7, <1>8, <1>9, <1>10, <1>11 DEF MediaFits

LEMMA PruneFits ==
  ASSUME MediaInv, NEW r, Prune(r)
  PROVE  MediaTypeOK' /\ MediaFits'
<1> USE DEF MediaInv, ImagesAreAccounted, Prune
<1>1. MediaTypeOK' BY DEF MediaTypeOK
<1>2. QuotaMatches' /\ ReceiptsHold' BY DEF QuotaMatches, ReceiptsHold, Owners, HasRow
<1>3. ReferencedIsKept' BY DEF ReferencedIsKept, Owners, HasRow
<1>4. LeasedIsActive' /\ QuarantineHasItem' BY DEF LeasedIsActive, QuarantineHasItem, Owns, HasRow
<1>5. RowsFit' BY DEF RowsFit, Owners, HasRow
<1>6. ItemsFit' BY DEF ItemsFit, ItemFits, HasRow
<1> QED BY <1>1, <1>2, <1>3, <1>4, <1>5, <1>6 DEF MediaFits

\* What an upload stores: its image's object and ownership, the charge and the receipt.
LEMMA StoreFits ==
  ASSUME MediaInv, NEW u \in Uploads, NEW b \in Boards, NEW k \in Keys, NEW i \in Images,
         ~Unusable(b, i), Store(u, b, k, i)
  PROVE  MediaTypeOK' /\ MediaFits'
<1> USE DEF MediaInv, ImagesAreAccounted
<1> DEFINE created == ~HasRow(b, i)
           fresh == [status |-> "active", lapsed |-> FALSE, version |-> 1]
<1>1. CASE created /\ used[b] + 1 > Quota
  <2>1. UNCHANGED <<object, ownership, used, receipt, named, cleanup>> /\ upload' = Respond(u, "quota")
    BY <1>1 DEF Store
  <2> QED BY <2>1, RespondTyped, UnchangedFits
<1>2. CASE ~(created /\ used[b] + 1 > Quota)
  <2>1. /\ object' = IF object[i].state = "none"
                     THEN [object EXCEPT ![i] = [life |-> @.life + 1, state |-> "active"]]
                     ELSE object
        /\ ownership' = IF created THEN [ownership EXCEPT ![<<b, i>>] = fresh] ELSE ownership
        /\ used' = IF created THEN [used EXCEPT ![b] = @ + 1] ELSE used
        /\ receipt' = [receipt EXCEPT ![<<b, k>>] = [image |-> i, kind |-> "active"]]
        /\ upload' = Respond(u, "created")
        /\ UNCHANGED <<named, cleanup>>
        /\ object[i].state = "none" => object[i].life < MaxLives
    BY <1>2 DEF Store
  <2>2. object[i] \in Object /\ object[i].state \in {"none", "active"}
    BY MediaFacts DEF Object, Unusable
  <2>3. /\ HasRow(b, i) => ownership[<<b, i>>].status = "active"
        /\ object[i].state = "none" => \A c \in Boards : ~HasRow(c, i)
    BY DEF Unusable, RowsFit
  <2>4. fresh \in Ownership /\ fresh # NoRow
    <3>1. 1 \in 1 .. MaxVersion BY MediaBounds
    <3>2. fresh \in Ownership BY <3>1 DEF Ownership, Live
    <3> QED BY <3>2, MediaAssumption
  \* The object, and its life.
  <2>5. /\ object' \in [Images -> Object]
        /\ object'[i].state = "active" /\ object'[i].life >= 1 /\ object'[i].life >= object[i].life
        /\ object[i].state # "none" => object'[i] = object[i]
        /\ object[i].state = "none" => object'[i].life = object[i].life + 1
        /\ \A j \in Images \ {i} : object'[j] = object[j]
    <3>1. CASE object[i].state = "none"
      <4>1. object[i].life + 1 \in 0 .. MaxLives BY <3>1, <2>1, <2>2, MediaBounds DEF Object
      <4>2. [life |-> object[i].life + 1, state |-> "active"] \in Object BY <4>1 DEF Object
      <4>3. object[i].life \in Nat BY <2>2, MediaBounds DEF Object
      <4> QED BY <2>1, <3>1, <4>2, <4>3 DEF MediaTypeOK
    <3>2. CASE object[i].state # "none"
      <4>1. object[i].life >= 1 /\ object[i].life \in Int BY <3>2, <2>2 DEF RowsFit, Object
      <4> QED BY <2>1, <2>2, <3>2, <4>1 DEF MediaTypeOK
    <3> QED BY <3>1, <3>2
  \* The ownership.
  <2>6. /\ ownership' \in [Boards \X Images -> Ownership \cup {NoRow}]
        /\ ownership'[<<b, i>>] = IF created THEN fresh ELSE ownership[<<b, i>>]
        /\ \A c \in Boards, j \in Images : <<c, j>> # <<b, i>> => ownership'[<<c, j>>] = ownership[<<c, j>>]
    BY <2>1, <2>4 DEF MediaTypeOK
  <2>7. /\ HasRow(b, i)' /\ ownership'[<<b, i>>].status = "active"
        /\ (b \in Owners(i))'
    BY <2>3, <2>4, <2>6 DEF HasRow, Owners, Live
  <2>8. \A c \in Boards, j \in Images : <<c, j>> # <<b, i>> =>
          /\ HasRow(c, j)' <=> HasRow(c, j)
          /\ (c \in Owners(j))' <=> c \in Owners(j)
    BY <2>6 DEF HasRow, Owners
  <2>9. ~created => b \in Owners(i) BY <2>3 DEF Owners, Live
  <2>10. created => b \notin Owners(i) BY DEF Owners
  <2> HIDE DEF created, fresh
  <2>11. MediaTypeOK'
    <3>1. used' \in [Boards -> 0 .. Quota]
      <4>1. CASE created
        <5>1. used[b] + 1 \in 0 .. Quota BY <1>2, <4>1, MediaBounds DEF MediaTypeOK
        <5> QED BY <2>1, <4>1, <5>1 DEF MediaTypeOK
      <4>2. CASE ~created BY <4>2, <2>1 DEF MediaTypeOK
      <4> QED BY <4>1, <4>2
    <3>2. [image |-> i, kind |-> "active"] \in Receipt BY DEF Receipt
    <3>3. receipt' \in [Boards \X Keys -> Receipt \cup {NoRow}] BY <2>1, <3>2 DEF MediaTypeOK
    <3>4. upload' \in [Uploads -> Request \cup Response] BY <2>1, RespondTyped
    <3> QED BY <2>1, <2>5, <2>6, <3>1, <3>3, <3>4 DEF MediaTypeOK
  <2>12. QuotaMatches'
    <3> SUFFICES ASSUME NEW c \in Boards
                 PROVE  used'[c] = Cardinality({j \in Images : c \in Owners(j)}')
      BY DEF QuotaMatches
    <3> DEFINE S == {j \in Images : c \in Owners(j)}
    <3>1. used[c] = Cardinality(S) BY DEF QuotaMatches
    <3>2. IsFiniteSet(S) BY MediaAssumption, FS_Subset
    <3>3. CASE c = b /\ created
      <4>1. S' = S \cup {i} BY <3>3, <2>7, <2>8
      <4>2. i \notin S BY <3>3, <2>10
      <4>3. used'[c] = used[c] + 1 BY <3>3, <2>1 DEF MediaTypeOK
      <4> HIDE DEF S
      <4>4. Cardinality(S \cup {i}) = Cardinality(S) + 1 BY <3>2, <4>2, FS_AddElement
      <4> QED BY <3>1, <4>1, <4>3, <4>4 DEF S
    <3>4. CASE ~(c = b /\ created)
      <4>1. S' = S BY <3>4, <2>7, <2>8, <2>9
      <4>2. used'[c] = used[c] BY <3>4, <2>1 DEF MediaTypeOK
      <4> QED BY <3>1, <4>1, <4>2
    <3> QED BY <3>3, <3>4
  <2>13. ReferencedIsKept'
    <3> SUFFICES ASSUME NEW r \in named
                 PROVE  /\ object'[r.image] = [life |-> r.life, state |-> "active"]
                        /\ (r.board \in Owners(r.image))'
      BY <2>1 DEF ReferencedIsKept
    <3>1. r.image \in Images /\ r.board \in Boards BY DEF MediaTypeOK, Reference
    <3>2. object[r.image] = [life |-> r.life, state |-> "active"] /\ r.board \in Owners(r.image)
      BY DEF ReferencedIsKept
    <3>3. object'[r.image] = object[r.image] BY <2>5, <3>1, <3>2
    <3> QED BY <2>7, <2>8, <3>1, <3>2, <3>3
  <2>14. ReceiptsHold'
    <3> SUFFICES ASSUME NEW bk \in Boards \X Keys, receipt'[bk] # NoRow, receipt'[bk].kind = "active"
                 PROVE  /\ (bk[1] \in Owners(receipt[bk].image))'
                        /\ object'[receipt'[bk].image].state = "active"
      BY <2>11 DEF ReceiptsHold, MediaTypeOK
    <3>1. CASE bk = <<b, k>>
      <4>1. receipt'[bk] = [image |-> i, kind |-> "active"] BY <2>1, <3>1 DEF MediaTypeOK
      <4> QED BY <3>1, <4>1, <2>5, <2>7
    <3>2. CASE bk # <<b, k>>
      <4>1. receipt'[bk] = receipt[bk] BY <2>1, <3>2 DEF MediaTypeOK
      <4>2. receipt[bk].image \in Images /\ bk[1] \in Boards BY <4>1, MediaFacts DEF Receipt
      <4>3. bk[1] \in Owners(receipt[bk].image) /\ object[receipt[bk].image].state = "active"
        BY <4>1, MediaFacts DEF ReceiptsHold
      <4> QED BY <2>5, <2>7, <2>8, <4>1, <4>2, <4>3
    <3> QED BY <3>1, <3>2
  <2>15. LeasedIsActive'
    <3> SUFFICES ASSUME NEW c \in Boards, NEW j \in Images, HasRow(c, j)', ~ownership'[<<c, j>>].lapsed
                 PROVE  ownership'[<<c, j>>].status = "active"
      BY <2>6 DEF LeasedIsActive, HasRow
    <3>1. CASE <<c, j>> = <<b, i>> BY <3>1, <2>7
    <3>2. CASE <<c, j>> # <<b, i>> BY <3>2, <2>6, <2>8, MediaFacts DEF LeasedIsActive, HasRow
    <3> QED BY <3>1, <3>2
  <2>16. QuarantineHasItem'
    <3> SUFFICES ASSUME NEW c \in Boards, NEW j \in Images, Owns(c, j, "quarantined")'
                 PROVE  \E m \in CleanupItems :
                   /\ cleanup[m] # NoItem
                   /\ cleanup[m].board = c /\ cleanup[m].image = j /\ cleanup[m].life = object'[j].life
                   /\ cleanup[m].phase \in {"ownership_quarantined", "refs_rechecked", "quarantined"}
      BY <2>1 DEF QuarantineHasItem
    <3>1. <<c, j>> # <<b, i>> BY <2>7 DEF Owns
    <3>2. Owns(c, j, "quarantined") /\ HasRow(c, j) BY <3>1, <2>6, <2>8 DEF Owns
    <3>3. object[j].state # "none" BY <3>2 DEF RowsFit
    <3>4. object'[j] = object[j] BY <3>3, <2>5
    <3> QED BY <3>2, <3>4 DEF QuarantineHasItem
  <2>17. RowsFit'
    <3> SUFFICES ASSUME NEW c \in Boards, NEW j \in Images
                 PROVE  /\ object'[j].state = "none" => ~HasRow(c, j)'
                        /\ object'[j].state # "none" => object'[j].life >= 1
                        /\ (c \in Owners(j))' => object'[j].state = "active"
      BY DEF RowsFit
    <3>1. CASE j = i BY <3>1, <2>5
    <3>2. CASE j # i BY <3>2, <2>5, <2>8 DEF RowsFit
    <3> QED BY <3>1, <3>2
  <2>18. ItemsFit'
    <3> SUFFICES ASSUME NEW n \in CleanupItems, cleanup[n] # NoItem PROVE ItemFits(n)'
      BY <2>1 DEF ItemsFit
    <3>1. ItemFits(n) /\ cleanup[n] \in Item BY MediaFacts DEF ItemsFit
    <3>2. cleanup[n].board \in Boards /\ cleanup[n].image \in Images /\ cleanup[n].life \in Int
      BY <3>1 DEF Item
    <3>3. CASE cleanup[n].image = i /\ object[i].state = "none"
      <4>1. object[i].life \in Int BY <2>2 DEF Object
      <4>2. cleanup[n].life # object'[i].life /\ cleanup[n].life <= object'[i].life
        BY <3>1, <3>2, <3>3, <2>5, <4>1 DEF ItemFits
      <4> QED BY <2>1, <3>1, <3>3, <4>2 DEF ItemFits
    <3>4. CASE ~(cleanup[n].image = i /\ object[i].state = "none")
      <4>1. object'[cleanup[n].image] = object[cleanup[n].image] BY <3>2, <3>4, <2>5
      <4>2. cleanup[n].life = object[cleanup[n].image].life /\ object[cleanup[n].image].state # "none"
              => ownership'[<<cleanup[n].board, cleanup[n].image>>]
                   = ownership[<<cleanup[n].board, cleanup[n].image>>]
        BY <3>1, <3>2, <2>6 DEF ItemFits, created
      <4> QED BY <2>1, <3>1, <4>1, <4>2 DEF ItemFits, HasRow
    <3> QED BY <3>3, <3>4
  <2> QED BY <2>11, <2>12, <2>13, <2>14, <2>15, <2>16, <2>17, <2>18 DEF MediaFits
<1> QED BY <1>1, <1>2

-----------------------------------------------------------------------------
LEMMA TransitionMoves ==
  ASSUME MediaTypeOK, NEW n \in CleanupItems, cleanup[n] # NoItem, NEW phase \in CleanupPhases,
         NEW version \in 1 .. MaxVersion, cleanup' = Transition(n, phase, version)
  PROVE  /\ ItemMoved(n, cleanup'[n])
         /\ cleanup' \in [CleanupItems -> Item \cup {NoItem}]
         /\ cleanup'[n].board = cleanup[n].board /\ cleanup'[n].image = cleanup[n].image
         /\ cleanup'[n].life = cleanup[n].life /\ cleanup'[n].attempts = cleanup[n].attempts
         /\ cleanup'[n].phase = phase /\ cleanup'[n].version = version
<1>1. cleanup[n] \in Item BY MediaFacts
<1> DEFINE y == [cleanup[n] EXCEPT !.phase = phase, !.version = version]
<1>2. cleanup' = [cleanup EXCEPT ![n] = y] BY <1>1 DEF Transition, MediaTypeOK
<1>3. /\ y \in Item
      /\ y.board = cleanup[n].board /\ y.image = cleanup[n].image /\ y.life = cleanup[n].life
      /\ y.attempts = cleanup[n].attempts /\ y.phase = phase /\ y.version = version
  BY <1>1 DEF Item
<1> HIDE DEF y
<1> QED BY <1>2, <1>3 DEF ItemMoved, MediaTypeOK

LEMMA SetStatusEdits ==
  ASSUME MediaTypeOK, NEW n \in CleanupItems, cleanup[n] # NoItem,
         NEW b, NEW i, b = cleanup[n].board, i = cleanup[n].image,
         HasRow(b, i), ownership[<<b, i>>].version < MaxVersion,
         NEW status \in Live \cup {"released"}, ownership' = SetStatus(n, status)
  PROVE  /\ Edited(b, i, ownership'[<<b, i>>])
         /\ ownership'[<<b, i>>].status = status
         /\ ownership'[<<b, i>>].lapsed = ownership[<<b, i>>].lapsed
         /\ ownership'[<<b, i>>].version = ownership[<<b, i>>].version + 1
<1>1. b \in Boards /\ i \in Images BY MediaFacts DEF Item
<1>2. ownership[<<b, i>>] \in Ownership BY <1>1, MediaFacts
<1> DEFINE row == [ownership[<<b, i>>] EXCEPT !.status = status, !.version = @ + 1]
<1>3. ownership' = [ownership EXCEPT ![<<b, i>>] = row]
  BY <1>1, <1>2 DEF SetStatus, MediaTypeOK
<1>4. ownership[<<b, i>>].version + 1 \in 1 .. MaxVersion BY <1>2, MediaBounds DEF Ownership
<1>5. /\ row \in Ownership /\ row.status = status /\ row.lapsed = ownership[<<b, i>>].lapsed
      /\ row.version = ownership[<<b, i>>].version + 1
  BY <1>2, <1>4 DEF Ownership
<1> HIDE DEF row
<1> QED BY <1>1, <1>2, <1>3, <1>5 DEF Edited, MediaTypeOK

LEMMA IntendFits ==
  ASSUME MediaInv, NEW n \in CleanupItems, NEW b \in Boards, NEW i \in Images, Intend(n, b, i)
  PROVE  MediaTypeOK' /\ MediaFits'
<1> USE DEF MediaInv, ImagesAreAccounted
<1> DEFINE y == [board |-> b, image |-> i, life |-> object[i].life,
                 version |-> ownership[<<b, i>>].version, phase |-> "intent",
                 attempts |-> 0, due |-> FALSE]
<1>1. /\ cleanup' = [cleanup EXCEPT ![n] = y] /\ cleanup[n] = NoItem
      /\ UNCHANGED <<object, ownership, used, receipt, named, upload>>
      /\ HasRow(b, i)
  BY DEF Intend, Owns
<1>2. object[i] \in Object /\ ownership[<<b, i>>] \in Ownership BY <1>1, MediaFacts
<1>3. object[i].life \in 1 .. MaxLives BY <1>1, <1>2, MediaBounds DEF RowsFit, Object
<1>4. 0 \in 0 .. MaxFailures /\ 0 < MaxFailures BY MediaBounds
<1>5. y \in Item BY <1>2, <1>3, <1>4 DEF Item, Ownership, CleanupPhases
<1>6. /\ y.board = b /\ y.image = i /\ y.life = object[i].life /\ y.attempts = 0
      /\ y.version = ownership[<<b, i>>].version /\ y.phase = "intent"
  OBVIOUS
<1> HIDE DEF y
<1>7. ItemMoved(n, y) /\ MediaTypeOK' BY <1>1, <1>5 DEF ItemMoved, MediaTypeOK
<1>8. ItemFits(n)'
  <2>1. cleanup'[n] = y BY <1>7 DEF ItemMoved
  <2>2. HasRow(b, i)' BY <1>1 DEF HasRow
  <2>3. object[i].life \in Int /\ ownership[<<b, i>>].version \in Int BY <1>2, <1>3 DEF Ownership
  <2> QED BY <1>1, <1>4, <1>6, <2>1, <2>2, <2>3 DEF ItemFits
<1>9. MediaFits' BY <1>1, <1>7, <1>8, ItemAloneFits
<1> QED BY <1>7, <1>9

LEMMA QuarantineOwnershipFits ==
  ASSUME MediaInv, NEW n \in CleanupItems, QuarantineOwnership(n)
  PROVE  MediaTypeOK' /\ MediaFits'
<1> USE DEF MediaInv, ImagesAreAccounted
<1> DEFINE b == cleanup[n].board
           i == cleanup[n].image
<1>1. /\ cleanup[n] # NoItem /\ cleanup[n].phase = "intent"
      /\ HasRow(b, i) /\ Expected(n, Live) /\ ownership[<<b, i>>].lapsed
      /\ ownership[<<b, i>>].version = cleanup[n].version /\ cleanup[n].version < MaxVersion
      /\ ownership' = SetStatus(n, "quarantined")
      /\ cleanup' = Transition(n, "ownership_quarantined", cleanup[n].version + 1)
      /\ UNCHANGED <<object, used, receipt, named, upload>>
  BY DEF QuarantineOwnership, At, Expected, Live
<1> DEFINE row == ownership'[<<b, i>>]
           y == cleanup'[n]
<1>2. cleanup[n] \in Item BY <1>1, MediaFacts
<1>3. cleanup[n].version + 1 \in 1 .. MaxVersion BY <1>1, <1>2, MediaBounds DEF Item
<1> HIDE DEF b, i
<1>4. /\ Edited(b, i, row) /\ row.status = "quarantined" /\ row.lapsed
      /\ row.version = ownership[<<b, i>>].version + 1
  BY <1>1, SetStatusEdits DEF b, i, Live
<1>5. /\ ItemMoved(n, y) /\ cleanup' \in [CleanupItems -> Item \cup {NoItem}]
      /\ y.board = b /\ y.image = i /\ y.life = cleanup[n].life /\ y.attempts = cleanup[n].attempts
      /\ y.phase = "ownership_quarantined" /\ y.version = cleanup[n].version + 1
  BY <1>1, <1>3, TransitionMoves DEF b, i, CleanupPhases
<1> HIDE DEF row, y
<1>6. MediaFits'
  BY <1>1, <1>4, <1>5, StatusFits DEF b, i, Live, Final
<1> QED BY <1>1, <1>4, <1>5, <1>6 DEF MediaTypeOK, Edited

LEMMA RecheckReferencesFits ==
  ASSUME MediaInv, NEW n \in CleanupItems, RecheckReferences(n)
  PROVE  MediaTypeOK' /\ MediaFits'
<1> USE DEF MediaInv, ImagesAreAccounted
<1> DEFINE b == cleanup[n].board
           i == cleanup[n].image
           row == ownership'[<<b, i>>]
           y == cleanup'[n]
<1>1. /\ cleanup[n] # NoItem /\ cleanup[n].phase = "ownership_quarantined"
      /\ UNCHANGED <<object, used, receipt, named, upload>>
  BY DEF RecheckReferences, At
<1>2. cleanup[n] \in Item BY <1>1, MediaFacts
<1>3. CASE Referenced(n)
  <2>1. /\ HasRow(b, i) /\ Expected(n, Live)
        /\ ownership[<<b, i>>].version = cleanup[n].version /\ cleanup[n].version < MaxVersion
        /\ ownership' = SetStatus(n, "active")
        /\ cleanup' = Transition(n, "complete", cleanup[n].version + 1)
    BY <1>3 DEF RecheckReferences, Expected, Live
  <2>2. cleanup[n].version + 1 \in 1 .. MaxVersion BY <1>2, <2>1, MediaBounds DEF Item
  <2> HIDE DEF b, i
  <2>3. /\ Edited(b, i, row) /\ row.status = "active"
        /\ row.version = ownership[<<b, i>>].version + 1
    BY <1>1, <2>1, SetStatusEdits DEF b, i, Live
  <2>4. /\ ItemMoved(n, y) /\ cleanup' \in [CleanupItems -> Item \cup {NoItem}]
        /\ y.board = b /\ y.image = i /\ y.life = cleanup[n].life /\ y.attempts = cleanup[n].attempts
        /\ y.phase = "complete" /\ y.version = cleanup[n].version + 1
    BY <1>1, <2>1, <2>2, TransitionMoves DEF b, i, CleanupPhases, Final
  <2> HIDE DEF row, y
  <2>5. MediaFits' BY <1>1, <2>1, <2>3, <2>4, StatusFits DEF b, i, Live, Final
  <2> QED BY <1>1, <2>3, <2>4, <2>5 DEF MediaTypeOK, Edited
<1>4. CASE ~Referenced(n)
  <2>1. cleanup' = Transition(n, "refs_rechecked", cleanup[n].version) /\ UNCHANGED ownership
    BY <1>4 DEF RecheckReferences
  <2>2. cleanup[n].version \in 1 .. MaxVersion BY <1>2 DEF Item
  <2>3. /\ ItemMoved(n, y) /\ cleanup' \in [CleanupItems -> Item \cup {NoItem}]
        /\ y.board = b /\ y.image = i /\ y.life = cleanup[n].life /\ y.attempts = cleanup[n].attempts
        /\ y.phase = "refs_rechecked" /\ y.version = cleanup[n].version
    BY <1>1, <2>1, <2>2, TransitionMoves DEF CleanupPhases
  <2>4. ItemFits(n)'
    <3>1. ItemFits(n) BY <1>1 DEF ItemsFit
    <3>2. \A r \in named : cleanup[n].life = object[i].life => <<r.board, r.image>> # <<b, i>>
      <4>1. ASSUME NEW r \in named PROVE r.life = object[r.image].life
        <5>1. object[r.image] = [life |-> r.life, state |-> "active"] BY DEF ReferencedIsKept
        <5> QED BY <5>1
      <4> QED BY <1>4, <4>1 DEF Referenced
    <3> QED BY <1>1, <2>1, <2>3, <3>1, <3>2 DEF ItemFits, Final, HasRow
  <2>5. MediaFits' BY <1>1, <2>1, <2>3, <2>4, ItemAloneFits
  <2> QED BY <1>1, <2>1, <2>3, <2>5 DEF MediaTypeOK
<1> QED BY <1>3, <1>4

\* The receipts for the image expire, the ownership is released and the charge given back.
LEMMA ReleaseOwnershipFits ==
  ASSUME MediaInv, NEW n \in CleanupItems, ReleaseOwnership(n)
  PROVE  MediaTypeOK' /\ MediaFits'
<1> USE DEF MediaInv, ImagesAreAccounted
<1> DEFINE y == cleanup'[n]
<1>0. PICK b, i : b = cleanup[n].board /\ i = cleanup[n].image OBVIOUS
<1> DEFINE row == ownership'[<<b, i>>]
<1>1. /\ cleanup[n] # NoItem /\ cleanup[n].phase = "refs_rechecked"
      /\ HasRow(b, i) /\ cleanup[n].life = object[i].life /\ ownership[<<b, i>>].lapsed
      /\ ownership[<<b, i>>].version = cleanup[n].version /\ cleanup[n].version < MaxVersion
      /\ b \in Owners(i) \/ b \notin Boards
      /\ used[b] >= 1
      /\ ownership' = SetStatus(n, "released")
      /\ used' = [used EXCEPT ![b] = @ - 1]
      /\ cleanup' = Transition(n, "ownership_released", cleanup[n].version + 1)
      /\ receipt' = [bk \in DOMAIN receipt |->
                       IF bk[1] = b /\ receipt[bk] # NoRow /\ receipt[bk].image = i
                       THEN [receipt[bk] EXCEPT !.kind = "expired"] ELSE receipt[bk]]
      /\ UNCHANGED <<object, named, upload>>
  BY <1>0 DEF ReleaseOwnership, At, Expected, Owners
<1>2. cleanup[n] \in Item BY <1>1, MediaFacts
<1>3. b \in Boards /\ i \in Images /\ b \in Owners(i) BY <1>0, <1>1, <1>2 DEF Item
<1>4. cleanup[n].version + 1 \in 1 .. MaxVersion BY <1>1, <1>2, MediaBounds DEF Item
<1>5. /\ Edited(b, i, row) /\ row.status = "released" /\ row.lapsed
      /\ row.version = ownership[<<b, i>>].version + 1
  BY <1>0, <1>1, SetStatusEdits
<1>6. /\ ItemMoved(n, y) /\ cleanup' \in [CleanupItems -> Item \cup {NoItem}]
      /\ y.board = b /\ y.image = i /\ y.life = cleanup[n].life /\ y.attempts = cleanup[n].attempts
      /\ y.phase = "ownership_released" /\ y.version = cleanup[n].version + 1
  BY <1>0, <1>1, <1>4, TransitionMoves DEF CleanupPhases
<1>7. ItemFits(n) BY <1>1 DEF ItemsFit
<1>8. object[i].state = "active" /\ \A r \in named : <<r.board, r.image>> # <<b, i>>
  BY <1>0, <1>1, <1>3, <1>7 DEF ItemFits, RowsFit
<1> HIDE DEF row, y
<1>9. \A c \in Boards, j \in Images :
        /\ HasRow(c, j)' <=> HasRow(c, j)
        /\ <<c, j>> # <<b, i>> => ownership'[<<c, j>>] = ownership[<<c, j>>]
        /\ <<c, j>> # <<b, i>> => ((c \in Owners(j))' <=> c \in Owners(j))
  BY <1>1, <1>3, <1>5, MediaAssumption DEF Edited, HasRow, Owners
<1>10. ~(b \in Owners(i))' BY <1>5 DEF Owners, Edited, Live, row
<1>11. MediaTypeOK'
  <2>1. used' \in [Boards -> 0 .. Quota]
    <3>1. used[b] - 1 \in 0 .. Quota BY <1>1, <1>3, MediaBounds DEF MediaTypeOK
    <3> QED BY <1>1, <3>1 DEF MediaTypeOK
  <2>2. receipt' \in [Boards \X Keys -> Receipt \cup {NoRow}]
    BY <1>1, MediaFacts DEF Receipt
  <2> QED BY <1>1, <1>5, <1>6, <2>1, <2>2 DEF MediaTypeOK, Edited
<1>12. QuotaMatches'
  <2> SUFFICES ASSUME NEW c \in Boards
               PROVE  used'[c] = Cardinality({j \in Images : c \in Owners(j)}')
    BY DEF QuotaMatches
  <2> DEFINE S == {j \in Images : c \in Owners(j)}
  <2>1. used[c] = Cardinality(S) BY DEF QuotaMatches
  <2>2. IsFiniteSet(S) BY MediaAssumption, FS_Subset
  <2>3. CASE c = b
    <3>1. S' = S \ {i} BY <2>3, <1>3, <1>9, <1>10
    <3>2. i \in S BY <2>3, <1>3
    <3>3. used'[c] = used[c] - 1 BY <2>3, <1>1 DEF MediaTypeOK
    <3> HIDE DEF S
    <3>4. Cardinality(S \ {i}) = Cardinality(S) - 1 BY <2>2, <3>2, FS_RemoveElement
    <3> QED BY <2>1, <3>1, <3>3, <3>4 DEF S
  <2>4. CASE c # b
    <3>1. S' = S BY <2>4, <1>9
    <3>2. used'[c] = used[c] BY <2>4, <1>1 DEF MediaTypeOK
    <3> QED BY <2>1, <3>1, <3>2
  <2> QED BY <2>3, <2>4
<1>13. ReferencedIsKept'
  <2> SUFFICES ASSUME NEW r \in named
               PROVE  /\ object[r.image] = [life |-> r.life, state |-> "active"]
                      /\ (r.board \in Owners(r.image))'
    BY <1>1 DEF ReferencedIsKept
  <2>1. r.image \in Images /\ r.board \in Boards BY DEF MediaTypeOK, Reference
  <2>2. object[r.image] = [life |-> r.life, state |-> "active"] /\ r.board \in Owners(r.image)
    BY DEF ReferencedIsKept
  <2> QED BY <1>1, <1>8, <1>9, <2>1, <2>2
<1>14. ReceiptsHold'
  <2> SUFFICES ASSUME NEW bk \in Boards \X Keys, receipt'[bk] # NoRow, receipt'[bk].kind = "active"
               PROVE  /\ (bk[1] \in Owners(receipt[bk].image))'
                      /\ object[receipt'[bk].image].state = "active"
    BY <1>1, <1>11 DEF ReceiptsHold, MediaTypeOK
  <2>1. receipt'[bk] = receipt[bk] /\ ~(bk[1] = b /\ receipt[bk].image = i)
    <3>1. receipt'[bk] = IF bk[1] = b /\ receipt[bk] # NoRow /\ receipt[bk].image = i
                         THEN [receipt[bk] EXCEPT !.kind = "expired"] ELSE receipt[bk]
      BY <1>1, MediaFacts
    <3>2. CASE bk[1] = b /\ receipt[bk] # NoRow /\ receipt[bk].image = i
      <4>1. [receipt[bk] EXCEPT !.kind = "expired"].kind = "expired" BY <3>2, MediaFacts DEF Receipt
      <4> QED BY <3>1, <3>2, <4>1
    <3>3. CASE ~(bk[1] = b /\ receipt[bk] # NoRow /\ receipt[bk].image = i) BY <3>1, <3>3
    <3> QED BY <3>2, <3>3
  <2>2. receipt[bk].image \in Images /\ bk[1] \in Boards BY <2>1, MediaFacts DEF Receipt
  <2>3. bk[1] \in Owners(receipt[bk].image) /\ object[receipt[bk].image].state = "active"
    BY <2>1, MediaFacts DEF ReceiptsHold
  <2> QED BY <1>9, <2>1, <2>2, <2>3
<1>15. LeasedIsActive'
  <2> SUFFICES ASSUME NEW c \in Boards, NEW j \in Images, HasRow(c, j)', ~ownership'[<<c, j>>].lapsed
               PROVE  ownership'[<<c, j>>].status = "active"
    BY <1>5 DEF LeasedIsActive, HasRow, Edited
  <2>1. CASE <<c, j>> = <<b, i>> BY <2>1, <1>5 DEF row
  <2>2. CASE <<c, j>> # <<b, i>> BY <2>2, <1>9, MediaFacts DEF LeasedIsActive, HasRow
  <2> QED BY <2>1, <2>2
<1>16. QuarantineHasItem'
  <2> SUFFICES ASSUME NEW c \in Boards, NEW j \in Images, Owns(c, j, "quarantined")'
               PROVE  \E m \in CleanupItems :
                 /\ cleanup'[m] # NoItem
                 /\ cleanup'[m].board = c /\ cleanup'[m].image = j /\ cleanup'[m].life = object[j].life
                 /\ cleanup'[m].phase \in {"ownership_quarantined", "refs_rechecked", "quarantined"}
    BY <1>1 DEF QuarantineHasItem
  <2>1. <<c, j>> # <<b, i>> BY <1>5 DEF Owns, row
  <2>2. Owns(c, j, "quarantined") BY <2>1, <1>9 DEF Owns, HasRow
  <2>3. PICK m \in CleanupItems :
          /\ cleanup[m] # NoItem
          /\ cleanup[m].board = c /\ cleanup[m].image = j /\ cleanup[m].life = object[j].life
          /\ cleanup[m].phase \in {"ownership_quarantined", "refs_rechecked", "quarantined"}
    BY <2>2 DEF QuarantineHasItem
  <2>4. m # n BY <1>0, <2>1, <2>3
  <2> QED BY <1>6, <2>3, <2>4 DEF ItemMoved
<1>17. RowsFit'
  <2> SUFFICES ASSUME NEW c \in Boards, NEW j \in Images
               PROVE  /\ object[j].state = "none" => ~HasRow(c, j)'
                      /\ object[j].state # "none" => object[j].life >= 1
                      /\ (c \in Owners(j))' => object[j].state = "active"
    BY <1>1 DEF RowsFit
  <2> QED BY <1>8, <1>9 DEF RowsFit
<1>18. ItemsFit'
  <2> SUFFICES ASSUME NEW m \in CleanupItems, cleanup'[m] # NoItem PROVE ItemFits(m)'
    BY DEF ItemsFit
  <2>1. CASE m = n
    <3>1. cleanup'[m] = y BY <2>1 DEF y
    <3>2. ownership'[<<y.board, y.image>>] = row BY <1>6 DEF row
    <3>3. row.version \in Int /\ row.version = y.version BY <1>1, <1>5, <1>6 DEF Edited, Ownership
    <3>4. row # NoRow BY <1>5, MediaAssumption DEF Edited
    <3> QED BY <1>0, <1>1, <1>2, <1>3, <1>6, <1>7, <3>1, <3>2, <3>3, <3>4 DEF ItemFits, Final, HasRow
  <2>2. CASE m # n
    <3>1. cleanup'[m] = cleanup[m] BY <2>2, <1>6 DEF ItemMoved
    <3>2. ItemFits(m) /\ cleanup[m] \in Item BY <3>1, MediaFacts DEF ItemsFit
    <3>3. CASE <<cleanup[m].board, cleanup[m].image>> = <<b, i>>
      <4>1. ownership'[<<cleanup[m].board, cleanup[m].image>>] = row BY <3>3 DEF row
      <4>2. ownership[<<b, i>>].version \in Int /\ cleanup[m].version \in Int
        BY <1>1, <1>3, <3>2, MediaFacts DEF Ownership, Item
      <4>3. HasRow(b, i)' BY <1>1, <1>3, <1>9
      <4> QED BY <1>1, <1>5, <3>1, <3>2, <3>3, <4>1, <4>2, <4>3 DEF ItemFits, HasRow
    <3>4. CASE <<cleanup[m].board, cleanup[m].image>> # <<b, i>>
      <4>1. ownership'[<<cleanup[m].board, cleanup[m].image>>]
              = ownership[<<cleanup[m].board, cleanup[m].image>>]
        BY <3>2, <3>4, <1>9 DEF Item
      <4> QED BY <1>1, <3>1, <3>2, <4>1 DEF ItemFits, HasRow
    <3> QED BY <3>3, <3>4
  <2> QED BY <2>1, <2>2
<1> QED BY <1>11, <1>12, <1>13, <1>14, <1>15, <1>16, <1>17, <1>18 DEF MediaFits

\* The object of an image nobody owns goes into quarantine, or is deleted with the
\* released ownerships of it.
LEMMA ObjectGoes ==
  ASSUME MediaInv, NEW n \in CleanupItems, cleanup[n] # NoItem,
         NEW i \in Images, i = cleanup[n].image, Owners(i) = {}, object[i].state # "none",
         cleanup[n].life = object[i].life,
         cleanup[n].phase \in {"ownership_released", "object_quarantined"},
         ItemMoved(n, cleanup'[n]),
         cleanup'[n].board = cleanup[n].board, cleanup'[n].image = cleanup[n].image,
         cleanup'[n].life = cleanup[n].life, cleanup'[n].version = cleanup[n].version,
         cleanup'[n].attempts = cleanup[n].attempts,
         cleanup'[n].phase \in {"object_quarantined", "object_deleted"},
         object'[i].life = object[i].life,
         \A j \in Images \ {i} : object'[j] = object[j],
         MediaTypeOK',
         \/ object'[i].state = "quarantined" /\ UNCHANGED ownership
         \/ /\ object'[i].state = "none"
            /\ \A c \in Boards, j \in Images :
                 ownership'[<<c, j>>] = IF j = i THEN NoRow ELSE ownership[<<c, j>>],
         UNCHANGED <<used, receipt, named, upload>>
  PROVE  MediaTypeOK' /\ MediaFits'
<1> USE DEF MediaInv, ImagesAreAccounted
<1>1. \A c \in Boards : ~(c \in Owners(i))' BY DEF Owners, HasRow
<1>2. \A c \in Boards, j \in Images : j # i => ownership'[<<c, j>>] = ownership[<<c, j>>] OBVIOUS
<1>3. \A c \in Boards, j \in Images : (c \in Owners(j))' <=> c \in Owners(j)
  BY <1>1, <1>2 DEF Owners, HasRow
<1>4. \A c \in Boards, j \in Images : HasRow(c, j)' => HasRow(c, j) /\ ownership'[<<c, j>>] = ownership[<<c, j>>]
  BY DEF HasRow
<1>5. QuotaMatches' BY <1>3, ChargesKept
<1>6. ReferencedIsKept'
  <2> SUFFICES ASSUME NEW r \in named
               PROVE  /\ object'[r.image] = [life |-> r.life, state |-> "active"]
                      /\ (r.board \in Owners(r.image))'
    BY DEF ReferencedIsKept
  <2>1. r.image \in Images /\ r.board \in Boards BY DEF MediaTypeOK, Reference
  <2>2. object[r.image] = [life |-> r.life, state |-> "active"] /\ r.board \in Owners(r.image)
    BY DEF ReferencedIsKept
  <2>3. r.image # i BY <2>2
  <2> QED BY <1>3, <2>1, <2>2, <2>3
<1>7. ReceiptsHold'
  <2> SUFFICES ASSUME NEW bk \in Boards \X Keys, receipt[bk] # NoRow, receipt[bk].kind = "active"
               PROVE  /\ (bk[1] \in Owners(receipt[bk].image))'
                      /\ object'[receipt[bk].image].state = "active"
    BY DEF ReceiptsHold, MediaTypeOK
  <2>1. receipt[bk].image \in Images /\ bk[1] \in Boards BY MediaFacts DEF Receipt
  <2>2. bk[1] \in Owners(receipt[bk].image) /\ object[receipt[bk].image].state = "active"
    BY MediaFacts DEF ReceiptsHold
  <2>3. receipt[bk].image # i BY <2>2
  <2>4. (bk[1] \in Owners(receipt[bk].image))' BY <1>3, <2>1, <2>2
  <2> QED BY <2>1, <2>2, <2>3, <2>4
<1>8. LeasedIsActive'
  <2> SUFFICES ASSUME NEW c \in Boards, NEW j \in Images, HasRow(c, j)', ~ownership'[<<c, j>>].lapsed
               PROVE  ownership'[<<c, j>>].status = "active"
    BY DEF LeasedIsActive, HasRow, MediaTypeOK
  <2> QED BY <1>4, MediaFacts DEF LeasedIsActive, HasRow
<1>9. QuarantineHasItem'
  <2> SUFFICES ASSUME NEW c \in Boards, NEW j \in Images, Owns(c, j, "quarantined")'
               PROVE  \E m \in CleanupItems :
                 /\ cleanup'[m] # NoItem
                 /\ cleanup'[m].board = c /\ cleanup'[m].image = j /\ cleanup'[m].life = object'[j].life
                 /\ cleanup'[m].phase \in {"ownership_quarantined", "refs_rechecked", "quarantined"}
    BY DEF QuarantineHasItem
  <2>1. HasRow(c, j) /\ Owns(c, j, "quarantined") BY <1>4 DEF Owns
  <2>2. j # i BY <2>1 DEF Owns, Owners, Live
  <2>3. object'[j] = object[j] BY <2>2
  <2>4. PICK m \in CleanupItems :
          /\ cleanup[m] # NoItem
          /\ cleanup[m].board = c /\ cleanup[m].image = j /\ cleanup[m].life = object[j].life
          /\ cleanup[m].phase \in {"ownership_quarantined", "refs_rechecked", "quarantined"}
    BY <2>1 DEF QuarantineHasItem
  <2>5. m # n BY <2>2, <2>4
  <2> QED BY <2>3, <2>4, <2>5 DEF ItemMoved
<1>10. RowsFit'
  <2> SUFFICES ASSUME NEW c \in Boards, NEW j \in Images
               PROVE  /\ object'[j].state = "none" => ~HasRow(c, j)'
                      /\ object'[j].state # "none" => object'[j].life >= 1
                      /\ (c \in Owners(j))' => object'[j].state = "active"
    BY DEF RowsFit
  <2>1. CASE j = i BY <1>1, <2>1 DEF RowsFit, HasRow
  <2>2. CASE j # i
    <3>1. object'[j] = object[j] BY <2>2
    <3>2. /\ object[j].state = "none" => ~HasRow(c, j)
          /\ object[j].state # "none" => object[j].life >= 1
          /\ c \in Owners(j) => object[j].state = "active"
      BY DEF RowsFit
    <3>3. (HasRow(c, j)' => HasRow(c, j)) /\ ((c \in Owners(j))' <=> c \in Owners(j)) BY <1>3, <1>4
    <3> QED BY <3>1, <3>2, <3>3
  <2> QED BY <2>1, <2>2
<1>11. ItemsFit'
  <2> SUFFICES ASSUME NEW m \in CleanupItems, cleanup'[m] # NoItem PROVE ItemFits(m)'
    BY DEF ItemsFit
  <2>1. CASE m = n
    <3>1. ItemFits(n) /\ cleanup[n] \in Item BY MediaFacts DEF ItemsFit
    <3> QED BY <2>1, <3>1 DEF ItemFits, Final, HasRow
  <2>2. CASE m # n
    <3>1. cleanup'[m] = cleanup[m] BY <2>2 DEF ItemMoved
    <3>2. ItemFits(m) /\ cleanup[m] \in Item BY <3>1, MediaFacts DEF ItemsFit
    <3>3. cleanup[m].image \in Images /\ cleanup[m].board \in Boards BY <3>2 DEF Item
    <3>4. CASE cleanup[m].image = i BY <3>1, <3>2, <3>3, <3>4 DEF ItemFits, HasRow
    <3>5. CASE cleanup[m].image # i
      <4>1. object'[cleanup[m].image] = object[cleanup[m].image] BY <3>3, <3>5
      <4>2. ownership'[<<cleanup[m].board, cleanup[m].image>>]
              = ownership[<<cleanup[m].board, cleanup[m].image>>]
        BY <1>2, <3>3, <3>5
      <4> QED BY <3>1, <3>2, <4>1, <4>2 DEF ItemFits, HasRow
    <3> QED BY <3>4, <3>5
  <2> QED BY <2>1, <2>2
<1> QED BY <1>5, <1>6, <1>7, <1>8, <1>9, <1>10, <1>11 DEF MediaFits

\* The object of an image nobody owns goes into quarantine.
LEMMA QuarantineObjectFits ==
  ASSUME MediaInv, NEW n \in CleanupItems, QuarantineObject(n)
  PROVE  MediaTypeOK' /\ MediaFits'
<1> USE DEF MediaInv, ImagesAreAccounted
<1>0. PICK i : i = cleanup[n].image OBVIOUS
<1>1. /\ cleanup[n] # NoItem /\ cleanup[n].phase = "ownership_released"
      /\ object[i].state = "active" /\ object[i].life = cleanup[n].life
      /\ UNCHANGED <<ownership, used, receipt, named, upload>>
  BY <1>0 DEF QuarantineObject, At, ObjectIs
<1>2. cleanup[n] \in Item /\ i \in Images /\ ItemFits(n)
  BY <1>0, <1>1, MediaFacts DEF Item, ItemsFit
<1>3. cleanup[n].version \in 1 .. MaxVersion BY <1>2 DEF Item
<1>4. CASE Owners(i) # {}
  <2>1. cleanup' = Transition(n, "complete", cleanup[n].version) /\ UNCHANGED object
    BY <1>0, <1>4 DEF QuarantineObject
  <2>2. /\ ItemMoved(n, cleanup'[n]) /\ cleanup' \in [CleanupItems -> Item \cup {NoItem}]
        /\ cleanup'[n].board = cleanup[n].board /\ cleanup'[n].image = cleanup[n].image
        /\ cleanup'[n].life = cleanup[n].life /\ cleanup'[n].phase = "complete"
        /\ cleanup'[n].version = cleanup[n].version
    BY <1>1, <1>3, <2>1, TransitionMoves DEF CleanupPhases, Final
  <2>3. ItemFits(n)' BY <1>1, <1>2, <2>1, <2>2 DEF ItemFits, Final, HasRow
  <2>4. MediaFits' BY <1>1, <2>1, <2>2, <2>3, ItemAloneFits
  <2> QED BY <1>1, <2>1, <2>2, <2>4 DEF MediaTypeOK
<1>5. CASE Owners(i) = {}
  <2>1. /\ cleanup' = Transition(n, "object_quarantined", cleanup[n].version)
        /\ object' = [object EXCEPT ![i].state = "quarantined"]
    BY <1>0, <1>5 DEF QuarantineObject
  <2>2. /\ ItemMoved(n, cleanup'[n]) /\ cleanup' \in [CleanupItems -> Item \cup {NoItem}]
        /\ cleanup'[n].board = cleanup[n].board /\ cleanup'[n].image = cleanup[n].image
        /\ cleanup'[n].life = cleanup[n].life /\ cleanup'[n].phase = "object_quarantined"
        /\ cleanup'[n].version = cleanup[n].version /\ cleanup'[n].attempts = cleanup[n].attempts
    BY <1>1, <1>3, <2>1, TransitionMoves DEF CleanupPhases
  <2>3. /\ object' \in [Images -> Object]
        /\ object'[i].state = "quarantined" /\ object'[i].life = object[i].life
        /\ \A j \in Images \ {i} : object'[j] = object[j]
    <3>1. object[i] \in Object BY <1>2, MediaFacts
    <3> QED BY <1>2, <2>1, <3>1 DEF MediaTypeOK, Object
  <2>4. MediaTypeOK' BY <1>1, <2>2, <2>3 DEF MediaTypeOK
  <2> QED BY <1>0, <1>1, <1>2, <1>5, <2>2, <2>3, <2>4, ObjectGoes
<1> QED BY <1>4, <1>5

LEMMA DeleteObjectFits ==
  ASSUME MediaInv, NEW n \in CleanupItems, DeleteObject(n)
  PROVE  MediaTypeOK' /\ MediaFits'
<1> USE DEF MediaInv, ImagesAreAccounted
<1>0. PICK i : i = cleanup[n].image OBVIOUS
<1>1. /\ cleanup[n] # NoItem /\ cleanup[n].phase = "object_quarantined"
      /\ object[i].state = "quarantined" /\ object[i].life = cleanup[n].life
      /\ Owners(i) = {}
      /\ object' = [object EXCEPT ![i].state = "none"]
      /\ ownership' = [bi \in DOMAIN ownership |-> IF bi[2] = i THEN NoRow ELSE ownership[bi]]
      /\ cleanup' = Transition(n, "object_deleted", cleanup[n].version)
      /\ UNCHANGED <<used, receipt, named, upload>>
  BY <1>0 DEF DeleteObject, At, ObjectIs
<1>2. cleanup[n] \in Item /\ i \in Images /\ ItemFits(n)
  BY <1>0, <1>1, MediaFacts DEF Item, ItemsFit
<1>3. cleanup[n].version \in 1 .. MaxVersion BY <1>2 DEF Item
<1>4. /\ ItemMoved(n, cleanup'[n]) /\ cleanup' \in [CleanupItems -> Item \cup {NoItem}]
      /\ cleanup'[n].board = cleanup[n].board /\ cleanup'[n].image = cleanup[n].image
      /\ cleanup'[n].life = cleanup[n].life /\ cleanup'[n].phase = "object_deleted"
      /\ cleanup'[n].version = cleanup[n].version /\ cleanup'[n].attempts = cleanup[n].attempts
  BY <1>1, <1>3, TransitionMoves DEF CleanupPhases
<1>5. /\ object' \in [Images -> Object]
      /\ object'[i].state = "none" /\ object'[i].life = object[i].life
      /\ \A j \in Images \ {i} : object'[j] = object[j]
  <2>1. object[i] \in Object BY <1>2, MediaFacts
  <2> QED BY <1>1, <1>2, <2>1 DEF MediaTypeOK, Object
<1>6. /\ ownership' \in [Boards \X Images -> Ownership \cup {NoRow}]
      /\ \A c \in Boards, j \in Images :
           ownership'[<<c, j>>] = IF j = i THEN NoRow ELSE ownership[<<c, j>>]
  BY <1>1 DEF MediaTypeOK
<1>7. MediaTypeOK' BY <1>1, <1>4, <1>5, <1>6 DEF MediaTypeOK
<1> QED BY <1>0, <1>1, <1>2, <1>4, <1>5, <1>6, <1>7, ObjectGoes

LEMMA CompleteItemFits ==
  ASSUME MediaInv, NEW n \in CleanupItems, CompleteItem(n)
  PROVE  MediaTypeOK' /\ MediaFits'
<1> USE DEF MediaInv, ImagesAreAccounted
<1>1. /\ cleanup[n] # NoItem /\ cleanup[n].phase = "object_deleted"
      /\ cleanup' = Transition(n, "complete", cleanup[n].version)
      /\ UNCHANGED <<object, ownership, used, receipt, named, upload>>
  BY DEF CompleteItem, At
<1>2. cleanup[n] \in Item /\ ItemFits(n) BY <1>1, MediaFacts DEF ItemsFit
<1>3. cleanup[n].version \in 1 .. MaxVersion BY <1>2 DEF Item
<1>4. /\ ItemMoved(n, cleanup'[n]) /\ cleanup' \in [CleanupItems -> Item \cup {NoItem}]
      /\ cleanup'[n].board = cleanup[n].board /\ cleanup'[n].image = cleanup[n].image
      /\ cleanup'[n].life = cleanup[n].life /\ cleanup'[n].phase = "complete"
      /\ cleanup'[n].version = cleanup[n].version
  BY <1>1, <1>3, TransitionMoves DEF CleanupPhases, Final
<1>5. ItemFits(n)' BY <1>1, <1>2, <1>4 DEF ItemFits, Final, HasRow
<1>6. MediaFits' BY <1>1, <1>4, <1>5, ItemAloneFits
<1> QED BY <1>1, <1>4, <1>6 DEF MediaTypeOK

LEMMA DueFits ==
  ASSUME MediaInv, NEW n \in CleanupItems, Due(n)
  PROVE  MediaTypeOK' /\ MediaFits'
<1> USE DEF MediaInv, ImagesAreAccounted
<1>1. /\ cleanup[n] # NoItem /\ cleanup' = [cleanup EXCEPT ![n].due = TRUE]
      /\ UNCHANGED <<object, ownership, used, receipt, named, upload>>
  BY DEF Due, At
<1>2. cleanup[n] \in Item /\ ItemFits(n) BY <1>1, MediaFacts DEF ItemsFit
<1> DEFINE y == [cleanup[n] EXCEPT !.due = TRUE]
<1>3. /\ y \in Item /\ y.board = cleanup[n].board /\ y.image = cleanup[n].image
      /\ y.life = cleanup[n].life /\ y.phase = cleanup[n].phase
      /\ y.version = cleanup[n].version /\ y.attempts = cleanup[n].attempts
  BY <1>2 DEF Item
<1>4. cleanup' = [cleanup EXCEPT ![n] = y] BY <1>1, <1>2 DEF MediaTypeOK
<1> HIDE DEF y
<1>5. ItemMoved(n, y) /\ MediaTypeOK' BY <1>1, <1>3, <1>4 DEF ItemMoved, MediaTypeOK
<1>6. ItemFits(n)' BY <1>1, <1>2, <1>3, <1>5 DEF ItemFits, HasRow, ItemMoved
<1>7. MediaFits' BY <1>1, <1>3, <1>5, <1>6, ItemAloneFits
<1> QED BY <1>5, <1>7

LEMMA FailFits ==
  ASSUME MediaInv, NEW n \in CleanupItems, Fail(n)
  PROVE  MediaTypeOK' /\ MediaFits'
<1> USE DEF MediaInv, ImagesAreAccounted
<1>1. /\ cleanup[n] # NoItem /\ cleanup[n].phase \notin Final
      /\ UNCHANGED <<object, ownership, used, receipt, named, upload>>
  BY DEF Fail
<1>2. cleanup[n] \in Item /\ ItemFits(n) BY <1>1, MediaFacts DEF ItemsFit
<1> DEFINE attempts == cleanup[n].attempts + 1
           phase == IF attempts >= MaxFailures THEN "quarantined" ELSE cleanup[n].phase
           y == [cleanup[n] EXCEPT !.attempts = attempts, !.phase = phase]
<1>3. attempts \in 0 .. MaxFailures /\ (phase # "quarantined" => attempts < MaxFailures)
  <2>1. cleanup[n].attempts \in Nat /\ cleanup[n].attempts < MaxFailures
    BY <1>1, <1>2, MediaBounds DEF ItemFits, Item
  <2> QED BY <2>1, MediaBounds
<1>4. phase \in CleanupPhases /\ phase \in {"quarantined", cleanup[n].phase}
  BY <1>2 DEF Item, CleanupPhases, Final
<1>5. cleanup' = [cleanup EXCEPT ![n] = y] BY <1>2 DEF Fail, MediaTypeOK
<1> HIDE DEF attempts, phase
<1>6. /\ y \in Item /\ y.board = cleanup[n].board /\ y.image = cleanup[n].image
      /\ y.life = cleanup[n].life /\ y.phase = phase
      /\ y.version = cleanup[n].version /\ y.attempts = attempts
  BY <1>2, <1>3, <1>4 DEF Item
<1> HIDE DEF y
<1>7. ItemMoved(n, y) /\ MediaTypeOK' BY <1>1, <1>5, <1>6 DEF ItemMoved, MediaTypeOK
<1>8. ItemFits(n)'
  BY <1>1, <1>2, <1>3, <1>4, <1>6, <1>7 DEF ItemFits, HasRow, ItemMoved, Final
<1>9. MediaFits' BY <1>1, <1>4, <1>6, <1>7, <1>8, ItemAloneFits
<1> QED BY <1>7, <1>9

LEMMA UploadFits ==
  ASSUME MediaInv, NEW u \in Uploads, Decode(u) \/ Commit(u)
  PROVE  MediaTypeOK' /\ MediaFits'
<1> USE DEF MediaInv, ImagesAreAccounted
<1>1. CASE Decode(u)
  <2>1. upload[u] \in Request BY <1>1 DEF Decode, In
  <2>2. [upload[u] EXCEPT !.step = "decoded"] \in Request BY <2>1 DEF Request
  <2>3. CASE upload' = [upload EXCEPT ![u].step = "decoded"]
    <3>1. upload' \in [Uploads -> Request \cup Response] BY <2>1, <2>2, <2>3 DEF MediaTypeOK
    <3> QED BY <1>1, <3>1, UnchangedFits DEF Decode
  <2>4. CASE upload' = Respond(u, "undecodable")
    <3>1. upload' \in [Uploads -> Request \cup Response] BY <2>4, RespondTyped
    <3> QED BY <1>1, <3>1, UnchangedFits DEF Decode
  <2> QED BY <1>1, <2>3, <2>4 DEF Decode
<1>2. CASE Commit(u)
  <2> DEFINE b == upload[u].board
             k == upload[u].key
             i == upload[u].image
  <2>1. b \in Boards /\ k \in Keys /\ i \in Images BY <1>2 DEF Commit, In, Request
  <2>2. \/ receipt[<<b, k>>] # NoRow /\ Replay(u, b, k, i)
        \/ /\ upload' = Respond(u, "row_integrity")
           /\ UNCHANGED <<object, ownership, used, receipt, named, cleanup>>
        \/ ~Unusable(b, i) /\ Store(u, b, k, i)
    BY <1>2 DEF Commit
  <2> HIDE DEF b, k, i
  <2>3. CASE upload' = Respond(u, "row_integrity")
             /\ UNCHANGED <<object, ownership, used, receipt, named, cleanup>>
    BY <2>3, RespondTyped, UnchangedFits
  <2> QED BY <2>1, <2>2, <2>3, ReplayFits, StoreFits
<1> QED BY <1>1, <1>2

LEMMA ReceiveFits ==
  ASSUME MediaInv, NEW u \in Uploads, NEW b \in Boards, NEW k \in Keys, NEW i \in Images,
         Receive(u, b, k, i)
  PROVE  MediaTypeOK' /\ MediaFits'
<1> USE DEF MediaInv, ImagesAreAccounted
<1>1. CASE receipt[<<b, k>>] # NoRow BY <1>1, ReplayFits DEF Receive
<1>2. CASE receipt[<<b, k>>] = NoRow
  <2>1. /\ \/ upload' = [upload EXCEPT ![u] = [board |-> b, key |-> k, image |-> i,
                                               step |-> "decoding"]]
           \/ upload' = Respond(u, "limited")
        /\ UNCHANGED <<object, ownership, used, receipt, named, cleanup>>
    BY <1>2 DEF Receive
  <2>2. [board |-> b, key |-> k, image |-> i, step |-> "decoding"] \in Request BY DEF Request
  <2>3. upload' \in [Uploads -> Request \cup Response] BY <2>1, <2>2, RespondTyped DEF MediaTypeOK
  <2> QED BY <2>1, <2>3, UnchangedFits
<1> QED BY <1>1, <1>2

LEMMA MediaInvStarts == MediaInit => MediaInv
<1> SUFFICES ASSUME MediaInit PROVE MediaInv OBVIOUS
<1> USE DEF MediaInit
<1>1. MediaTypeOK
  <2>1. 0 \in 0 .. MaxLives /\ 0 \in 0 .. Quota BY MediaBounds
  <2>2. [life |-> 0, state |-> "none"] \in Object BY <2>1 DEF Object
  <2>3. [answer |-> "none"] \in Response BY DEF Response
  <2> QED BY <2>1, <2>2, <2>3 DEF MediaTypeOK
<1>2. \A b \in Boards, i \in Images : ~HasRow(b, i) /\ b \notin Owners(i) BY DEF HasRow, Owners
<1>3. QuotaMatches
  <2> SUFFICES ASSUME NEW b \in Boards PROVE used[b] = Cardinality({i \in Images : b \in Owners(i)})
    BY DEF QuotaMatches
  <2>1. {i \in Images : b \in Owners(i)} = {} BY <1>2
  <2> QED BY <2>1, FS_EmptySet
<1>4. ReferencedIsKept /\ ReceiptsHold /\ LeasedIsActive
  BY DEF ReferencedIsKept, ReceiptsHold, LeasedIsActive
<1>5. QuarantineHasItem BY <1>2 DEF QuarantineHasItem, Owns
<1>6. RowsFit BY <1>2 DEF RowsFit
<1>7. ItemsFit BY DEF ItemsFit
<1> QED BY <1>1, <1>3, <1>4, <1>5, <1>6, <1>7 DEF MediaInv, ImagesAreAccounted

LEMMA MediaInvKept == MediaInv /\ [MediaNext]_mediaVars => MediaInv'
<1> SUFFICES ASSUME MediaInv, [MediaNext]_mediaVars PROVE MediaTypeOK' /\ MediaFits'
  BY DEF MediaInv, MediaFits, ImagesAreAccounted
<1>1. CASE UNCHANGED mediaVars
  BY <1>1, UnchangedFits DEF mediaVars, MediaInv, ImagesAreAccounted, MediaTypeOK
<1>2. ASSUME NEW u \in Uploads, NEW b \in Boards, NEW k \in Keys, NEW i \in Images, Receive(u, b, k, i)
      PROVE  MediaTypeOK' /\ MediaFits'
  BY <1>2, ReceiveFits
<1>3. ASSUME NEW u \in Uploads, Decode(u) \/ Commit(u) PROVE MediaTypeOK' /\ MediaFits'
  BY <1>3, UploadFits
<1>4. ASSUME NEW b \in Boards, NEW i \in Images, Lease(b, i) \/ Mutate(b, i)
      PROVE  MediaTypeOK' /\ MediaFits'
  BY <1>4, LapseFits, MutateFits
<1>5. ASSUME NEW r \in named, Prune(r) PROVE MediaTypeOK' /\ MediaFits'
  BY <1>5, PruneFits
<1>6. ASSUME NEW n \in CleanupItems, NEW b \in Boards, NEW i \in Images, Intend(n, b, i)
      PROVE  MediaTypeOK' /\ MediaFits'
  BY <1>6, IntendFits
<1>7. ASSUME NEW n \in CleanupItems, AdvanceItem(n) \/ Due(n) \/ Fail(n)
      PROVE  MediaTypeOK' /\ MediaFits'
  BY <1>7, QuarantineOwnershipFits, RecheckReferencesFits, ReleaseOwnershipFits, QuarantineObjectFits,
     DeleteObjectFits, CompleteItemFits, DueFits, FailFits DEF AdvanceItem
<1> QED BY <1>1, <1>2, <1>3, <1>4, <1>5, <1>6, <1>7 DEF MediaNext

\* The quota of a board is what it owns, an image a stored revision names is never lost,
\* a retried upload is told the truth and no ownership stays in quarantine forgotten, for
\* any number of boards, images, keys, uploads and cleanup items (MediaIngestionService,
\* MediaCleanupService).
THEOREM ImagesAlwaysAccounted == MediaSpec => []ImagesAreAccounted
<1>1. MediaInv => ImagesAreAccounted BY DEF MediaInv
<1> QED BY <1>1, MediaInvStarts, MediaInvKept, PTL DEF MediaSpec
===============================================================================
