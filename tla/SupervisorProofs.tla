-------------------------- MODULE SupervisorProofs --------------------------
(***************************************************************************)
(* Proofs about Supervisor for any replicas, files and services: however   *)
(* their migrators race, die and are started again, the ledger tells the   *)
(* schema, and services run on the whole of it.                            *)
(*                                                                         *)
(* A migrator only trusts the list it has read once, which may be old by   *)
(* the time it uses it.  The inductive invariant says why that is enough:  *)
(* what was seen stays applied, the open transaction that has changed the  *)
(* schema is the only one, and once its record is in nobody else can have  *)
(* recorded the same file.                                                 *)
(***************************************************************************)
EXTENDS Supervisor, TLAPS

\* A migrator in the middle of a file holds the lock of the one transaction.
ChangesAreLocked ==
    \A m \in Migrator :
        run[m].at \in {"changed", "recorded"} => holder = m /\ run[m].next \in Files

\* What a migrator has seen or passed has been applied, by whomever.
PassedIsApplied ==
    \A m \in Migrator :
        run[m].seen \subseteq ledger /\ 1..run[m].next - 1 \subseteq ledger

\* A file that is recorded in an open transaction is in no committed one.
RecordIsNew ==
    \A m \in Migrator : run[m].at = "recorded" => run[m].next \notin ledger

DoneIsAll == \A m \in Migrator : run[m].at = "done" => run[m].next = NumFiles + 1

MInv ==
    /\ MigratorTypeOK
    /\ LedgerIsSchema
    /\ ChangesAreLocked
    /\ PassedIsApplied
    /\ RecordIsNew
    /\ DoneIsAll

\* Outside of migrating there is no migrator, and no transaction of it.
OnlyMigratingRuns == \A r \in Migrator : main[r] # "migrating" => run[r] = Off

IInv == TypeOK /\ MInv /\ OnlyMigratingRuns /\ ServicesHaveSchema

-----------------------------------------------------------------------------
(* Steps of a migrator *)

\* Initially nothing is applied and nobody migrates.
LEMMA InitMInv == MigratorInit => MInv
BY FilesAssumption, MigratorAssumption
DEF MigratorInit, MInv, MigratorTypeOK, LedgerIsSchema, ChangesAreLocked,
    PassedIsApplied, RecordIsNew, DoneIsAll, Off, At, Files

\* A step that applies nothing and leaves migrator m in a state that keeps the
\* invariant, without touching the lock of another one's transaction.
LEMMA LocalStepMInv ==
  ASSUME MInv, NEW m \in Migrator,
         run' \in [Migrator -> [at : At, seen : SUBSET Files, next : 1..NumFiles + 1]],
         \A r \in Migrator \ {m} : run'[r] = run[r],
         UNCHANGED <<ledger, schema>>,
         run'[m].seen \subseteq ledger,
         1..run'[m].next - 1 \subseteq ledger,
         run'[m].at \in {"changed", "recorded"} => holder' = m /\ run'[m].next \in Files,
         run'[m].at = "recorded" => run'[m].next \notin ledger,
         run'[m].at = "done" => run'[m].next = NumFiles + 1,
         holder' \in Migrator \cup {NoMigrator},
         holder \in Migrator \ {m} => holder' = holder
  PROVE  MInv'
<1> USE MigratorAssumption DEF MInv, MigratorTypeOK
<1>1. MigratorTypeOK' /\ LedgerIsSchema'
  BY DEF LedgerIsSchema, Files
<1>2. ChangesAreLocked'
  BY DEF ChangesAreLocked
<1>3. PassedIsApplied'
  BY DEF PassedIsApplied
<1>4. RecordIsNew' /\ DoneIsAll'
  BY DEF RecordIsNew, DoneIsAll
<1> QED BY <1>1, <1>2, <1>3, <1>4

\* A migrator starts again, or throws and gives up its transaction.
LEMMA ResetMInv ==
  ASSUME MInv, NEW m \in Migrator, NEW at \in {"off", "listing", "failed"},
         run' = [run EXCEPT ![m] = [Off EXCEPT !.at = at]],
         holder' = Unlocked(m) \/ (holder' = holder /\ run[m].at \notin {"changed", "recorded"}),
         UNCHANGED <<ledger, schema>>
  PROVE  MInv'
<1>1. run'[m] = [at |-> at, seen |-> {}, next |-> 1]
  BY DEF MInv, MigratorTypeOK, Off
<1>2. run' \in [Migrator -> [at : At, seen : SUBSET Files, next : 1..NumFiles + 1]]
  BY FilesAssumption DEF MInv, MigratorTypeOK, Off, At
<1>3. holder' \in Migrator \cup {NoMigrator} /\ (holder \in Migrator \ {m} => holder' = holder)
  BY MigratorAssumption DEF MInv, MigratorTypeOK, Unlocked
<1>4. \A r \in Migrator \ {m} : run'[r] = run[r]
  BY DEF MInv, MigratorTypeOK
<1> QED BY <1>1, <1>2, <1>3, <1>4, LocalStepMInv

\* A migrator reads, skips, changes or records within its own transaction.
LEMMA WorkMInv ==
  ASSUME MInv, NEW m \in Migrator,
         List(m) \/ Skip(m) \/ ChangeSchema(m) \/ Record(m) \/ Finish(m)
  PROVE  MInv'
<1>0. /\ run \in [Migrator -> [at : At, seen : SUBSET Files, next : 1..NumFiles + 1]]
      /\ ledger \subseteq Files /\ holder \in Migrator \cup {NoMigrator}
      /\ run[m].seen \subseteq ledger /\ 1..run[m].next - 1 \subseteq ledger
      /\ run[m].at \in {"changed", "recorded"} => holder = m /\ run[m].next \in Files
      /\ NumFiles \in Nat
  BY FilesAssumption DEF MInv, MigratorTypeOK, PassedIsApplied, ChangesAreLocked
<1>1. CASE List(m)
  <2>1. run'[m] = [run[m] EXCEPT !.at = "file", !.seen = ledger]
    BY <1>0, <1>1 DEF List
  <2> QED BY <1>0, <1>1, <2>1, LocalStepMInv DEF List, At
<1>2. CASE Skip(m)
  <2>1. run[m].next \in Files /\ run[m].next \in ledger
    BY <1>0, <1>2 DEF Skip, HasFile
  <2>2. 1..run[m].next \subseteq ledger
    BY <2>1 DEF MInv, LedgerIsSchema
  <2>3. run'[m] = [run[m] EXCEPT !.next = @ + 1] /\ run[m].at = "file"
    BY <1>0, <1>2 DEF Skip, HasFile
  <2>4. run'[m].next \in 1..NumFiles + 1 /\ 1..run'[m].next - 1 \subseteq ledger
    BY <1>0, <2>1, <2>2, <2>3 DEF Files
  <2> QED BY <1>0, <1>2, <2>3, <2>4, LocalStepMInv DEF Skip, At
<1>3. CASE ChangeSchema(m)
  <2>1. CASE SqlSucceeds(run[m].next)
    <3>1. run'[m] = [run[m] EXCEPT !.at = "changed"] /\ run[m].next \in Files
      BY <1>0, <1>3, <2>1 DEF ChangeSchema, HasFile
    <3>2. holder = NoMigrator /\ holder' = m
      BY <1>3, <2>1 DEF ChangeSchema
    <3> QED BY <1>0, <1>3, <2>1, <3>1, <3>2, MigratorAssumption, LocalStepMInv
            DEF ChangeSchema, At
  <2>2. CASE ~SqlSucceeds(run[m].next)
    BY <1>3, <2>2, ResetMInv DEF ChangeSchema, Abandon
  <2> QED BY <2>1, <2>2
<1>4. CASE Record(m)
  <2>1. CASE run[m].next \in ledger
    BY <1>4, <2>1, ResetMInv DEF Record, Abandon
  <2>2. CASE run[m].next \notin ledger
    <3>1. run'[m] = [run[m] EXCEPT !.at = "recorded"] /\ holder' = holder
      BY <1>0, <1>4, <2>2 DEF Record
    <3> QED BY <1>0, <1>4, <2>2, <3>1, LocalStepMInv DEF Record, At
  <2> QED BY <2>1, <2>2
<1>5. CASE Finish(m)
  <2>1. run'[m] = [run[m] EXCEPT !.at = "done"] /\ run[m].next = NumFiles + 1
    BY <1>0, <1>5 DEF Finish
  <2> QED BY <1>0, <1>5, <2>1, LocalStepMInv DEF Finish, At
<1> QED BY <1>1, <1>2, <1>3, <1>4, <1>5

\* The committed file is new to the ledger and comes after its predecessors.
LEMMA CommitMInv ==
  ASSUME MInv, NEW m \in Migrator, Commit(m) \/ CommitUnanswered(m)
  PROVE  MInv'
<1> USE FilesAssumption, MigratorAssumption DEF MInv
<1> DEFINE f == run[m].next
<1>1. /\ run[m].at = "recorded" /\ f \in Files /\ f \notin ledger
      /\ holder = m /\ 1..f - 1 \subseteq ledger
  BY DEF Commit, CommitUnanswered, ChangesAreLocked, RecordIsNew, PassedIsApplied
<1>2. /\ ledger' = ledger \cup {f}
      /\ schema' = [schema EXCEPT ![f] = @ + 1]
      /\ holder' = NoMigrator
  BY <1>1 DEF Commit, CommitUnanswered, Committed, Unlocked
<1>3. \E s \in SUBSET Files, n \in 1..NumFiles + 1, at \in {"file", "failed"} :
         /\ run' = [run EXCEPT ![m] = [at |-> at, seen |-> s, next |-> n]]
         /\ s \subseteq ledger /\ n \in {1, f + 1}
  <2>1. CASE Commit(m)
    <3>1. run' = [run EXCEPT ![m] = [at |-> "file", seen |-> run[m].seen, next |-> f + 1]]
      BY <2>1 DEF Commit, MigratorTypeOK
    <3>2. run[m].seen \in SUBSET Files /\ run[m].seen \subseteq ledger
      BY DEF MigratorTypeOK, PassedIsApplied
    <3>3. f + 1 \in 1..NumFiles + 1
      BY <1>1 DEF Files
    <3> QED BY <3>1, <3>2, <3>3
  <2>2. CASE CommitUnanswered(m)
    <3>1. [Off EXCEPT !.at = "failed"] = [at |-> "failed", seen |-> {}, next |-> 1]
      BY DEF Off
    <3>2. run' = [run EXCEPT ![m] = [at |-> "failed", seen |-> {}, next |-> 1]]
      BY <2>2, <3>1 DEF CommitUnanswered
    <3>3. 1 \in 1..NumFiles + 1 /\ {} \in SUBSET Files
      OBVIOUS
    <3>4. {} \subseteq ledger /\ 1 \in {1, f + 1}
      OBVIOUS
    <3> HIDE DEF f, MInv
    <3> WITNESS {} \in SUBSET Files, 1 \in 1..NumFiles + 1, "failed" \in {"file", "failed"}
    <3> QED BY <3>2, <3>4
  <2> QED BY <2>1, <2>2
<1>4. PICK s \in SUBSET Files, n \in 1..NumFiles + 1, at \in {"file", "failed"} :
         /\ run' = [run EXCEPT ![m] = [at |-> at, seen |-> s, next |-> n]]
         /\ s \subseteq ledger /\ n \in {1, f + 1}
  BY <1>3
<1>5. /\ run'[m] = [at |-> at, seen |-> s, next |-> n]
      /\ \A r \in Migrator \ {m} : run'[r] = run[r]
      /\ run' \in [Migrator -> [at : At, seen : SUBSET Files, next : 1..NumFiles + 1]]
  BY <1>4 DEF MigratorTypeOK, At
<1>6. f \in Nat /\ ledger \subseteq Files
  BY <1>1 DEF MigratorTypeOK, Files
<1>7. 1..f \subseteq ledger' /\ 1..n - 1 \subseteq ledger'
  BY <1>1, <1>2, <1>4, <1>6
<1> HIDE DEF f
<1>8. MigratorTypeOK'
  <2>1. ledger' \in SUBSET Files /\ holder' \in Migrator \cup {NoMigrator}
    BY <1>1, <1>2, <1>6
  <2>2. schema' \in [Files -> Nat]
    BY <1>1, <1>2 DEF MigratorTypeOK
  <2> QED BY <1>5, <2>1, <2>2 DEF MigratorTypeOK
<1>9. LedgerIsSchema'
  <2>1. \A g \in Files : schema'[g] = IF g \in ledger' THEN 1 ELSE 0
    BY <1>1, <1>2, <1>6 DEF MigratorTypeOK, LedgerIsSchema
  <2>2. \A g \in ledger' : 1..g \subseteq ledger'
    BY <1>2, <1>7 DEF LedgerIsSchema
  <2> QED BY <2>1, <2>2 DEF LedgerIsSchema
<1>10. \A r \in Migrator \ {m} : run[r].at \notin {"changed", "recorded"}
  BY <1>1 DEF ChangesAreLocked
<1>11. ChangesAreLocked' /\ RecordIsNew' /\ DoneIsAll'
  BY <1>5, <1>10 DEF ChangesAreLocked, RecordIsNew, DoneIsAll
<1>12. PassedIsApplied'
  BY <1>2, <1>4, <1>5, <1>7 DEF PassedIsApplied
<1> QED BY <1>8, <1>9, <1>11, <1>12

\* Every step that Supervisor takes of a migrator.
LEMMA MigratorKeepsMInv ==
  ASSUME MInv, NEW m \in Migrator, MigratorStep(m) \/ MigratorFault(m)
  PROVE  MInv'
BY WorkMInv, CommitMInv, ResetMInv
DEF MigratorStep, MigratorFault, StatementFails, Abandon

-----------------------------------------------------------------------------
(* Steps of the supervisor *)

\* Applied files stay applied, so that services keep their schema.
LEMMA LedgerGrows ==
  ASSUME MInv, MInv', NEW m \in Migrator, MigratorStep(m) \/ MigratorFault(m)
  PROVE  ledger = Files => ledger' = Files
BY DEF MInv, MigratorTypeOK, MigratorStep, MigratorFault, List, Skip, ChangeSchema,
       Record, Commit, Finish, CommitUnanswered, StatementFails, Committed, Abandon

\* Another replica's part of the migrators' state is not written.
LEMMA OthersKeepTheirRun ==
  ASSUME MInv, NEW m \in Migrator, MigratorStep(m) \/ MigratorFault(m)
  PROVE  \A r \in Migrator \ {m} : run'[r] = run[r]
BY DEF MInv, MigratorTypeOK, MigratorStep, MigratorFault, List, Skip, ChangeSchema,
       Record, Commit, Finish, CommitUnanswered, StatementFails, Abandon

\* A migrator that has finished has seen to every file, itself or another one.
LEMMA DoneHasSchema ==
  ASSUME MInv, NEW m \in Migrator, run[m].at = "done"
  PROVE  ledger = Files
<1>1. run[m].next = NumFiles + 1 /\ 1..run[m].next - 1 \subseteq ledger /\ ledger \subseteq Files
  BY DEF MInv, MigratorTypeOK, DoneIsAll, PassedIsApplied
<1>2. run[m].next - 1 = NumFiles
  BY <1>1, FilesAssumption
<1> QED BY <1>1, <1>2 DEF Files

\* The exit code and the stop flag that a call of shutdown leaves have their types.
LEMMA ShutdownTypes ==
  ASSUME TypeOK, NEW r \in Migrator, NEW c \in {0, 1}, Shutdown(r, c)
  PROVE  stopping' \in [Migrator -> BOOLEAN] /\ code' \in [Migrator -> {0, 1}]
<1>1. CASE stopping[r]
  BY <1>1 DEF Shutdown, TypeOK
<1>2. CASE ~stopping[r]
  BY <1>2 DEF Shutdown, TypeOK
<1> QED BY <1>1, <1>2

\* Nothing has been applied and no container is up.
LEMMA InitIInv == Init => IInv
<1> SUFFICES ASSUME Init PROVE IInv
  OBVIOUS
<1>1. MInv
  BY InitMInv DEF Init
<1>2. (CHOOSE c \in RestartCodes : TRUE) \in {0, 1}
  BY RestartAssumption DEF RestartAssumption
<1>3. TypeOK
  BY <1>1, <1>2 DEF Init, TypeOK, MInv
<1>4. OnlyMigratingRuns /\ ServicesHaveSchema
  BY DEF Init, MigratorInit, OnlyMigratingRuns, ServicesHaveSchema
<1> QED BY <1>1, <1>3, <1>4 DEF IInv

\* A supervisor that starts, or stops, or goes on, leaves the migrators' state
\* alone or gives up its own part of it.
LEMMA ResetIInv ==
  ASSUME IInv, NEW r \in Migrator, NEW at \in {"off", "listing"},
         run' = [run EXCEPT ![r] = [Off EXCEPT !.at = at]],
         holder' = Unlocked(r) \/ (holder' = holder /\ run[r].at \notin {"changed", "recorded"}),
         UNCHANGED <<ledger, schema>>,
         \A q \in Migrator \ {r} : main'[q] = main[q],
         at = "listing" => main'[r] = "migrating",
         \A q \in Migrator : children'[q] # {} => children[q] # {} \/ ledger = Files
  PROVE  MInv' /\ OnlyMigratingRuns' /\ ServicesHaveSchema'
<1>1. MInv'
  BY ResetMInv DEF IInv
<1>2. OnlyMigratingRuns'
  BY DEF IInv, MInv, MigratorTypeOK, OnlyMigratingRuns, Off
<1>3. ServicesHaveSchema'
  BY DEF IInv, ServicesHaveSchema
<1> QED BY <1>1, <1>2, <1>3

\* A step that only concerns the supervisors' own state.
LEMMA SupervisorOnlyIInv ==
  ASSUME IInv, UNCHANGED migratorVars,
         \A q \in Migrator : main'[q] = "migrating" <=> main[q] = "migrating",
         \A q \in Migrator : children'[q] # {} => children[q] # {}
  PROVE  MInv' /\ OnlyMigratingRuns' /\ ServicesHaveSchema'
<1> USE DEF IInv, migratorVars
<1>1. MInv'
  BY DEF MInv, MigratorTypeOK, LedgerIsSchema, ChangesAreLocked, PassedIsApplied,
         RecordIsNew, DoneIsAll
<1>2. OnlyMigratingRuns'
  BY DEF OnlyMigratingRuns
<1>3. ServicesHaveSchema'
  BY DEF ServicesHaveSchema
<1> QED BY <1>1, <1>2, <1>3

\* The end of a container rolls back what its migrator has open.
LEMMA ExitIInv ==
  ASSUME IInv, NEW r \in Migrator, NEW c \in {0, 1}, Exit(r, c)
  PROVE  IInv'
<1>1. MInv' /\ OnlyMigratingRuns' /\ ServicesHaveSchema'
  BY ResetIInv DEF Exit, Abandon, IInv, TypeOK
<1>2. TypeOK'
  BY <1>1 DEF Exit, IInv, MInv, TypeOK
<1> QED BY <1>1, <1>2 DEF IInv

\* Every step of a replica keeps the invariant.
LEMMA StepIInv ==
  ASSUME IInv, NEW r \in Migrator, Step(r) \/ Fault(r)
  PROVE  IInv'
<1>0. /\ TypeOK /\ MInv /\ OnlyMigratingRuns /\ ServicesHaveSchema
      /\ run \in [Migrator -> [at : At, seen : SUBSET Files, next : 1..NumFiles + 1]]
      /\ main \in [Migrator -> {"exited", "migrating", "rejected", "waiting", "serving"}]
      /\ children \in [Migrator -> SUBSET Service]
      /\ [Off EXCEPT !.at = "off"] = Off
  BY DEF IInv, TypeOK, MInv, MigratorTypeOK, Off
<1>1. CASE Boot(r)
  <2>1. run[r].at \notin {"changed", "recorded"}
    BY <1>0, <1>1 DEF Boot, OnlyMigratingRuns, Off
  <2>2. MInv' /\ OnlyMigratingRuns' /\ ServicesHaveSchema'
    BY <1>0, <1>1, <2>1, ResetIInv DEF Boot, Launch
  <2> QED BY <1>1, <2>2 DEF IInv, TypeOK, MInv, Boot
<1>2. CASE main[r] = "migrating" /\ (MigratorStep(r) \/ MigratorFault(r)) /\ UNCHANGED supervisorVars
  <2>1. MInv'
    BY <1>0, <1>2, MigratorKeepsMInv
  <2>2. OnlyMigratingRuns'
    BY <1>0, <1>2, OthersKeepTheirRun DEF OnlyMigratingRuns, supervisorVars
  <2>3. ServicesHaveSchema'
    BY <1>0, <1>2, <2>1, LedgerGrows DEF ServicesHaveSchema, supervisorVars
  <2> QED BY <1>0, <1>2, <2>1, <2>2, <2>3 DEF IInv, TypeOK, MInv, supervisorVars
<1>3. CASE StartServices(r)
  <2>1. ledger = Files /\ run[r].at \notin {"changed", "recorded"}
    BY <1>0, <1>3, DoneHasSchema DEF StartServices, Migrated
  <2>2. MInv' /\ OnlyMigratingRuns' /\ ServicesHaveSchema'
    BY <1>0, <1>3, <2>1, ResetIInv DEF StartServices
  <2> QED BY <1>3, <2>2 DEF IInv, TypeOK, MInv, StartServices
<1>4. CASE MigrationsFail(r)
  <2>1. MInv' /\ OnlyMigratingRuns' /\ ServicesHaveSchema'
    BY <1>0, <1>4, ResetIInv DEF MigrationsFail
  <2>2. stopping' \in [Migrator -> BOOLEAN] /\ code' \in [Migrator -> {0, 1}]
    BY <1>0, <1>4, ShutdownTypes DEF MigrationsFail
  <2> QED BY <1>0, <1>4, <2>1, <2>2 DEF IInv, TypeOK, MInv, MigrationsFail
<1>5. CASE StartProxy(r)
  <2>1. MInv' /\ OnlyMigratingRuns' /\ ServicesHaveSchema'
    BY <1>0, <1>5, SupervisorOnlyIInv DEF StartProxy
  <2> QED BY <1>5, <2>1 DEF IInv, TypeOK, MInv, StartProxy
<1>6. CASE TimerFires(r) \/ NothingLeft(r)
  <2>1. code[r] \in {0, 1}
    BY <1>0 DEF TypeOK
  <2> QED BY <1>6, <2>1, ExitIInv DEF TimerFires, NothingLeft
<1>7. CASE Signal(r)
  <2>1. MInv' /\ OnlyMigratingRuns' /\ ServicesHaveSchema'
    BY <1>0, <1>7, SupervisorOnlyIInv DEF Signal
  <2>2. stopping' \in [Migrator -> BOOLEAN] /\ code' \in [Migrator -> {0, 1}]
    BY <1>0, <1>7, ShutdownTypes DEF Signal
  <2> QED BY <1>0, <1>7, <2>1, <2>2 DEF IInv, TypeOK, MInv, Signal
<1>8. ASSUME NEW s \in Service, ChildExits(r, s) PROVE IInv'
  <2>1. MInv' /\ OnlyMigratingRuns' /\ ServicesHaveSchema'
    BY <1>0, <1>8, SupervisorOnlyIInv DEF ChildExits
  <2>2. stopping' \in [Migrator -> BOOLEAN] /\ code' \in [Migrator -> {0, 1}]
    BY <1>0, <1>8, ShutdownTypes DEF ChildExits
  <2> QED BY <1>0, <1>8, <2>1, <2>2 DEF IInv, TypeOK, MInv, ChildExits
<1> QED BY <1>1, <1>2, <1>3, <1>4, <1>5, <1>6, <1>7, <1>8
        DEF Step, Fault, Migrate, DatabaseFails

\* A step of the system, or none, keeps the invariant.
LEMMA NextIInv == IInv /\ [Next]_vars => IInv'
<1> SUFFICES ASSUME IInv, [Next]_vars PROVE IInv'
  OBVIOUS
<1>1. CASE Next
  BY <1>1, StepIInv DEF Next
<1>2. CASE UNCHANGED vars
  <2>1. MInv' /\ OnlyMigratingRuns' /\ ServicesHaveSchema'
    BY <1>2, SupervisorOnlyIInv DEF vars, supervisorVars
  <2> QED BY <1>2, <2>1 DEF IInv, TypeOK, MInv, vars, supervisorVars
<1> QED BY <1>1, <1>2

-----------------------------------------------------------------------------
(* The theorems *)

\* The inductive invariant holds in every behaviour.
THEOREM Invariance == Spec => []IInv
BY InitIInv, NextIInv, PTL DEF Spec

\* Every variable of the replicas and their migrators has its type.
THEOREM TypeCorrect == Spec => []TypeOK
<1>1. IInv => TypeOK
  BY DEF IInv
<1> QED BY <1>1, Invariance, PTL

\* However many migrators race, fail and start again, schema_migrations holds
\* exactly the files whose SQL was committed, each once and after its
\* predecessors (migrator.ts, start.mjs).
THEOREM LedgerTellsSchema == Spec => []LedgerIsSchema
<1>1. IInv => LedgerIsSchema
  BY DEF IInv, MInv
<1> QED BY <1>1, Invariance, PTL

\* No replica ever runs its services on less than the whole schema.
THEOREM ServicesOnSchema == Spec => []ServicesHaveSchema
<1>1. IInv => ServicesHaveSchema
  BY DEF IInv
<1> QED BY <1>1, Invariance, PTL
=============================================================================
