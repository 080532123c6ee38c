---------------------------- MODULE Supervisor ----------------------------
(***************************************************************************)
(* The container's first process (deploy/all-in-one/start.mjs), which runs *)
(* the migrations, then the services, then the proxy, and takes the whole  *)
(* container down when a service dies.  There are several replicas on one  *)
(* database, so their migrators race (module Migrator).  The platform      *)
(* starts a container again when it exits with a code it restarts for.     *)
(*                                                                         *)
(* Node ends a process by itself, with exit code 0, when nothing is left   *)
(* that could call back.  The timer of shutdown() is unref'ed and does not *)
(* count.                                                                  *)
(***************************************************************************)
EXTENDS Migrator

CONSTANTS
    Service,      \* the child processes
    RestartCodes  \* the exit codes the platform restarts a container for

\* With no code in it no container would ever have been started.
ASSUME RestartAssumption == RestartCodes \in (SUBSET {0, 1}) \ {{}}

VARIABLES
    main,       \* how far main() is
    children,   \* the services that run
    stopping,   \* shuttingDown
    code        \* the code shutdown() was given; after the exit, the exit code

supervisorVars == <<main, children, stopping, code>>
vars == <<migratorVars, supervisorVars>>

TypeOK ==
    /\ MigratorTypeOK
    /\ main \in [Migrator -> {"exited", "migrating", "rejected", "waiting", "serving"}]
    /\ children \in [Migrator -> SUBSET Service]
    /\ stopping \in [Migrator -> BOOLEAN]
    /\ code \in [Migrator -> {0, 1}]

\* The platform is about to start the containers.
Init ==
    /\ MigratorInit
    /\ main = [r \in Migrator |-> "exited"]
    /\ children = [r \in Migrator |-> {}]
    /\ stopping = [r \in Migrator |-> FALSE]
    /\ code = [r \in Migrator |-> CHOOSE c \in RestartCodes : TRUE]

-----------------------------------------------------------------------------

\* main() up to its first wait, with the environment it requires.
Boot(r) ==
    /\ main[r] = "exited"
    /\ code[r] \in RestartCodes
    /\ main' = [main EXCEPT ![r] = "migrating"]
    /\ code' = [code EXCEPT ![r] = 0]
    /\ Launch(r)
    /\ UNCHANGED <<children, stopping>>

Migrate(r) ==
    /\ main[r] = "migrating"
    /\ MigratorStep(r)
    /\ UNCHANGED supervisorVars

DatabaseFails(r) ==
    /\ main[r] = "migrating"
    /\ MigratorFault(r)
    /\ UNCHANGED supervisorVars

\* shutdown(c): only the first call counts, and sends SIGTERM to the children.
Shutdown(r, c) ==
    IF stopping[r]
    THEN UNCHANGED <<stopping, code>>
    ELSE /\ stopping' = [stopping EXCEPT ![r] = TRUE]
         /\ code' = [code EXCEPT ![r] = c]

\* Mutant: the services are started whatever the exit code of the migrations.
MigratedAnyhow(r) == run[r].at \in {"done", "failed"}

Migrated(r) == run[r].at = "done"

\* The services are started, also when a signal has come in the meantime.
StartServices(r) ==
    /\ main[r] = "migrating"
    /\ Migrated(r)
    /\ main' = [main EXCEPT ![r] = "waiting"]
    /\ children' = [children EXCEPT ![r] = Service]
    /\ run' = [run EXCEPT ![r] = Off]
    /\ UNCHANGED <<ledger, schema, holder, stopping, code>>

\* runMigrations rejects, and with it main().
MigrationsFail(r) ==
    /\ main[r] = "migrating"
    /\ run[r].at = "failed"
    /\ main' = [main EXCEPT ![r] = "rejected"]
    /\ run' = [run EXCEPT ![r] = Off]
    /\ Shutdown(r, 1)
    /\ UNCHANGED <<ledger, schema, holder, children>>

\* Both ports accept or their five seconds are over.
StartProxy(r) ==
    /\ main[r] = "waiting"
    /\ main' = [main EXCEPT ![r] = "serving"]
    /\ UNCHANGED <<migratorVars, children, stopping, code>>

\* Mutant: the exit of a child is only logged.
ChildExitsUnnoticed(r, s) ==
    /\ s \in children[r]
    /\ children' = [children EXCEPT ![r] = @ \ {s}]
    /\ UNCHANGED <<migratorVars, main, stopping, code>>

\* A service ends, for whatever reason; during a shutdown that is expected.
ChildExits(r, s) ==
    /\ s \in children[r]
    /\ children' = [children EXCEPT ![r] = @ \ {s}]
    /\ Shutdown(r, 1)
    /\ UNCHANGED <<migratorVars, main>>

\* SIGTERM or SIGINT.
Signal(r) ==
    /\ main[r] # "exited"
    /\ ~stopping[r]
    /\ Shutdown(r, 0)
    /\ UNCHANGED <<migratorVars, main, children>>

\* The end of the container is the end of every process in it.
Exit(r, c) ==
    /\ main' = [main EXCEPT ![r] = "exited"]
    /\ children' = [children EXCEPT ![r] = {}]
    /\ stopping' = [stopping EXCEPT ![r] = FALSE]
    /\ code' = [code EXCEPT ![r] = c]
    /\ Abandon(r, "off")

\* A child, the waits of main() or the listening proxy keep the process alive.
LoopAlive(r) == main[r] \in {"migrating", "waiting", "serving"} \/ children[r] # {}

\* The two seconds after shutdown() are over.
TimerFires(r) ==
    /\ stopping[r]
    /\ LoopAlive(r)
    /\ Exit(r, code[r])

NothingLeft(r) ==
    /\ main[r] # "exited"
    /\ ~LoopAlive(r)
    /\ Exit(r, 0)

\* What a container does when nothing goes wrong.
Step(r) ==
    \/ Boot(r) \/ Migrate(r) \/ StartServices(r) \/ MigrationsFail(r)
    \/ StartProxy(r) \/ TimerFires(r) \/ NothingLeft(r)

Fault(r) == DatabaseFails(r) \/ Signal(r) \/ \E s \in Service : ChildExits(r, s)

Next == \E r \in Migrator : Step(r) \/ Fault(r)

Spec == Init /\ [][Next]_vars

\* Node's event loop and PostgreSQL go on, the timer of shutdown() fires, and
\* the platform restarts what it restarts.
FairSpec == Spec /\ \A r \in Migrator : WF_vars(Step(r))

-----------------------------------------------------------------------------
(* Properties *)

\* Services only ever run on the whole schema, whoever applied it.
ServicesHaveSchema ==
    \A r \in Migrator : children[r] # {} => ledger = Files

\* A container that has lost a service does not stay half dead: it goes down.
HalfDeadGoesDown ==
    \A r \in Migrator :
        (main[r] \in {"waiting", "serving"} /\ children[r] # Service) ~> main[r] = "exited"

FaultsStop == <>[][\A r \in Migrator : ~Fault(r)]_vars

\* However the replicas collided over the migrations, once faults stop all of
\* them come to serve, with all their services and the whole schema.
EveryReplicaServes ==
    FaultsStop => \A r \in Migrator : <>[](main[r] = "serving" /\ children[r] = Service)
=============================================================================
