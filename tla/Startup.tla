------------------------------ MODULE Startup ------------------------------
(***************************************************************************)
(* How a version of the system comes up: docker compose runs the migrate   *)
(* program, then starts the services that wait for it; services that end   *)
(* are started again without it.  The image of version v holds migrations  *)
(* 1 to v, each one Exec and one transaction; every statement in them is   *)
(* guarded by IF NOT EXISTS or ON CONFLICT, so that one run twice succeeds.*)
(***************************************************************************)
EXTENDS Naturals

CONSTANTS
    Services,    \* the services that wait for migrate: bot, admin
    MaxVersion,  \* bound: versions deployed
    MaxTries,    \* attempts of migrate to reach the database: 10
    Faults       \* subset of {"db", "crash", ...}

ASSUME StartupAssumption ==
    /\ MaxVersion \in Nat
    /\ MaxTries \in Nat \ {0}

VARIABLES
    version,  \* the version compose has last been told to bring up
    applied,  \* the migrations the database has seen
    migrate,  \* the migrate container: program counter, attempts, next file
    service   \* the containers of the services

startupVars == <<version, applied, migrate, service>>

Files(v) == 1..v

StartupTypeOK ==
    /\ version \in 0..MaxVersion
    /\ applied \subseteq Files(version)
    /\ migrate \in [pc : {"connect", "exec", "completed", "failed"},
                    tries : 0..MaxTries, next : 1..(MaxVersion + 1)]
    /\ service \in [Services -> [pc : {"none", "starting", "running"},
                                 version : 0..MaxVersion]]

StartupInit ==
    /\ version = 0
    /\ applied = {}
    /\ migrate = [pc |-> "failed", tries |-> 0, next |-> 1]
    /\ service = [s \in Services |-> [pc |-> "none", version |-> 0]]

-----------------------------------------------------------------------------
(* compose up: migrate's container runs again; those of the services stay  *)
(* until migrate has completed.  Bound: a version that came up is not      *)
(* brought up again.                                                       *)
Up(v) ==
    /\ \/ migrate.pc = "failed" /\ v >= version
       \/ migrate.pc = "completed" /\ v > version
    /\ version' = v
    /\ migrate' = [pc |-> "connect", tries |-> 0, next |-> 1]
    /\ UNCHANGED <<applied, service>>

Connect ==
    /\ migrate.pc = "connect"
    /\ migrate' = [migrate EXCEPT !.pc = "exec"]
    /\ UNCHANGED <<version, applied, service>>

Reached == migrate.tries < MaxTries

(* After the last failure err is nil, because the ping's error was another *)
(* variable: the program goes on with a closed handle.                     *)
PingFails ==
    /\ "db" \in Faults
    /\ migrate.pc = "connect"
    /\ migrate' = [migrate EXCEPT !.tries = @ + 1,
                                  !.pc = IF migrate.tries + 1 < MaxTries THEN "connect" ELSE "exec"]
    /\ UNCHANGED <<version, applied, service>>

Exec ==
    /\ migrate.pc = "exec"
    /\ Reached
    /\ migrate.next <= version
    /\ applied' = applied \cup {migrate.next}
    /\ migrate' = [migrate EXCEPT !.next = @ + 1]
    /\ UNCHANGED <<version, service>>

(* Mutant: the error is logged and the next file taken.                    *)
ExecLogged ==
    /\ migrate.pc = "exec"
    /\ "db" \in Faults \/ ~Reached
    /\ migrate.next <= version
    /\ migrate' = [migrate EXCEPT !.next = @ + 1]
    /\ UNCHANGED <<version, applied, service>>

(* The statement fails, or its reply is lost; a closed handle always fails.*)
ExecFails ==
    /\ migrate.pc = "exec"
    /\ "db" \in Faults \/ ~Reached
    /\ migrate.next <= version
    /\ applied' \in {applied} \cup IF Reached THEN {applied \cup {migrate.next}} ELSE {}
    /\ migrate' = [migrate EXCEPT !.pc = "failed"]
    /\ UNCHANGED <<version, service>>

Complete ==
    /\ migrate.pc = "exec"
    /\ migrate.next > version
    /\ migrate' = [migrate EXCEPT !.pc = "completed"]
    /\ UNCHANGED <<version, applied, service>>

MigrateDies ==
    /\ "crash" \in Faults
    /\ migrate.pc \in {"connect", "exec"}
    /\ migrate' = [migrate EXCEPT !.pc = "failed"]
    /\ UNCHANGED <<version, applied, service>>

(* service_completed_successfully: the container of this version is made.  *)
Create(s) ==
    /\ migrate.pc = "completed"
    /\ service[s].version < version
    /\ service' = [service EXCEPT ![s] = [pc |-> "starting", version |-> version]]
    /\ UNCHANGED <<version, applied, migrate>>

(* initDatabase.  If it fails, the process ends and Docker starts it again:*)
(* no step of its own.                                                     *)
Start(s) ==
    /\ service[s].pc = "starting"
    /\ service' = [service EXCEPT ![s].pc = "running"]
    /\ UNCHANGED <<version, applied, migrate>>

(* restart: unless-stopped.                                                *)
Dies(s) ==
    /\ "crash" \in Faults
    /\ service[s].pc = "running"
    /\ service' = [service EXCEPT ![s].pc = "starting"]
    /\ UNCHANGED <<version, applied, migrate>>

Migrating == Connect \/ PingFails \/ Exec \/ ExecFails \/ Complete \/ MigrateDies

-----------------------------------------------------------------------------
(* Migrations build on each other and the services on all of their         *)
(* version's: whatever failed and however often it was repeated, no file   *)
(* was left out, and no service runs on tables older than its code, not    *)
(* while a later version is being migrated either.                         *)
ServesMigrated ==
    /\ \A f \in applied : Files(f) \subseteq applied
    /\ \A s \in Services : service[s].pc # "none" => Files(service[s].version) \subseteq applied

=============================================================================
