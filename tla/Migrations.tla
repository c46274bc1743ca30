---------------------------- MODULE Migrations ------------------------------
(***************************************************************************)
(* The start of a container: entrypoint.sh waits for the database, runs    *)
(* scripts/apply_migrations.py and then serves.  docker-compose.yml starts *)
(* a container again whenever it ends.                                     *)
(*                                                                         *)
(* A script runs in one transaction and is recorded in another.  Nothing   *)
(* keeps two containers from migrating at once.  A script is what it does  *)
(* to the schema: the tables, columns and constraints it adds and drops,   *)
(* and those it cannot run without or beside.  Most add "if not exists"    *)
(* and so run twice; one that runs again after a later script has dropped  *)
(* what it adds brings that back (cost_price, is_super_admin).             *)
(***************************************************************************)
EXTENDS Naturals, FiniteSets, FiniteSetsExt

CONSTANTS
    Containers,
    LastScript,  \* the number of files in supabase/migrations
    Adds,        \* of each script: what it leaves in the schema
    Drops,       \* what it takes out of it, if it is there
    Needs,       \* what it names without "if exists"
    Clashes,     \* what it creates without "if not exists"
    Platform,    \* what scripts need and no script makes (storage.buckets)
    MaxStarts    \* bound on the starts of containers

Scripts == 1..LastScript  \* in the order of the file names
Initial == 1              \* INITIAL_VERSION

AddedBy(vs) == UNION {Adds[v] : v \in vs}
DroppedBy(vs) == UNION {Drops[v] : v \in vs}

\* What a run of some scripts, each once and in order, leaves of what they made.
Left(vs) == AddedBy(vs) \ DroppedBy(vs)

\* The files: each runs on what those before it leave, and what one drops is not
\* added again.  The first creates tenants and drops nothing.
ASSUME MigrationAssumption ==
    /\ LastScript \in Nat \ {0} /\ MaxStarts \in Nat
    /\ \A v \in Scripts :
          /\ Needs[v] \subseteq Platform \cup Left(1..(v - 1))
          /\ Clashes[v] \cap (Platform \cup Left(1..(v - 1))) = {}
          /\ (Adds[v] \cup Drops[v]) \cap Platform = {}
          /\ \A w \in Scripts : v <= w => Drops[v] \cap Adds[w] = {}
    /\ Adds[Initial] # {} /\ Drops[Initial] = {}

Container == [at : {"down", "waiting", "listing", "looking", "applying",
                    "recording", "refused", "serving"},
              pending : SUBSET Scripts, tenants : BOOLEAN]

VARIABLES
    recorded,    \* supabase_migrations.schema_migrations
    schema,      \* what is there of Platform and of what the scripts make
    ran,         \* history: the scripts that have run
    containers,
    starts,
    cut,         \* history: a run ended between a script and its record
    together     \* history: two containers migrated at once

migrationVars == <<recorded, schema, ran, containers, starts, cut, together>>

Down == [at |-> "down", pending |-> {}, tenants |-> FALSE]

\* A new database, of a platform that has what the scripts need or a plain one
\* (docker-compose.yml), or one whose first schema was made by hand.
MigrationInit ==
    /\ recorded = {}
    /\ ran \in {{}, {Initial}}
    /\ \E offered \in SUBSET Platform : schema = offered \cup AddedBy(ran)
    /\ containers = [d \in Containers |-> Down]
    /\ starts = 0
    /\ cut = FALSE /\ together = FALSE

Migrating(d) ==
    containers[d].at \in {"listing", "looking", "applying", "recording"}

Goes(d, at) == containers' = [containers EXCEPT ![d].at = at]

StartContainer(d) ==
    /\ containers[d].at = "down" /\ starts < MaxStarts
    /\ containers' = [containers EXCEPT ![d] = [Down EXCEPT !.at = "waiting"]]
    /\ starts' = starts + 1
    /\ UNCHANGED <<recorded, schema, ran, cut, together>>

\* wait_for_db, then ensure_history.
DatabaseReady(d) ==
    /\ containers[d].at = "waiting"
    /\ Goes(d, "listing")
    /\ together' = (together \/ \E e \in Containers \ {d} : Migrating(e))
    /\ UNCHANGED <<recorded, schema, ran, starts, cut>>

\* applied_versions.
List(d) ==
    /\ containers[d].at = "listing"
    /\ containers' = [containers EXCEPT
          ![d] = [at |-> "looking", pending |-> Scripts \ recorded, tenants |-> FALSE]]
    /\ UNCHANGED <<recorded, schema, ran, starts, cut, together>>

\* table_exists("tenants"): whether what the first script makes is there.
LookForSchema(d) ==
    /\ containers[d].at = "looking"
    /\ containers' = [containers EXCEPT ![d].at = "applying",
                                        ![d].tenants = Adds[Initial] \subseteq schema]
    /\ UNCHANGED <<recorded, schema, ran, starts, cut, together>>

\* Mutant: the files in the order the directory lists them.
AnyNext(d) == Max(containers[d].pending)

NextScript(d) == Min(containers[d].pending)

Record(d, v) == recorded' = recorded \cup {v}

\* The first script on a schema made by hand is recorded and not run.
AdoptSchema(d) ==
    /\ containers[d].at = "applying" /\ containers[d].pending # {}
    /\ NextScript(d) = Initial /\ containers[d].tenants
    /\ Record(d, Initial)
    /\ containers' = [containers EXCEPT ![d].pending = @ \ {Initial}]
    /\ UNCHANGED <<schema, ran, starts, cut, together>>

RunsOn(v) == Needs[v] \subseteq schema /\ Clashes[v] \cap schema = {}

\* execute_script: all of the script or none of it.
Execute(d) ==
    LET v == NextScript(d)
    IN  /\ containers[d].at = "applying" /\ containers[d].pending # {}
        /\ ~(v = Initial /\ containers[d].tenants)
        /\ IF RunsOn(v)
           THEN /\ Goes(d, "recording")
                /\ schema' = (schema \cup Adds[v]) \ Drops[v]
                /\ ran' = ran \cup {v}
           ELSE Goes(d, "refused") /\ UNCHANGED <<schema, ran>>
        /\ UNCHANGED <<recorded, starts, cut, together>>

\* Mutant: the record is lost on a conflict of two containers.
Forget(d) ==
    /\ containers[d].at = "recording"
    /\ containers' = [containers EXCEPT ![d].at = "applying",
                                        ![d].pending = @ \ {NextScript(d)}]
    /\ UNCHANGED <<recorded, schema, ran, starts, cut, together>>

\* stamp.
Stamp(d) ==
    /\ containers[d].at = "recording"
    /\ Record(d, NextScript(d))
    /\ containers' = [containers EXCEPT ![d].at = "applying",
                                        ![d].pending = @ \ {NextScript(d)}]
    /\ UNCHANGED <<schema, ran, starts, cut, together>>

Serve(d) ==
    /\ containers[d].at = "applying" /\ containers[d].pending = {}
    /\ Goes(d, "serving")
    /\ UNCHANGED <<recorded, schema, ran, starts, cut, together>>

\* The database does not answer in time, a script was refused or fails for another
\* reason, the host dies, or a new version of the container takes its place.
Stop(d) ==
    /\ containers[d].at # "down"
    /\ containers' = [containers EXCEPT ![d] = Down]
    /\ cut' = (cut \/ containers[d].at = "recording")
    /\ UNCHANGED <<recorded, schema, ran, starts, together>>

MigrationStep ==
    \E d \in Containers :
        \/ StartContainer(d)
        \/ DatabaseReady(d)
        \/ List(d)
        \/ LookForSchema(d)
        \/ AdoptSchema(d)
        \/ Execute(d)
        \/ Stamp(d)
        \/ Serve(d)
        \/ Stop(d)

MigrationSpec == MigrationInit /\ [][MigrationStep]_migrationVars

-----------------------------------------------------------------------------
(* Properties. *)

MigrationTypeOK ==
    /\ recorded \subseteq Scripts /\ ran \subseteq Scripts
    /\ schema \subseteq Platform \cup AddedBy(Scripts)
    /\ containers \in [Containers -> Container]
    /\ starts \in 0..MaxStarts
    /\ cut \in BOOLEAN /\ together \in BOOLEAN

\* Whatever crashed and whoever migrated beside it, the scripts that have run are
\* the first ones, the record never runs ahead of them, a container serves only
\* when all have run, and nothing is missing of what they leave, though scripts may
\* have run twice.  Unless two containers migrated at once, there is nothing else
\* either: the schema is that of a prefix of the files (main, apply_one).
SchemaIsWhole ==
    /\ \A v, w \in Scripts : v <= w /\ w \in ran => v \in ran
    /\ recorded \subseteq ran
    /\ (\E d \in Containers : containers[d].at = "serving") => ran = Scripts
    /\ Left(ran) \subseteq schema
    /\ together \/ schema \ Platform = Left(ran)

\* A start is refused a script only where the platform lacks what the script needs,
\* or after a run was cut between a script and its record, or beside another run
\* (apply_one).
RefusalHasACause ==
    \A d \in Containers : containers[d].at = "refused" =>
        cut \/ together \/ (Needs[NextScript(d)] \cap Platform) \ schema # {}
=============================================================================
