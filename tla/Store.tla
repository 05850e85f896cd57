--------------------------------- MODULE Store ---------------------------------
(***************************************************************************)
(* pkg/store/store.go, Open and Migrate: a host that starts brings the       *)
(* database to its schema.  Each migration is executed and recorded in one   *)
(* transaction; which ones are recorded is read once, before the first.      *)
(* Hosts may start at the same time, fail and be killed at any point.        *)
(*                                                                           *)
(* SQLite is external: one transaction writes at a time, another fails, and  *)
(* what is not committed is gone with its host.  All three migrations can be *)
(* executed again, the second of them at the cost of the tenants of the rows.*)
(***************************************************************************)
EXTENDS Naturals, Sequences, FiniteSets

CONSTANTS Hosts,      \* processes that open the database
          Migrations, \* migrations, in the order of their names
          MaxBoots    \* bound: starts of hosts

ASSUME StoreAssumption == Migrations \in Nat /\ MaxBoots \in Nat

VARIABLES
    boot,     \* where the start of each host stands
    applied,  \* the migrations it found recorded
    migrated, \* those it has committed
    recorded, \* the table schema_migrations
    schema,   \* the migrations that took effect, in order
    boots     \* starts so far

storeVars == <<boot, applied, migrated, recorded, schema, boots>>

Names == 1..Migrations

StoreTypeOK ==
    /\ boot \in [Hosts -> {"off", "list", "migrate", "record", "commit", "ready", "failed"}]
    /\ applied \in [Hosts -> SUBSET Names] /\ migrated \in [Hosts -> SUBSET Names]
    /\ recorded \subseteq Names /\ schema \in Seq(Names)
    /\ boots \in 0..MaxBoots

StoreInit ==
    /\ boot = [h \in Hosts |-> "off"]
    /\ applied = [h \in Hosts |-> {}] /\ migrated = [h \in Hosts |-> {}]
    /\ recorded = {} /\ schema = <<>>
    /\ boots = 0

BootGoes(h, from, to) ==
    /\ boot[h] = from
    /\ boot' = [boot EXCEPT ![h] = to]

-----------------------------------------------------------------------------

\* The database is opened and the table of migrations is there.
OpenStore(h) ==
    /\ boots < MaxBoots /\ boots' = boots + 1
    /\ BootGoes(h, "off", "list")
    /\ UNCHANGED <<applied, migrated, recorded, schema>>

appliedMigrations(h) ==
    /\ BootGoes(h, "list", "migrate")
    /\ applied' = [applied EXCEPT ![h] = recorded]
    /\ UNCHANGED <<migrated, recorded, schema, boots>>

Missing(h) == Names \ (applied[h] \cup migrated[h])

\* The first migration that was not found recorded.
Pending(h) == CHOOSE n \in Missing(h) : \A m \in Missing(h) : n <= m

InTransaction(h) == boot[h] \in {"record", "commit"}

Locked == \E h \in Hosts : InTransaction(h)

Execute(h) ==
    /\ Missing(h) # {} /\ ~Locked
    /\ BootGoes(h, "migrate", "record")
    /\ UNCHANGED <<applied, migrated, recorded, schema, boots>>

\* Mutant: a name that is there already is let pass.
RecordAny(h) ==
    /\ BootGoes(h, "record", "commit")
    /\ UNCHANGED <<applied, migrated, recorded, schema, boots>>

\* The name is the primary key of the table.
Record(h) ==
    /\ BootGoes(h, "record", "commit")
    /\ Pending(h) \notin recorded
    /\ UNCHANGED <<applied, migrated, recorded, schema, boots>>

Commit(h) ==
    /\ BootGoes(h, "commit", "migrate")
    /\ recorded' = recorded \cup {Pending(h)}
    /\ schema' = Append(schema, Pending(h))
    /\ migrated' = [migrated EXCEPT ![h] = @ \cup {Pending(h)}]
    /\ UNCHANGED <<applied, boots>>

\* What Migrate kept ends with it.
Forget(h) ==
    /\ applied' = [applied EXCEPT ![h] = {}]
    /\ migrated' = [migrated EXCEPT ![h] = {}]

Migrated(h) ==
    /\ Missing(h) = {}
    /\ BootGoes(h, "migrate", "ready")
    /\ Forget(h)
    /\ UNCHANGED <<recorded, schema, boots>>

\* A statement fails, a transaction is rolled back, or the database is locked.
MigrateFails(h) ==
    /\ \E from \in {"list", "migrate", "record", "commit"} : BootGoes(h, from, "failed")
    /\ Forget(h)
    /\ UNCHANGED <<recorded, schema, boots>>

\* A host ends or is killed.
HostGone(h) ==
    /\ boot[h] # "off"
    /\ boot' = [boot EXCEPT ![h] = "off"]
    /\ Forget(h)
    /\ UNCHANGED <<recorded, schema, boots>>

Migrate(h) == appliedMigrations(h) \/ Execute(h) \/ Record(h) \/ Commit(h) \/ Migrated(h)

-----------------------------------------------------------------------------
(* Properties *)

\* However many hosts start at once, fail and start again, each migration takes
\* effect once, in order, exactly when it is recorded, and a host that goes on has
\* the whole schema.  ("ready" is where the store is used.)
MigratedOnce ==
    /\ schema = [i \in 1..Len(schema) |-> i]
    /\ recorded = 1..Len(schema)
    /\ \A h \in Hosts : boot[h] = "ready" => Len(schema) = Migrations
=============================================================================
