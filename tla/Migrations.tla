----------------------------- MODULE Migrations -----------------------------
(***************************************************************************)
(* The start of the API and of the workers: each calls db.init_db, which   *)
(* applies the numbered .sql files not yet recorded in schema_migrations.  *)
(* The statements of a file commit one by one, and the record is one more  *)
(* statement, so the processes that docker compose starts side by side     *)
(* migrate an empty database against one another.                          *)
(***************************************************************************)
EXTENDS Integers, Sequences, FiniteSets

CONSTANTS
  Process,         \* the API and the workers
  Script,          \* per migration, in order: its number of statements
  MaxFaults,       \* bound: crashes in a behaviour
  WholeMigrations  \* assumption: no process is killed while it migrates

ASSUME MigrationsAssumption ==
  /\ Script \in Seq(Nat \ {0})
  /\ MaxFaults \in Nat
  /\ WholeMigrations \in BOOLEAN

VARIABLES
  ran,      \* statements that took effect, <<migration, number>>
  applied,  \* the rows of schema_migrations
  at,       \* per process: where its program is
  done,     \* per process: applied as it read it
  next,     \* per process: the statement it is to run, <<migration, number>>
  faults    \* crashes so far

mvars == <<ran, applied, at, done, next, faults>>

Migration == DOMAIN Script
Statement == UNION {{m} \X (1 .. Script[m]) : m \in Migration}
Migrating == {"read", "run", "record"}
Place == {"down", "stopped", "migrated", "idle", "busy"} \cup Migrating

MInit == /\ ran = {} /\ applied = {}
         /\ at = [p \in Process |-> "down"]
         /\ done = [p \in Process |-> {}]
         /\ next = [p \in Process |-> <<0, 0>>]
         /\ faults = 0

Go(p, place) == at' = [at EXCEPT ![p] = place]

\* run_migrations returns or raises, and its variables are gone.
Leave(p, place) == /\ Go(p, place)
                   /\ done' = [done EXCEPT ![p] = {}]
                   /\ next' = [next EXCEPT ![p] = <<0, 0>>]

\* The loop over the sorted files: on to the first after m not in known.
NextFile(p, m, known) ==
  LET left == {n \in Migration \ known : n > m} IN
  \/ left = {} /\ Leave(p, "migrated")
  \/ \E n \in left :
       /\ \A o \in left : n <= o
       /\ Go(p, "run")
       /\ done' = [done EXCEPT ![p] = known]
       /\ next' = [next EXCEPT ![p] = <<n, 1>>]
-----------------------------------------------------------------------------
\* By docker compose, at first or again: "restart: unless-stopped".  Creating
\* schema_migrations if it is not there changes nothing that matters.
Boot(p) ==
  /\ at[p] = "down"
  /\ Go(p, "read")
  /\ UNCHANGED <<ran, applied, done, next, faults>>

RecordFirst(p) ==
  /\ at[p] = "read"
  /\ applied' = Migration
  /\ NextFile(p, 0, applied)
  /\ UNCHANGED <<ran, faults>>

ReadApplied(p) ==
  /\ at[p] = "read"
  /\ NextFile(p, 0, applied)
  /\ UNCHANGED <<ran, applied, faults>>

\* One statement of executescript.  Each is a CREATE without IF NOT EXISTS:
\* the second time it raises, and the process ends.
Execute(p) ==
  LET m == next[p][1]
      k == next[p][2]
  IN /\ at[p] = "run"
     /\ IF next[p] \in ran
          THEN Leave(p, "down") /\ UNCHANGED ran
          ELSE /\ ran' = ran \cup {next[p]}
               /\ next' = [next EXCEPT ![p] = <<m, k + 1>>]
               /\ Go(p, IF k = Script[m] THEN "record" ELSE "run")
               /\ UNCHANGED done
     /\ UNCHANGED <<applied, faults>>

RecordLost(p) ==
  /\ at[p] = "record"
  /\ NextFile(p, next[p][1], done[p])
  /\ UNCHANGED <<ran, applied, faults>>

\* The INSERT; a name that is there already raises.
Record(p) ==
  LET m == next[p][1]
  IN /\ at[p] = "record"
     /\ IF m \in applied
          THEN Leave(p, "down") /\ UNCHANGED applied
          ELSE applied' = applied \cup {m} /\ NextFile(p, m, done[p])
     /\ UNCHANGED <<ran, faults>>

\* Killed, or ended by what it raises; restarted.
Kill(p) ==
  /\ at[p] \notin {"down", "stopped"}
  /\ WholeMigrations => at[p] \notin Migrating
  /\ faults < MaxFaults
  /\ faults' = faults + 1
  /\ Leave(p, "down")
  /\ UNCHANGED <<ran, applied>>

\* Stopped by the user, for good.
Halt(p) ==
  /\ at[p] \notin {"down", "stopped"}
  /\ WholeMigrations => at[p] \notin Migrating
  /\ Leave(p, "stopped")
  /\ UNCHANGED <<ran, applied, faults>>

Migrate(p) == ReadApplied(p) \/ Execute(p) \/ Record(p)
-----------------------------------------------------------------------------
Up(p) == at[p] \in {"migrated", "idle", "busy"}

\* Who has come past init_db finds every table, although somebody else may
\* have created it: being recorded implies being complete.
SchemaComplete == \A p \in Process : Up(p) => ran = Statement

\* The strengthening: what is recorded was run, and a process in the loop has
\* every earlier file behind it, recorded by itself or somebody else.
MTypeOK ==
  /\ applied \subseteq Migration
  /\ at \in [Process -> Place]
  /\ done \in [Process -> SUBSET Migration]
  /\ next \in [Process -> Nat \X Nat]
  /\ ran \subseteq Statement
  /\ faults \in 0 .. MaxFaults

InLoop(p) ==
  LET m == next[p][1]
      k == next[p][2]
  IN /\ m \in Migration
     /\ done[p] \subseteq applied
     /\ \A n \in Migration : n < m => n \in applied
     /\ \A i \in 1 .. Script[m] : i < k => <<m, i>> \in ran
     /\ k \in 1 .. Script[m] + 1
     /\ at[p] = "run" => k <= Script[m]
     /\ at[p] = "record" => k = Script[m] + 1

MInv ==
  /\ MTypeOK
  /\ \A m \in applied : \A k \in 1 .. Script[m] : <<m, k>> \in ran
  /\ \A p \in Process : at[p] \in {"run", "record"} => InLoop(p)
  /\ \A p \in Process : Up(p) => applied = Migration

\* A process that loses the race for an empty database is restarted into a
\* complete one: nobody is kept out for ever.
EveryoneStarts ==
  \A p \in Process : <>[](Up(p) \/ at[p] = "stopped")
=============================================================================
