-------------------------- MODULE TrilithMigration --------------------------
(***************************************************************************)
(* Opening a database file of any earlier version (core/sqlite_backend.py, *)
(* SQLiteBackend._init_db and _migrate), by several processes at a time,   *)
(* each of which may be killed between any two statements.                 *)
(*                                                                         *)
(* Python's sqlite3 commits a statement that defines something at once,    *)
(* unless a transaction is open; the first UPDATE opens one.  So the       *)
(* columns are added one commit at a time, and everything from the first   *)
(* backfill to the renamed table is one transaction, which holds SQLite's  *)
(* write lock.                                                             *)
(***************************************************************************)
EXTENDS Naturals, FiniteSets

CONSTANTS
  Processes,      \* servers and commands that open the file
  NoOne,          \* the write lock is free
  Ids,            \* ids of stored rows
  Named,          \* tenant ids that rows of an earlier version may name
  Default,        \* DEFAULT_TENANT
  Blank,          \* tenant_id NULL or empty, or no such column
  Absent,         \* no such table
  MaxKills        \* bound: processes killed while they open the file

TenancyColumns == {"tenant_id", "owner_id", "session_id"}

Table == [Ids -> Named \cup {Default, Blank, Absent}]

(* A table is the tenant of every id, Absent for an id it has no row of.   *)
DatabaseFile ==
  [items : Table \cup {Absent}, v2 : Table \cup {Absent},
   columns : SUBSET TenancyColumns, primary : {"id", "tenant_id, id"},
   triggers : BOOLEAN]

ASSUME MigrationAssumption ==
  /\ NoOne \notin Processes
  /\ Default # Blank /\ Absent \notin Named \cup {Default, Blank}
  /\ Blank \notin Named
  /\ Absent \notin Table
  /\ MaxKills \in Nat

VARIABLES
  file,           \* what is committed
  working,        \* what a process in a transaction has made of it
  lock,           \* the process in a transaction
  at,             \* the next statement of each process
  existing,       \* the columns that each process has found or added
  kills,          \* processes killed so far
  original        \* the rows at first: never changes

vars == <<file, working, lock, at, existing, kills, original>>

(* Files that some version has written: none; v0.1, without the columns;   *)
(* one whose columns were added, all or some, with the old key; this       *)
(* version's, with or without the triggers.                                *)
Earlier ==
  [items : Table, v2 : {Absent}, columns : SUBSET TenancyColumns, primary : {"id"},
   triggers : {FALSE}]

NoFile ==
  [items |-> Absent, v2 |-> Absent, columns |-> {}, primary |-> "id", triggers |-> FALSE]

Unnamed(table) == {id \in Ids : table[id] = Blank}

Init ==
  /\ \/ file = NoFile
     \/ file \in {f \in Earlier : \A id \in Ids :
                    "tenant_id" \notin f.columns => f.items[id] \in {Blank, Absent}}
  /\ original = file.items
  /\ lock = NoOne
  /\ working = [p \in Processes |-> NoFile]
  /\ at = [p \in Processes |-> "down"]
  /\ existing = [p \in Processes |-> {}]
  /\ kills = 0

-----------------------------------------------------------------------------
Reach(p, step) == at' = [at EXCEPT ![p] = step]

(* A statement outside a transaction is committed at once.                 *)
autocommitted(p, step, next, new) ==
  /\ at[p] = step
  /\ lock = NoOne
  /\ file' = new
  /\ Reach(p, next)
  /\ UNCHANGED <<working, lock, existing, kills, original>>

(* A statement inside the transaction.                                     *)
in_transaction(p, step, next, new) ==
  /\ at[p] = step
  /\ working' = [working EXCEPT ![p] = new]
  /\ Reach(p, next)
  /\ UNCHANGED <<file, lock, existing, kills, original>>

start(p) ==
  /\ at[p] = "down"
  /\ Reach(p, "create")
  /\ UNCHANGED <<file, working, lock, existing, kills, original>>

(* CREATE TABLE IF NOT EXISTS context_items, with the old key.             *)
create_table(p) ==
  autocommitted(p, "create", "inspect",
    IF file.items # Absent THEN file
    ELSE [file EXCEPT !.items = [id \in Ids |-> Absent], !.columns = TenancyColumns])

(* Faulty variant: every column is taken to be missing.                    *)
inspect_nothing(p) ==
  /\ at[p] = "inspect"
  /\ existing' = [existing EXCEPT ![p] = {}]
  /\ Reach(p, "add")
  /\ UNCHANGED <<file, working, lock, kills, original>>

(* PRAGMA table_info.                                                      *)
inspect(p) ==
  /\ at[p] = "inspect"
  /\ existing' = [existing EXCEPT ![p] = file.columns]
  /\ Reach(p, "add")
  /\ UNCHANGED <<file, working, lock, kills, original>>

(* The columns that were missing, in this order.                           *)
NextColumn(missing) ==
  CASE "tenant_id" \in missing -> "tenant_id"
    [] "owner_id" \in missing -> "owner_id"
    [] OTHER -> "session_id"

(* ALTER TABLE ADD COLUMN; every row has NULL in it.                       *)
add_column(p) ==
  LET missing == TenancyColumns \ existing[p]
      column == NextColumn(missing)
  IN  /\ at[p] = "add"
      /\ missing # {}
      /\ lock = NoOne
      /\ column \notin file.columns
      /\ file' = [file EXCEPT !.columns = @ \cup {column}]
      /\ existing' = [existing EXCEPT ![p] = @ \cup {column}]
      /\ UNCHANGED <<working, lock, at, kills, original>>

backfilled(table) == [id \in Ids |-> IF table[id] = Blank THEN Default ELSE table[id]]

(* The three UPDATEs; the first begins the transaction.                    *)
backfill(p) ==
  /\ at[p] = "add"
  /\ TenancyColumns \subseteq existing[p]
  /\ lock = NoOne
  /\ lock' = p
  /\ working' = [working EXCEPT ![p] = [file EXCEPT !.items = backfilled(@)]]
  /\ Reach(p, "rebuild")
  /\ UNCHANGED <<file, existing, kills, original>>

(* The key is read again, now under the write lock.  A table that has it   *)
(* is left alone.                                                          *)
create_v2(p) ==
  IF working[p].primary = "id"
  THEN in_transaction(p, "rebuild", "copy",
         [working[p] EXCEPT !.v2 = [id \in Ids |-> Absent]])
  ELSE in_transaction(p, "rebuild", "commit", working[p])

copy_rows(p) ==
  in_transaction(p, "copy", "drop", [working[p] EXCEPT !.v2 = working[p].items])

(* Faulty variant: DROP TABLE commits, as it did in Python before 3.6.     *)
drop_and_commit(p) ==
  /\ at[p] = "drop"
  /\ file' = [working[p] EXCEPT !.items = Absent, !.triggers = FALSE]
  /\ working' = [working EXCEPT ![p] = file']
  /\ Reach(p, "rename")
  /\ UNCHANGED <<lock, existing, kills, original>>

(* A table takes its triggers with it.                                     *)
drop_table(p) ==
  in_transaction(p, "drop", "rename",
    [working[p] EXCEPT !.items = Absent, !.triggers = FALSE])

rename_table(p) ==
  in_transaction(p, "rename", "commit",
    [working[p] EXCEPT !.items = working[p].v2, !.v2 = Absent, !.primary = "tenant_id, id"])

commit(p) ==
  /\ at[p] = "commit"
  /\ file' = working[p]
  /\ lock' = NoOne
  /\ Reach(p, "secure")
  /\ UNCHANGED <<working, existing, kills, original>>

(* Faulty variant: the triggers are created with the table only.           *)
create_no_triggers(p) == autocommitted(p, "secure", "open", file)

(* derived_sources, the triggers and the indexes, IF NOT EXISTS.           *)
create_triggers(p) ==
  autocommitted(p, "secure", "open", [file EXCEPT !.triggers = TRUE])

close(p) ==
  /\ at[p] = "open"
  /\ Reach(p, "down")
  /\ UNCHANGED <<file, working, lock, existing, kills, original>>

Opening(p) == at[p] \notin {"down", "open"}

(* Faulty variant: the lock outlives the process.                          *)
gone_locked(p) ==
  /\ Opening(p)
  /\ Reach(p, "down")
  /\ UNCHANGED <<file, working, lock, existing, original>>

(* SQLite rolls back the transaction of a process that is gone.            *)
gone(p) ==
  /\ Opening(p)
  /\ Reach(p, "down")
  /\ lock' = IF lock = p THEN NoOne ELSE lock
  /\ UNCHANGED <<file, working, existing, original>>

(* "database is locked", or "duplicate column name": another process has   *)
(* added the column since this one looked.                                 *)
fail(p) ==
  /\ \/ lock \notin {NoOne, p} /\ at[p] \in {"create", "add", "secure"}
     \/ /\ at[p] = "add" /\ TenancyColumns \ existing[p] # {}
        /\ NextColumn(TenancyColumns \ existing[p]) \in file.columns
  /\ gone(p)
  /\ UNCHANGED kills

kill(p) ==
  /\ kills < MaxKills
  /\ kills' = kills + 1
  /\ gone(p)

Statement(p) ==
  \/ create_table(p) \/ inspect(p) \/ add_column(p)
  \/ backfill(p) \/ create_v2(p) \/ copy_rows(p) \/ drop_table(p) \/ rename_table(p)
  \/ commit(p) \/ create_triggers(p)

Next == \E p \in Processes : start(p) \/ Statement(p) \/ fail(p) \/ kill(p) \/ close(p)

(* Whoever opens the file is started again when it failed; its next        *)
(* statement succeeds or raises; and it does not find the file locked each *)
(* time it comes to create the triggers: SQLite tries for five seconds,    *)
(* the other's transaction is a few statements.  Nobody has to be killed   *)
(* or to exit.                                                             *)
Fairness ==
  \A p \in Processes :
    WF_vars(start(p)) /\ WF_vars(Statement(p) \/ fail(p)) /\ SF_vars(create_triggers(p))

Spec == Init /\ [][Next]_vars /\ Fairness

-----------------------------------------------------------------------------
(* Types of every variable; the process that is between its first backfill *)
(* and its commit has the lock.                                            *)
TypeOK ==
  /\ file \in DatabaseFile
  /\ working \in [Processes -> DatabaseFile]
  /\ lock \in Processes \cup {NoOne}
  /\ at \in [Processes -> {"down", "create", "inspect", "add", "rebuild", "copy", "drop",
                            "rename", "commit", "secure", "open"}]
  /\ existing \in [Processes -> SUBSET TenancyColumns]
  /\ kills \in 0..MaxKills
  /\ \A p \in Processes : lock = p <=> at[p] \in {"rebuild", "copy", "drop", "rename", "commit"}

(* The file always has every row it had, in context_items and nowhere      *)
(* else: wherever a process stops, nothing is lost, nothing is there       *)
(* twice, and a row changes its tenant only from none to the default one,  *)
(* all such rows at once.                                                  *)
RowsSurvive ==
  /\ file.v2 = Absent
  /\ original # Absent => file.items \in {original, backfilled(original)}

(* While a process has the file open, whatever others do to it meanwhile,  *)
(* the file is what every query relies on: all columns, a tenant in every  *)
(* row, one row per tenant and id, and the trigger that erases what is     *)
(* derived from a deleted row.                                             *)
Current ==
  /\ file.items # Absent /\ Unnamed(file.items) = {}
  /\ file.columns = TenancyColumns
  /\ file.primary = "tenant_id, id"
  /\ file.triggers

OpenMeansCurrent == \A p \in Processes : at[p] = "open" => Current

(* However often processes that open it get into each other's way or are   *)
(* killed, the file ends up, and stays, in the current version.            *)
BecomesCurrent == <>[]Current
=============================================================================
