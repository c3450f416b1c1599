------------------------ MODULE TrilithMigrationProofs ------------------------
(***************************************************************************)
(* Theorems about opening a database file, for every number of processes,  *)
(* every content of the file and every number of kills:                    *)
(*                                                                         *)
(*   MigrationTypeCorrect   TypeOK                                         *)
(*   NoRowIsLost            RowsSurvive                                    *)
(*   OpenedIsCurrent        OpenMeansCurrent                               *)
(*                                                                         *)
(* The inductive invariant says what each process may rely on where it is  *)
(* (PlaceInv), and what the one in the transaction has made of the file by *)
(* then (Staged).  What another process relies on survives a commit        *)
(* because a table that has the new key is never rebuilt.                  *)
(***************************************************************************)
EXTENDS TrilithMigration, TLAPS

New == "tenant_id, id"

(* The rows the file had at first, with or without their tenants filled in.*)
Kept(table) ==
  table \in Table /\ (original # Absent => table \in {original, backfilled(original)})

Filled(table) ==
  table \in Table /\ Unnamed(table) = {} /\ (original # Absent => table = backfilled(original))

FileInv ==
  /\ original \in Table \cup {Absent}
  /\ file.v2 = Absent
  /\ file.items = Absent => original = Absent
  /\ file.items # Absent => Kept(file.items)

Upgraded == Filled(file.items) /\ file.columns = TenancyColumns /\ file.primary = New

PlaceInv(p) ==
  /\ at[p] \notin {"down", "create"} => file.items # Absent
  /\ at[p] = "add" => existing[p] \subseteq file.columns
  /\ at[p] \in {"secure", "open"} => Upgraded
  /\ at[p] = "open" => file.triggers

(* What a process in the transaction has made of the file.                 *)
Staged(p) ==
  LET w == working[p]
  IN  /\ w.columns = TenancyColumns
      /\ at[p] \in {"rebuild", "copy", "drop", "commit"} => Filled(w.items)
      /\ at[p] \in {"rebuild", "commit"} => w.v2 = Absent
      /\ at[p] \in {"drop", "rename"} => Filled(w.v2)
      /\ at[p] \in {"copy", "drop", "rename"} => file.primary = "id"
      /\ at[p] = "rebuild" => w.primary = file.primary
      /\ at[p] = "commit" => w.primary = New
      /\ file.primary = New => w.triggers = file.triggers

MigInv ==
  /\ TypeOK
  /\ FileInv
  /\ \A p \in Processes : PlaceInv(p) /\ (lock = p => Staged(p))

-----------------------------------------------------------------------------
(* Filling in the tenants of a table that was kept fills in every tenant,  *)
(* and does nothing to one that is filled already.                         *)
LEMMA BackfillFills ==
  ASSUME NEW table, Kept(table), original \in Table \cup {Absent}
  PROVE  Filled(backfilled(table))
<1>1. ASSUME NEW t \in Table
      PROVE  /\ backfilled(t) \in Table
             /\ Unnamed(backfilled(t)) = {}
             /\ backfilled(backfilled(t)) = backfilled(t)
  BY MigrationAssumption DEF backfilled, Unnamed, Table
<1>2. QED
  BY <1>1 DEF Kept, Filled

(* A filled table is one of the tables that may be kept.                   *)
LEMMA FilledIsKept ==
  ASSUME NEW table, Filled(table)
  PROVE  Kept(table) /\ table # Absent
BY MigrationAssumption DEF Filled, Kept

(* A process that does nothing keeps what it relies on, while the file is  *)
(* left alone and nobody gives it the lock.                                *)
LEMMA OthersKeepTheirPlace ==
  ASSUME MigInv, NEW p \in Processes, NEW q \in Processes, q # p,
         at'[q] = at[q], existing'[q] = existing[q], working'[q] = working[q],
         UNCHANGED <<file, original>>, lock' \in {lock, p, NoOne}
  PROVE  PlaceInv(q)' /\ (lock' = q => Staged(q)')
<1>1. lock' = q => lock = q
  BY MigrationAssumption
<1>2. PlaceInv(q)'
  BY DEF MigInv, PlaceInv, Upgraded, Filled
<1>3. lock = q => Staged(q)'
  BY DEF MigInv, Staged, Filled
<1>4. QED
  BY <1>1, <1>2, <1>3

(* No file, or the file of an earlier version, nobody having opened it.    *)
LEMMA InitImpliesMigInv == Init => MigInv
<1> SUFFICES ASSUME Init PROVE MigInv
  OBVIOUS
<1>1. NoFile \in DatabaseFile /\ Earlier \subseteq DatabaseFile
  BY DEF NoFile, Earlier, DatabaseFile
<1>2. TypeOK
  BY <1>1, MigrationAssumption DEF Init, TypeOK
<1>3. file = NoFile \/ file \in Earlier
  BY DEF Init
<1>4. file.v2 = Absent /\ (file.items = Absent \/ file.items \in Table)
  <2>1. CASE file = NoFile
    BY <2>1 DEF NoFile
  <2>2. CASE file \in Earlier
    BY <2>2 DEF Earlier
  <2>3. QED
    BY <1>3, <2>1, <2>2
<1>5. FileInv
  BY <1>4 DEF Init, FileInv, Kept
<1>6. QED
  BY <1>2, <1>5, MigrationAssumption DEF Init, MigInv, PlaceInv

-----------------------------------------------------------------------------
(* The type of every variable after a statement that is committed at once. *)
LEMMA AutocommitKeepsTypes ==
  ASSUME TypeOK, NEW p \in Processes, lock = NoOne, at[p] \in {"create", "add", "secure"},
         NEW step \in {"inspect", "add", "open"}, at' = [at EXCEPT ![p] = step],
         file' \in DatabaseFile, existing' \in [Processes -> SUBSET TenancyColumns],
         UNCHANGED <<working, lock, kills, original>>
  PROVE  TypeOK'
BY MigrationAssumption DEF TypeOK

(* CREATE TABLE IF NOT EXISTS makes a table only where there was none.     *)
LEMMA CreatingKeepsInv ==
  ASSUME MigInv, NEW p \in Processes, create_table(p)
  PROVE  MigInv'
<1> DEFINE empty == [id \in Ids |-> Absent]
           made == [file EXCEPT !.items = empty, !.columns = TenancyColumns]
<1>1. /\ at[p] = "create" /\ lock = NoOne /\ at' = [at EXCEPT ![p] = "inspect"]
      /\ UNCHANGED <<working, lock, existing, kills, original>>
      /\ file' = IF file.items # Absent THEN file ELSE made
  BY DEF create_table, autocommitted, Reach
<1>2. file \in DatabaseFile /\ at \in [Processes -> {"down", "create", "inspect", "add", "rebuild",
                                   "copy", "drop", "rename", "commit", "secure", "open"}]
  BY DEF MigInv, TypeOK
<1>3. empty \in Table
  BY DEF Table
<1>4. made \in DatabaseFile /\ made.items = empty /\ made.v2 = file.v2
  BY <1>2, <1>3 DEF DatabaseFile
<1>5. TypeOK'
  <2>1. file' \in DatabaseFile
    BY <1>1, <1>2, <1>4
  <2>2. TypeOK /\ existing' \in [Processes -> SUBSET TenancyColumns]
    BY <1>1 DEF MigInv, TypeOK
  <2>3. QED
    BY <1>1, <2>1, <2>2, AutocommitKeepsTypes
<1>6. file'.items # Absent
  BY <1>1, <1>3, <1>4, MigrationAssumption
<1>7. FileInv'
  <2>1. CASE file.items # Absent
    BY <1>1, <2>1 DEF MigInv, FileInv, Kept
  <2>2. CASE file.items = Absent
    BY <1>1, <1>3, <1>4, <1>6, <2>2 DEF MigInv, FileInv, Kept
  <2>3. QED
    BY <2>1, <2>2
<1>8. ASSUME NEW q \in Processes
      PROVE  PlaceInv(q)' /\ (lock' = q => Staged(q)')
  <2>1. lock' # q
    BY <1>1, MigrationAssumption
  <2>2. CASE q = p
    BY <1>1, <1>2, <1>6, <2>1, <2>2 DEF PlaceInv
  <2>3. CASE q # p /\ file.items # Absent
    BY <1>1, <1>2, <2>1, <2>3 DEF MigInv, PlaceInv, Upgraded, Filled
  <2>4. CASE q # p /\ file.items = Absent
    <3>1. at'[q] \in {"down", "create"}
      BY <1>1, <1>2, <2>4 DEF MigInv, PlaceInv
    <3>2. QED
      BY <2>1, <3>1 DEF PlaceInv
  <2>5. QED
    BY <2>2, <2>3, <2>4
<1>9. QED
  BY <1>5, <1>7, <1>8 DEF MigInv

(* Looking at the columns, starting, and leaving the file alone.           *)
LEMMA LookingKeepsInv ==
  ASSUME MigInv, NEW p \in Processes, inspect(p) \/ start(p) \/ close(p)
  PROVE  MigInv'
<1>1. \/ at[p] = "inspect" /\ at' = [at EXCEPT ![p] = "add"]
           /\ existing' = [existing EXCEPT ![p] = file.columns]
      \/ at[p] = "down" /\ at' = [at EXCEPT ![p] = "create"] /\ existing' = existing
      \/ at[p] = "open" /\ at' = [at EXCEPT ![p] = "down"] /\ existing' = existing
  BY DEF inspect, start, close, Reach
<1>2. UNCHANGED <<file, working, lock, kills, original>>
  BY DEF inspect, start, close
<1>3. file.columns \in SUBSET TenancyColumns /\ lock # p
  BY <1>1 DEF MigInv, TypeOK, DatabaseFile
<1>4. TypeOK'
  BY <1>1, <1>2, <1>3 DEF MigInv, TypeOK
<1>5. FileInv'
  BY <1>2 DEF MigInv, FileInv, Kept
<1>6. PlaceInv(p)' /\ lock' # p
  BY <1>1, <1>2, <1>3 DEF MigInv, TypeOK, PlaceInv
<1>7. ASSUME NEW q \in Processes, q # p
      PROVE  PlaceInv(q)' /\ (lock' = q => Staged(q)')
  <2>1. at'[q] = at[q] /\ existing'[q] = existing[q] /\ working'[q] = working[q]
    BY <1>1, <1>2, <1>7 DEF MigInv, TypeOK
  <2>2. QED
    BY <1>2, <1>7, <2>1, OthersKeepTheirPlace
<1>8. QED
  BY <1>4, <1>5, <1>6, <1>7 DEF MigInv

(* ALTER TABLE leaves the rows, the key and the triggers as they are.      *)
LEMMA AddingKeepsInv ==
  ASSUME MigInv, NEW p \in Processes, add_column(p)
  PROVE  MigInv'
<1> DEFINE column == NextColumn(TenancyColumns \ existing[p])
           wider == [file EXCEPT !.columns = @ \cup {column}]
<1>1. /\ at[p] = "add" /\ lock = NoOne
      /\ column \in TenancyColumns
      /\ file' = wider
      /\ existing' = [existing EXCEPT ![p] = @ \cup {column}]
      /\ UNCHANGED <<working, lock, at, kills, original>>
  BY DEF add_column, NextColumn, TenancyColumns
<1> HIDE DEF column
<1>2. file \in DatabaseFile /\ existing \in [Processes -> SUBSET TenancyColumns]
  BY DEF MigInv, TypeOK
<1>3. /\ wider \in DatabaseFile
      /\ wider.items = file.items /\ wider.v2 = file.v2 /\ wider.columns = file.columns \cup {column}
      /\ wider.primary = file.primary /\ wider.triggers = file.triggers
  BY <1>1, <1>2 DEF DatabaseFile
<1> HIDE DEF wider
<1>4. TypeOK'
  BY <1>1, <1>2, <1>3 DEF MigInv, TypeOK
<1>5. FileInv'
  BY <1>1, <1>3 DEF MigInv, FileInv, Kept
<1>6. ASSUME NEW q \in Processes
      PROVE  PlaceInv(q)' /\ (lock' = q => Staged(q)')
  <2>1. lock' # q
    BY <1>1, MigrationAssumption
  <2>2. at'[q] = "add" => existing'[q] \subseteq file'.columns
    BY <1>1, <1>2, <1>3 DEF MigInv, PlaceInv
  <2>3. Upgraded => Upgraded'
    BY <1>1, <1>3 DEF Upgraded, Filled
  <2>4. QED
    BY <1>1, <1>3, <2>1, <2>2, <2>3 DEF MigInv, PlaceInv
<1>7. QED
  BY <1>4, <1>5, <1>6 DEF MigInv

-----------------------------------------------------------------------------
(* A statement in the transaction changes only the copy of its process, so *)
(* it is right when that copy is as the next statement expects it.         *)
LEMMA StagingKeepsInv ==
  ASSUME MigInv, NEW p \in Processes, at[p] \in {"add", "rebuild", "copy", "drop", "rename"},
         NEW step \in {"rebuild", "copy", "drop", "rename", "commit"}, NEW new \in DatabaseFile,
         at' = [at EXCEPT ![p] = step], working' = [working EXCEPT ![p] = new],
         lock \in {p, NoOne}, lock' = p,
         UNCHANGED <<file, existing, kills, original>>,
         Staged(p)'
  PROVE  MigInv'
<1>1. ASSUME NEW q \in Processes, q # p
      PROVE  /\ at'[q] = at[q] /\ existing'[q] = existing[q] /\ working'[q] = working[q]
             /\ lock # q /\ lock' # q
  BY <1>1, MigrationAssumption DEF MigInv, TypeOK
<1>2. at'[p] = step
  BY DEF MigInv, TypeOK
<1>3. TypeOK'
  BY <1>1, <1>2 DEF MigInv, TypeOK
<1>4. FileInv'
  BY DEF MigInv, FileInv, Kept
<1>5. PlaceInv(p)'
  BY <1>2 DEF MigInv, PlaceInv
<1>6. ASSUME NEW q \in Processes, q # p
      PROVE  PlaceInv(q)' /\ (lock' = q => Staged(q)')
  BY <1>1, <1>6, OthersKeepTheirPlace
<1>7. QED
  BY <1>3, <1>4, <1>5, <1>6 DEF MigInv

(* The backfills fill in every tenant, in the process's copy.              *)
LEMMA BackfillingKeepsInv ==
  ASSUME MigInv, NEW p \in Processes, backfill(p)
  PROVE  MigInv'
<1> DEFINE new == [file EXCEPT !.items = backfilled(@)]
<1>1. /\ at[p] = "add" /\ TenancyColumns \subseteq existing[p] /\ lock = NoOne /\ lock' = p
      /\ working' = [working EXCEPT ![p] = new] /\ at' = [at EXCEPT ![p] = "rebuild"]
      /\ UNCHANGED <<file, existing, kills, original>>
  BY DEF backfill, Reach
<1>2. file \in DatabaseFile /\ original \in Table \cup {Absent}
  BY DEF MigInv, TypeOK, FileInv
<1>3. Kept(file.items) /\ file.columns = TenancyColumns
  BY <1>1, <1>2 DEF MigInv, FileInv, PlaceInv, DatabaseFile
<1>4. Filled(backfilled(file.items))
  BY <1>2, <1>3, BackfillFills
<1>5. /\ new \in DatabaseFile
      /\ new.items = backfilled(file.items) /\ new.v2 = Absent /\ new.columns = TenancyColumns
      /\ new.primary = file.primary /\ new.triggers = file.triggers
  BY <1>2, <1>3, <1>4 DEF DatabaseFile, Filled, MigInv, FileInv
<1> HIDE DEF new
<1>6. working'[p] = new /\ at'[p] = "rebuild"
  BY <1>1 DEF MigInv, TypeOK
<1>7. Staged(p)'
  BY <1>1, <1>4, <1>5, <1>6 DEF Staged, Filled
<1>8. QED
  BY <1>1, <1>5, <1>7, StagingKeepsInv

(* The rebuild: the new table gets every row, and takes the old one's name.*)
LEMMA RebuildingKeepsInv ==
  ASSUME MigInv, NEW p \in Processes,
         create_v2(p) \/ copy_rows(p) \/ drop_table(p) \/ rename_table(p)
  PROVE  MigInv'
<1> DEFINE w == working[p]
<1>1. at[p] \in {"rebuild", "copy", "drop", "rename"}
  BY DEF create_v2, copy_rows, drop_table, rename_table, in_transaction
<1>2. lock = p /\ w \in DatabaseFile /\ Staged(p)
  BY <1>1 DEF MigInv, TypeOK
<1>3. ASSUME NEW step \in {"rebuild", "copy", "drop", "rename", "commit"},
             NEW new \in DatabaseFile, NEW from, in_transaction(p, from, step, new)
      PROVE  /\ at' = [at EXCEPT ![p] = step] /\ working' = [working EXCEPT ![p] = new]
             /\ at'[p] = step /\ working'[p] = new
             /\ UNCHANGED <<file, lock, existing, kills, original>>
  BY <1>3 DEF in_transaction, Reach, MigInv, TypeOK
<1>4. CASE create_v2(p) /\ w.primary = "id"
  <2> DEFINE empty == [id \in Ids |-> Absent]
             new == [w EXCEPT !.v2 = empty]
  <2>1. in_transaction(p, "rebuild", "copy", new) /\ at[p] = "rebuild"
    BY <1>4 DEF create_v2, in_transaction
  <2>2. empty \in Table
    BY DEF Table
  <2>3. /\ new \in DatabaseFile /\ new.columns = w.columns /\ new.items = w.items
        /\ new.triggers = w.triggers
    BY <1>2, <2>2 DEF DatabaseFile
  <2> HIDE DEF new
  <2>4. Staged(p)'
    BY <1>2, <1>3, <1>4, <2>1, <2>3 DEF Staged, Filled
  <2>5. QED
    BY <1>1, <1>2, <1>3, <2>1, <2>3, <2>4, StagingKeepsInv
<1>5. CASE create_v2(p) /\ w.primary # "id"
  <2>1. in_transaction(p, "rebuild", "commit", w) /\ at[p] = "rebuild"
    BY <1>5 DEF create_v2, in_transaction
  <2>2. w.primary = New
    BY <1>2, <1>5 DEF DatabaseFile, New
  <2>3. Staged(p)'
    BY <1>2, <1>3, <2>1, <2>2 DEF Staged, Filled
  <2>4. QED
    BY <1>1, <1>2, <1>3, <2>1, <2>3, StagingKeepsInv
<1>6. CASE copy_rows(p)
  <2> DEFINE new == [w EXCEPT !.v2 = w.items]
  <2>1. in_transaction(p, "copy", "drop", new) /\ at[p] = "copy"
    BY <1>6 DEF copy_rows, in_transaction
  <2>2. /\ new \in DatabaseFile /\ new.columns = w.columns /\ new.items = w.items
        /\ new.v2 = w.items /\ new.triggers = w.triggers
    BY <1>2 DEF DatabaseFile
  <2> HIDE DEF new
  <2>3. Staged(p)'
    BY <1>2, <1>3, <2>1, <2>2 DEF Staged, Filled
  <2>4. QED
    BY <1>1, <1>2, <1>3, <2>1, <2>2, <2>3, StagingKeepsInv
<1>7. CASE drop_table(p)
  <2> DEFINE new == [w EXCEPT !.items = Absent, !.triggers = FALSE]
  <2>1. in_transaction(p, "drop", "rename", new) /\ at[p] = "drop"
    BY <1>7 DEF drop_table, in_transaction
  <2>2. new \in DatabaseFile /\ new.columns = w.columns /\ new.v2 = w.v2
    BY <1>2 DEF DatabaseFile
  <2> HIDE DEF new
  <2>3. file.primary # New
    BY <1>2, <2>1 DEF Staged, New
  <2>4. Staged(p)'
    BY <1>2, <1>3, <2>1, <2>2, <2>3 DEF Staged, Filled
  <2>5. QED
    BY <1>1, <1>2, <1>3, <2>1, <2>2, <2>4, StagingKeepsInv
<1>8. CASE rename_table(p)
  <2> DEFINE new == [w EXCEPT !.items = w.v2, !.v2 = Absent, !.primary = New]
  <2>1. in_transaction(p, "rename", "commit", new) /\ at[p] = "rename"
    BY <1>8 DEF rename_table, in_transaction, New
  <2>2. /\ new \in DatabaseFile /\ new.columns = w.columns /\ new.items = w.v2
        /\ new.v2 = Absent /\ new.primary = New
    BY <1>2 DEF DatabaseFile, New
  <2> HIDE DEF new
  <2>3. file.primary # New
    BY <1>2, <2>1 DEF Staged, New
  <2>4. Staged(p)'
    BY <1>2, <1>3, <2>1, <2>2, <2>3 DEF Staged, Filled
  <2>5. QED
    BY <1>1, <1>2, <1>3, <2>1, <2>2, <2>4, StagingKeepsInv
<1>9. QED
  BY <1>4, <1>5, <1>6, <1>7, <1>8

(* The commit makes the file current but for the triggers; and when it was *)
(* that already, nobody who has it open loses what it relies on.           *)
LEMMA CommittingKeepsInv ==
  ASSUME MigInv, NEW p \in Processes, commit(p)
  PROVE  MigInv'
<1> DEFINE w == working[p]
<1>1. /\ at[p] = "commit" /\ file' = w /\ lock' = NoOne /\ at' = [at EXCEPT ![p] = "secure"]
      /\ UNCHANGED <<working, existing, kills, original>>
  BY DEF commit, Reach
<1>2. lock = p /\ w \in DatabaseFile /\ Staged(p)
  BY <1>1 DEF MigInv, TypeOK
<1>3. /\ Filled(w.items) /\ w.v2 = Absent /\ w.columns = TenancyColumns /\ w.primary = New
      /\ file.primary = New => w.triggers = file.triggers
  BY <1>1, <1>2 DEF Staged
<1>4. Kept(w.items) /\ w.items # Absent
  BY <1>3, FilledIsKept
<1>5. TypeOK'
  BY <1>1, <1>2, MigrationAssumption DEF MigInv, TypeOK
<1>6. FileInv'
  BY <1>1, <1>3, <1>4 DEF MigInv, FileInv, Kept
<1>7. Upgraded'
  BY <1>1, <1>3 DEF Upgraded, Filled
<1>8. ASSUME NEW q \in Processes
      PROVE  PlaceInv(q)' /\ (lock' = q => Staged(q)')
  <2>1. lock' # q
    BY <1>1, MigrationAssumption
  <2>2. at'[q] = IF q = p THEN "secure" ELSE at[q]
    BY <1>1 DEF MigInv, TypeOK
  <2>3. existing[q] \subseteq TenancyColumns
    BY DEF MigInv, TypeOK
  <2>4. at[q] = "open" => file.primary = New /\ file.triggers
    BY DEF MigInv, PlaceInv, Upgraded
  <2>5. PlaceInv(q)'
    BY <1>1, <1>3, <1>4, <1>7, <2>2, <2>3, <2>4 DEF PlaceInv
  <2>6. QED
    BY <2>1, <2>5
<1>9. QED
  BY <1>5, <1>6, <1>8 DEF MigInv

(* The triggers change no row.                                             *)
LEMMA SecuringKeepsInv ==
  ASSUME MigInv, NEW p \in Processes, create_triggers(p)
  PROVE  MigInv'
<1> DEFINE new == [file EXCEPT !.triggers = TRUE]
<1>1. /\ at[p] = "secure" /\ lock = NoOne /\ at' = [at EXCEPT ![p] = "open"]
      /\ file' = new
      /\ UNCHANGED <<working, lock, existing, kills, original>>
  BY DEF create_triggers, autocommitted, Reach
<1>2. file \in DatabaseFile
  BY DEF MigInv, TypeOK
<1>3. /\ new \in DatabaseFile
      /\ new.items = file.items /\ new.v2 = file.v2 /\ new.columns = file.columns
      /\ new.primary = file.primary /\ new.triggers
  BY <1>2 DEF DatabaseFile
<1> HIDE DEF new
<1>4. TypeOK'
  <2>1. TypeOK /\ existing' \in [Processes -> SUBSET TenancyColumns]
    BY <1>1 DEF MigInv, TypeOK
  <2>2. QED
    BY <1>1, <1>3, <2>1, AutocommitKeepsTypes
<1>5. FileInv'
  BY <1>1, <1>3 DEF MigInv, FileInv, Kept
<1>6. Upgraded => Upgraded'
  BY <1>1, <1>3 DEF Upgraded, Filled
<1>7. ASSUME NEW q \in Processes
      PROVE  PlaceInv(q)' /\ (lock' = q => Staged(q)')
  <2>1. lock' # q
    BY <1>1, MigrationAssumption
  <2>2. at'[q] = IF q = p THEN "open" ELSE at[q]
    BY <1>1 DEF MigInv, TypeOK
  <2>3. QED
    BY <1>1, <1>3, <1>6, <2>1, <2>2 DEF MigInv, PlaceInv
<1>8. QED
  BY <1>4, <1>5, <1>7 DEF MigInv

-----------------------------------------------------------------------------
(* A process that fails or is killed loses its copy and nothing else.      *)
LEMMA GoingKeepsInv ==
  ASSUME MigInv, NEW p \in Processes, fail(p) \/ kill(p)
  PROVE  MigInv'
<1>1. gone(p) /\ kills' \in 0..MaxKills
  BY MigrationAssumption DEF fail, kill, MigInv, TypeOK
<1>2. /\ at' = [at EXCEPT ![p] = "down"] /\ lock' = IF lock = p THEN NoOne ELSE lock
      /\ UNCHANGED <<file, working, existing, original>>
  BY <1>1 DEF gone, Reach
<1>3. \A q \in Processes : at'[q] = IF q = p THEN "down" ELSE at[q]
  BY <1>2 DEF MigInv, TypeOK
<1>4. TypeOK'
  BY <1>1, <1>2, <1>3, MigrationAssumption DEF MigInv, TypeOK
<1>5. FileInv'
  BY <1>2 DEF MigInv, FileInv, Kept
<1>6. PlaceInv(p)' /\ lock' # p
  BY <1>2, <1>3, MigrationAssumption DEF PlaceInv
<1>7. ASSUME NEW q \in Processes, q # p
      PROVE  PlaceInv(q)' /\ (lock' = q => Staged(q)')
  BY <1>2, <1>3, <1>7, OthersKeepTheirPlace
<1>8. QED
  BY <1>4, <1>5, <1>6, <1>7 DEF MigInv

(* Every step keeps the invariant.                                         *)
LEMMA StepKeepsMigInv ==
  ASSUME MigInv, [Next]_vars
  PROVE  MigInv'
<1>1. ASSUME NEW p \in Processes, start(p) \/ Statement(p) \/ fail(p) \/ kill(p) \/ close(p)
      PROVE  MigInv'
  BY <1>1, LookingKeepsInv, CreatingKeepsInv, AddingKeepsInv, BackfillingKeepsInv,
     RebuildingKeepsInv, CommittingKeepsInv, SecuringKeepsInv, GoingKeepsInv DEF Statement
<1>2. ASSUME UNCHANGED vars
      PROVE  MigInv'
  BY <1>2 DEF vars, MigInv, TypeOK, FileInv, Kept, PlaceInv, Upgraded, Filled, Staged
<1>3. QED
  BY <1>1, <1>2 DEF Next

(* The inductive invariant holds in every state.                           *)
LEMMA MigInvariance == Spec => []MigInv
<1>1. MigInv /\ [Next]_vars => MigInv'
  BY StepKeepsMigInv
<1>2. QED
  BY InitImpliesMigInv, <1>1, PTL DEF Spec

(* Every variable keeps its type, and the lock is held exactly by the      *)
(* process that is between its first backfill and its commit.              *)
THEOREM MigrationTypeCorrect == Spec => []TypeOK
<1>1. MigInv => TypeOK
  BY DEF MigInv
<1>2. QED
  BY <1>1, MigInvariance, PTL

(* Whatever is killed wherever, no row of the file is lost, duplicated or  *)
(* given a tenant that it had not, but the default one.                    *)
THEOREM NoRowIsLost == Spec => []RowsSurvive
<1>1. MigInv => RowsSurvive
  BY DEF MigInv, FileInv, Kept, RowsSurvive
<1>2. QED
  BY <1>1, MigInvariance, PTL

(* A process that has the file open finds it current, whatever others do.  *)
THEOREM OpenedIsCurrent == Spec => []OpenMeansCurrent
<1>1. ASSUME MigInv, NEW p \in Processes, at[p] = "open"
      PROVE  Current
  <2>1. Upgraded /\ file.triggers
    BY <1>1 DEF MigInv, PlaceInv
  <2>2. file.items # Absent
    BY <2>1, FilledIsKept DEF Upgraded
  <2>3. QED
    BY <2>1, <2>2 DEF Upgraded, Filled, Current, New
<1>2. MigInv => OpenMeansCurrent
  BY <1>1 DEF OpenMeansCurrent
<1>3. QED
  BY <1>2, MigInvariance, PTL
=============================================================================
