-------------------------- MODULE TrilithDatabase --------------------------
(***************************************************************************)
(* The SQLite file that the server and the trilith commands share, and     *)
(* when what a process writes to it is committed (core/sqlite_backend.py,  *)
(* core/auth.py, core/cli.py, core/runtime.py).                            *)
(*                                                                         *)
(* A process has one connection.  It writes in two ways:                   *)
(*   an operation   SAVEPOINT, statements, RELEASE: atomic_operation       *)
(*   a job          statements each followed by commit(): start-up, purge, *)
(*                  minting a key (two commits), revoking one              *)
(* Python's sqlite3 begins a transaction by itself before a statement that *)
(* writes, when none is open (implicit), and only commit() ends that one:  *)
(* the RELEASE of a savepoint opened inside it commits nothing.            *)
(*                                                                         *)
(* SQLite lets one process write at a time, and lets it commit only while  *)
(* no other is in a transaction that has read.  A process that waits too   *)
(* long gets "database is locked".                                         *)
(***************************************************************************)
EXTENDS Naturals, Sequences

CONSTANTS
  Server,         \* the process that serves the gateways
  Commands,       \* processes that run a trilith command
  NoOne,          \* the write lock is free
  Jobs,           \* what a command may do after its start-up
  MaxOperations   \* bound: operations begun

Processes == {Server} \cup Commands

(* What is written: an operation stores an item and its audit row; the     *)
(* statements of jobs need no number.                                      *)
row(n) == <<"row", n>>
audit_row(n) == <<"audit", n>>
statement(kind) == <<kind, 0>>

Changes(n) == {row(n), audit_row(n)}

Statements ==
  {statement(kind) : kind \in {"migrated", "purged", "key", "bound", "revoked"}}

ASSUME ProcessesAssumption == Server \notin Commands /\ NoOne \notin Processes
ASSUME JobsAssumption == Jobs \subseteq Seq(Statements)
ASSUME OperationsAssumption == MaxOperations \in Nat

VARIABLES
  file,           \* what is committed
  lock,           \* the process that holds the write lock
  doing,          \* down, job, serving or operation
  implicit,       \* a transaction opened by sqlite3 is open
  shared,         \* the connection is in a transaction that has read
  pending,        \* what it wrote and has not committed
  before,         \* pending at the SAVEPOINT
  job,            \* the statements of the job in progress
  at,             \* the next of them
  executed,       \* it was executed, and not committed
  number,         \* the operation in progress
  operations,     \* operations begun
  acked           \* what callers were told is done

connVars == <<implicit, shared, pending, before>>
jobVars == <<job, at, executed>>
vars == <<file, lock, doing, connVars, jobVars, number, operations, acked>>

Purge == <<statement("purged")>>

StartUp == <<statement("migrated")>> \o Purge

Init ==
  /\ file = {} /\ lock = NoOne /\ acked = {} /\ operations = 0
  /\ doing = [p \in Processes |-> "down"]
  /\ implicit = [p \in Processes |-> FALSE]
  /\ shared = [p \in Processes |-> FALSE]
  /\ pending = [p \in Processes |-> {}]
  /\ before = [p \in Processes |-> {}]
  /\ job = [p \in Processes |-> <<>>]
  /\ at = [p \in Processes |-> 1]
  /\ executed = [p \in Processes |-> FALSE]
  /\ number = [p \in Processes |-> 0]

-----------------------------------------------------------------------------
(* The connection leaves its transaction; what is pending is committed by  *)
(* the caller or lost.                                                     *)
end_transaction(p) ==
  /\ lock' = IF lock = p THEN NoOne ELSE lock
  /\ pending' = [pending EXCEPT ![p] = {}]
  /\ implicit' = [implicit EXCEPT ![p] = FALSE]
  /\ shared' = [shared EXCEPT ![p] = FALSE]

(* Faulty variant: no write lock.                                          *)
may_always_write(p) == TRUE

MayWrite(p) == lock \in {NoOne, p}
MayCommit(p) == \A q \in Processes \ {p} : ~shared[q]

write(p, change) ==
  /\ lock' = p
  /\ pending' = [pending EXCEPT ![p] = @ \cup {change}]
  /\ shared' = [shared EXCEPT ![p] = TRUE]

begin_job(p, statements) ==
  /\ doing' = [doing EXCEPT ![p] = "job"]
  /\ job' = [job EXCEPT ![p] = statements]
  /\ at' = [at EXCEPT ![p] = 1]
  /\ executed' = [executed EXCEPT ![p] = FALSE]

(* build_runtime, then the command's own statements.                       *)
start(p) ==
  /\ doing[p] = "down"
  /\ IF p = Server
     THEN begin_job(p, StartUp)
     ELSE \E statements \in Jobs : begin_job(p, StartUp \o statements)
  /\ UNCHANGED <<file, lock, connVars, number, operations, acked>>

(* POST /v1/purge-expired, a job of the running server.                    *)
purge_expired ==
  /\ doing[Server] = "serving"
  /\ begin_job(Server, Purge)
  /\ UNCHANGED <<file, lock, connVars, number, operations, acked>>

execute(p) ==
  /\ doing[p] = "job"
  /\ ~executed[p]
  /\ MayWrite(p)
  /\ write(p, job[p][at[p]])
  /\ implicit' = [implicit EXCEPT ![p] = TRUE]
  /\ executed' = [executed EXCEPT ![p] = TRUE]
  /\ UNCHANGED <<file, doing, before, job, at, number, operations, acked>>

(* Faulty variant: the caller has its answer after the first commit.       *)
acked_at_first_commit(p) == acked \cup {job[p][i] : i \in DOMAIN job[p]}

(* The caller has its answer after the last commit.                        *)
acked_at_last_commit(p) ==
  IF at[p] = Len(job[p]) THEN acked \cup {job[p][i] : i \in DOMAIN job[p]} ELSE acked

(* After its last commit a command exits and the server serves.            *)
commit(p) ==
  /\ doing[p] = "job"
  /\ executed[p]
  /\ MayCommit(p)
  /\ file' = file \cup pending[p]
  /\ end_transaction(p)
  /\ acked' = acked_at_last_commit(p)
  /\ executed' = [executed EXCEPT ![p] = FALSE]
  /\ IF at[p] < Len(job[p])
     THEN at' = [at EXCEPT ![p] = @ + 1] /\ UNCHANGED doing
     ELSE /\ doing' = [doing EXCEPT ![p] = IF p = Server THEN "serving" ELSE "down"]
          /\ UNCHANGED at
  /\ UNCHANGED <<before, job, number, operations>>

-----------------------------------------------------------------------------
(* "database is locked".  A starting process or a command exits, and its   *)
(* connection goes with it.  The running server answers 500 and keeps the  *)
(* transaction that sqlite3 has opened: a statement that failed wrote      *)
(* nothing, a commit that failed leaves its statement pending.             *)
locked(p) ==
  /\ doing[p] = "job"
  /\ IF executed[p] THEN ~MayCommit(p) ELSE ~MayWrite(p)
  /\ IF p = Server /\ job[p] = Purge
     THEN /\ doing' = [doing EXCEPT ![p] = "serving"]
          /\ implicit' = [implicit EXCEPT ![p] = TRUE]
          /\ UNCHANGED <<lock, shared, pending>>
     ELSE /\ doing' = [doing EXCEPT ![p] = "down"]
          /\ end_transaction(p)
  /\ UNCHANGED <<file, before, jobVars, number, operations, acked>>

(* The process is killed: SQLite rolls back what it had not committed.     *)
crash(p) ==
  /\ doing[p] # "down"
  /\ doing' = [doing EXCEPT ![p] = "down"]
  /\ end_transaction(p)
  /\ UNCHANGED <<file, before, jobVars, number, operations, acked>>

(* A request only reads, the keys at least: in an open transaction that    *)
(* leaves the connection with its read.                                    *)
resolve ==
  /\ doing[Server] = "serving"
  /\ implicit[Server]
  /\ shared' = [shared EXCEPT ![Server] = TRUE]
  /\ UNCHANGED <<file, lock, doing, implicit, pending, before, jobVars, number, operations, acked>>

-----------------------------------------------------------------------------
(* transaction(): SAVEPOINT, and the operation's first read.               *)
begin_operation ==
  /\ doing[Server] = "serving"
  /\ operations < MaxOperations
  /\ operations' = operations + 1
  /\ number' = [number EXCEPT ![Server] = operations + 1]
  /\ doing' = [doing EXCEPT ![Server] = "operation"]
  /\ before' = [before EXCEPT ![Server] = pending[Server]]
  /\ shared' = [shared EXCEPT ![Server] = TRUE]
  /\ UNCHANGED <<file, lock, implicit, pending, jobVars, acked>>

Written(n) == pending[Server] \cap Changes(n)

(* The item is saved, then audited.                                        *)
execute_operation ==
  LET n == number[Server]
  IN  /\ doing[Server] = "operation"
      /\ MayWrite(Server)
      /\ \/ Written(n) = {} /\ write(Server, row(n))
         \/ Written(n) = {row(n)} /\ write(Server, audit_row(n))
      /\ UNCHANGED <<file, doing, implicit, before, jobVars, number, operations, acked>>

(* The outermost RELEASE commits, unless the savepoint lies in a           *)
(* transaction that sqlite3 has opened.                                    *)
release ==
  IF implicit[Server]
  THEN UNCHANGED <<file, lock, implicit, shared, pending>>
  ELSE file' = file \cup pending[Server] /\ end_transaction(Server)

end_operation ==
  /\ doing[Server] = "operation"
  /\ Written(number[Server]) = Changes(number[Server])
  /\ MayCommit(Server)
  /\ release
  /\ acked' = acked \cup Changes(number[Server])
  /\ doing' = [doing EXCEPT ![Server] = "serving"]
  /\ UNCHANGED <<before, jobVars, number, operations>>

(* Faulty variant: what was written before the failure stays.              *)
rollback_nothing == pending

rollback_to_savepoint == [pending EXCEPT ![Server] = before[Server]]

(* Faulty variant: ROLLBACK TO without RELEASE.                            *)
fail_operation_unreleased ==
  /\ doing[Server] = "operation"
  /\ doing' = [doing EXCEPT ![Server] = "serving"]
  /\ pending' = rollback_to_savepoint
  /\ UNCHANGED <<file, lock, implicit, shared, before, jobVars, number, operations, acked>>

(* The operation raises, because the database is locked or for a reason of *)
(* its own: ROLLBACK TO, RELEASE.                                          *)
fail_operation ==
  /\ doing[Server] = "operation"
  /\ doing' = [doing EXCEPT ![Server] = "serving"]
  /\ IF implicit[Server]
     THEN pending' = rollback_to_savepoint /\ UNCHANGED <<file, lock, implicit, shared>>
     ELSE /\ file' = file \cup rollback_to_savepoint[Server]
          /\ end_transaction(Server)
  /\ UNCHANGED <<before, jobVars, number, operations, acked>>

-----------------------------------------------------------------------------
Next ==
  \/ \E p \in Processes : start(p) \/ execute(p) \/ commit(p) \/ locked(p) \/ crash(p)
  \/ purge_expired \/ resolve
  \/ begin_operation \/ execute_operation \/ end_operation \/ fail_operation

(* A process that is up goes on: a job's statements and an operation's     *)
(* statements end in success or in an error.  Nobody has to start a        *)
(* command, to send a request or to restart the server.                    *)
Progress(p) == execute(p) \/ commit(p) \/ locked(p)

Fairness ==
  /\ \A p \in Processes : WF_vars(Progress(p))
  /\ WF_vars(execute_operation \/ end_operation \/ fail_operation)

Spec == Init /\ [][Next]_vars

FairSpec == Spec /\ Fairness

-----------------------------------------------------------------------------
(* Types of every variable, and who holds the lock.                        *)
Change ==
  Statements \cup {row(n) : n \in 1..MaxOperations}
             \cup {audit_row(n) : n \in 1..MaxOperations}

TypeOK ==
  /\ file \in SUBSET Change /\ acked \in SUBSET Change
  /\ lock \in Processes \cup {NoOne}
  /\ doing \in [Processes -> {"down", "job", "serving", "operation"}]
  /\ implicit \in [Processes -> BOOLEAN] /\ shared \in [Processes -> BOOLEAN]
  /\ pending \in [Processes -> SUBSET Change] /\ before \in [Processes -> SUBSET Change]
  /\ \A p \in Processes : pending[p] # {} => lock = p
  /\ operations \in 0..MaxOperations

(* Nothing of a failed or interrupted operation is committed without the   *)
(* rest: an item and its audit row are in the file together or not at all. *)
AllOrNothing ==
  \A n \in 1..MaxOperations : row(n) \in file <=> audit_row(n) \in file

(* A transaction that sqlite3 opened for a purge is still open after it.   *)
LeftOpen == implicit[Server] /\ doing[Server] # "job"

(* What a caller is told is done is committed by then, an item with its    *)
(* audit row, a key with what it is bound to, and nothing committed is     *)
(* lost; or else a failed purge has left its transaction open, and what    *)
(* the server acknowledges is pending there.                               *)
AcknowledgedIsCommitted ==
  [][/\ file \subseteq file'
     /\ acked' \ acked \subseteq file' \cup (IF LeftOpen THEN pending'[Server] ELSE {})]_vars

(* Short of a transaction left open, the server never keeps the other      *)
(* processes from writing for ever.                                        *)
ServerLetsOthersWrite == []<>(LeftOpen \/ (lock # Server /\ ~shared[Server]))

(* What a caller was told is done is committed, always.                    *)
AcknowledgedIsDurable == acked \subseteq file
=============================================================================
