----------------------- MODULE TrilithDatabaseProofs -----------------------
(***************************************************************************)
(* Operations are atomic whatever the processes do, and what is            *)
(* acknowledged is committed, but for the transaction of a failed purge.   *)
(***************************************************************************)
EXTENDS TrilithDatabase, TLAPS

Paired(S) == \A n \in 1..MaxOperations : row(n) \in S <=> audit_row(n) \in S

(* What the types do not say of the jobs' bookkeeping.                     *)
JobsOK ==
  /\ job \in [Processes -> Seq(Statements)]
  /\ at \in [Processes -> Nat]
  /\ executed \in [Processes -> BOOLEAN]
  /\ number \in [Processes -> Nat]
  /\ \A p \in Processes : doing[p] = "job" => at[p] \in 1..Len(job[p])
  /\ \A p \in Commands : doing[p] \in {"down", "job"} /\ pending[p] \subseteq Statements

(* The operation in progress, and what is pending beside it.               *)
OperationOK ==
  LET n == number[Server]
  IN  /\ n \in 1..operations
      /\ Paired(before[Server])
      /\ before[Server] \cap Changes(n) = {}
      /\ before[Server] \subseteq pending[Server]
      /\ pending[Server] \subseteq before[Server] \cup Changes(n)
      /\ audit_row(n) \in pending[Server] => row(n) \in pending[Server]

(* No change has the number of an operation that was not begun.            *)
NumbersOK ==
  \A n \in 1..MaxOperations :
    row(n) \in pending[Server] \/ audit_row(n) \in pending[Server] => n <= operations

AtomicInv ==
  /\ TypeOK
  /\ JobsOK
  /\ NumbersOK
  /\ Paired(file)
  /\ doing[Server] = "operation" => OperationOK
  /\ doing[Server] # "operation" => Paired(pending[Server])

-----------------------------------------------------------------------------
(* Rows, audit rows and statements of jobs are different changes.          *)
LEMMA ChangesApart ==
  /\ \A n : row(n) \notin Statements /\ audit_row(n) \notin Statements
  /\ \A m, n : row(m) # audit_row(n)
  /\ \A m, n : row(m) = row(n) => m = n
  /\ \A m, n : audit_row(m) = audit_row(n) => m = n
BY DEF row, audit_row, Statements, statement

(* Paired sets are closed under union, and statements of jobs are paired.  *)
LEMMA PairedSets ==
  /\ \A S, T : Paired(S) /\ Paired(T) => Paired(S \cup T)
  /\ \A S : S \subseteq Statements => Paired(S)
  /\ Paired({})
BY ChangesApart DEF Paired

(* A process whose transaction ends leaves every other one's as it is.     *)
LEMMA EndingKeepsPending ==
  ASSUME TypeOK, NEW p \in Processes, end_transaction(p)
  PROVE  /\ lock' \in Processes \cup {NoOne}
         /\ implicit' \in [Processes -> BOOLEAN] /\ shared' \in [Processes -> BOOLEAN]
         /\ pending' \in [Processes -> SUBSET Change]
         /\ pending'[p] = {} /\ \A q \in Processes \ {p} : pending'[q] = pending[q]
         /\ \A q \in Processes : pending'[q] # {} => lock' = q
<1>1. \A q \in Processes : pending'[q] = IF q = p THEN {} ELSE pending[q]
  BY DEF TypeOK, end_transaction
<1>2. pending' \in [Processes -> SUBSET Change]
  BY DEF TypeOK, end_transaction
<1>3. implicit' \in [Processes -> BOOLEAN] /\ shared' \in [Processes -> BOOLEAN]
  BY DEF TypeOK, end_transaction
<1>4. \A q \in Processes : pending'[q] # {} => lock' = q
  BY <1>1 DEF TypeOK, end_transaction
<1>5. QED
  BY <1>1, <1>2, <1>3, <1>4 DEF TypeOK, end_transaction

-----------------------------------------------------------------------------
(* Nothing is written, and no operation runs, before the first start.      *)
LEMMA InitIsAtomic == Init => AtomicInv
BY ProcessesAssumption, OperationsAssumption
   DEF Init, AtomicInv, TypeOK, JobsOK, NumbersOK, Paired, Processes

(* A job that begins leaves what is pending and what is committed.         *)
LEMMA BeginningKeepsAtomic ==
  ASSUME AtomicInv, NEW p \in Processes, NEW statements \in Seq(Statements),
         Len(statements) > 0, begin_job(p, statements), doing[p] # "operation",
         UNCHANGED <<file, lock, connVars, number, operations, acked>>
  PROVE  AtomicInv'
<1>1. /\ doing' \in [Processes -> {"down", "job", "serving", "operation"}]
      /\ \A q \in Processes : doing'[q] = IF q = p THEN "job" ELSE doing[q]
  BY DEF AtomicInv, TypeOK, begin_job
<1>2. JobsOK'
  <2>1. /\ job' \in [Processes -> Seq(Statements)] /\ at' \in [Processes -> Nat]
        /\ executed' \in [Processes -> BOOLEAN]
        /\ job'[p] = statements /\ at'[p] = 1
        /\ \A q \in Processes \ {p} : job'[q] = job[q] /\ at'[q] = at[q]
    BY DEF AtomicInv, JobsOK, begin_job
  <2>2. \A q \in Processes : doing'[q] = "job" => at'[q] \in 1..Len(job'[q])
    <3>1. 1 \in 1..Len(job'[p])
      BY <2>1
    <3>2. QED
      BY <1>1, <2>1, <3>1 DEF AtomicInv, JobsOK
  <2>3. QED
    BY <1>1, <2>1, <2>2 DEF AtomicInv, JobsOK, connVars, Processes
<1>3. doing'[Server] = "operation" <=> doing[Server] = "operation"
  BY <1>1 DEF Processes
<1>4. TypeOK'
  BY <1>1 DEF AtomicInv, TypeOK, connVars
<1>5. QED
  BY <1>2, <1>3, <1>4
  DEF AtomicInv, NumbersOK, Paired, OperationOK, connVars

(* Start-up and purge are jobs.                                            *)
LEMMA StartUpIsJob ==
  /\ StartUp \in Seq(Statements) /\ Len(StartUp) = 2
  /\ Purge \in Seq(Statements) /\ Len(Purge) = 1
  /\ \A s \in Jobs : StartUp \o s \in Seq(Statements) /\ Len(StartUp \o s) > 0
<1>1. Purge \in Seq(Statements) /\ Len(Purge) = 1
  BY DEF Purge, Statements
<1>2. <<statement("migrated")>> \in Seq(Statements) /\ Len(<<statement("migrated")>>) = 1
  BY DEF Statements
<1>3. StartUp \in Seq(Statements) /\ Len(StartUp) = 2
  BY <1>1, <1>2 DEF StartUp
<1>4. QED
  BY <1>1, <1>3, JobsAssumption

(* A statement of a job is none of an operation.                           *)
LEMMA ExecutingKeepsAtomic ==
  ASSUME AtomicInv, NEW p \in Processes, execute(p)
  PROVE  AtomicInv'
<1> DEFINE change == job[p][at[p]]
<1>1. change \in Statements
  BY DEF AtomicInv, JobsOK, execute
<1>2. \A q \in Processes :
        pending'[q] = IF q = p THEN pending[q] \cup {change} ELSE pending[q]
  BY DEF execute, write, AtomicInv, TypeOK
<1>3. TypeOK'
  <2>1. /\ pending' \in [Processes -> SUBSET Change]
        /\ implicit' \in [Processes -> BOOLEAN] /\ shared' \in [Processes -> BOOLEAN]
    BY <1>1 DEF execute, write, AtomicInv, TypeOK, Change
  <2>2. \A q \in Processes : pending'[q] # {} => lock' = q
    BY <1>2, ProcessesAssumption DEF execute, write, MayWrite, AtomicInv, TypeOK
  <2>3. QED
    BY <2>1, <2>2 DEF execute, write, AtomicInv, TypeOK
<1>4. JobsOK'
  <2>1. executed' \in [Processes -> BOOLEAN]
    BY DEF execute, AtomicInv, JobsOK
  <2>2. QED
    BY <1>1, <1>2, <2>1 DEF execute, AtomicInv, JobsOK, Processes
<1>5. pending'[Server] = pending[Server] \/ pending'[Server] = pending[Server] \cup {change}
  BY <1>2 DEF Processes
<1>6. NumbersOK'
  BY <1>1, <1>5, ChangesApart DEF execute, AtomicInv, NumbersOK
<1>7. Paired(pending[Server]) => Paired(pending[Server])'
  BY <1>1, <1>5, ChangesApart DEF Paired
<1>8. doing[Server] = "operation" => pending'[Server] = pending[Server]
  BY <1>2 DEF execute, Processes
<1>9. doing'[Server] = "operation" => OperationOK'
  BY <1>8 DEF execute, AtomicInv, OperationOK, Paired
<1>10. QED
  BY <1>3, <1>4, <1>6, <1>7, <1>9 DEF execute, AtomicInv, Paired

(* What the server has pending outside an operation is paired.             *)
LEMMA CommittingKeepsAtomic ==
  ASSUME AtomicInv, NEW p \in Processes, commit(p)
  PROVE  AtomicInv'
<1>1. end_transaction(p) /\ TypeOK
  BY DEF commit, AtomicInv
<1>2. \A q \in Processes :
        \/ doing'[q] = doing[q]
        \/ q = p /\ doing'[q] = (IF p = Server THEN "serving" ELSE "down")
  BY DEF commit, AtomicInv, TypeOK
<1>3. Paired(pending[p])
  BY PairedSets DEF commit, AtomicInv, JobsOK, Processes
<1>4. Paired(file)'
  BY <1>3, PairedSets DEF commit, AtomicInv
<1>5. TypeOK'
  <2>1. doing' \in [Processes -> {"down", "job", "serving", "operation"}]
    BY <1>1 DEF commit, TypeOK
  <2>2. file' \in SUBSET Change
    BY <1>1 DEF commit, TypeOK
  <2>3. acked' \in SUBSET Change
    <3>1. \A i \in DOMAIN job[p] : job[p][i] \in Change
      BY DEF AtomicInv, JobsOK, Change
    <3>2. {job[p][i] : i \in DOMAIN job[p]} \subseteq Change
      BY <3>1
    <3>3. QED
      BY <1>1, <3>2 DEF commit, acked_at_last_commit, TypeOK
  <2>4. QED
    BY <1>1, <2>1, <2>2, <2>3, EndingKeepsPending DEF commit, TypeOK
<1>6. JobsOK'
  <2>1. executed' \in [Processes -> BOOLEAN] /\ at' \in [Processes -> Nat]
    <3>1. at[p] + 1 \in Nat
      BY DEF AtomicInv, JobsOK
    <3>2. at' \in [Processes -> Nat]
      BY <3>1 DEF commit, AtomicInv, JobsOK
    <3>3. QED
      BY <3>2 DEF commit, AtomicInv, JobsOK
  <2>2. \A q \in Processes : doing'[q] = "job" => at'[q] \in 1..Len(job'[q])
    BY <1>2 DEF commit, AtomicInv, JobsOK, TypeOK
  <2>3. \A q \in Commands : doing'[q] \in {"down", "job"}
    BY <1>2, ProcessesAssumption DEF AtomicInv, JobsOK, Processes
  <2>4. \A q \in Commands : pending'[q] \subseteq Statements
    BY <1>1, EndingKeepsPending DEF AtomicInv, JobsOK, Processes
  <2>5. QED
    BY <2>1, <2>2, <2>3, <2>4 DEF commit, AtomicInv, JobsOK
<1>7. pending'[Server] = pending[Server] \/ pending'[Server] = {}
  BY <1>1, EndingKeepsPending DEF Processes
<1>8. NumbersOK'
  BY <1>7 DEF commit, AtomicInv, NumbersOK
<1>9. doing'[Server] = "operation" =>
        doing[Server] = "operation" /\ pending'[Server] = pending[Server]
  BY <1>1, <1>2, EndingKeepsPending DEF commit, Processes
<1>10. doing'[Server] = "operation" => OperationOK'
  BY <1>9 DEF commit, AtomicInv, OperationOK, Paired
<1>11. doing'[Server] # "operation" => Paired(pending[Server])'
  <2>1. doing'[Server] # "operation" =>
          doing[Server] # "operation" \/ pending'[Server] = {}
    BY <1>2, <1>1, EndingKeepsPending DEF commit, Processes
  <2>2. QED
    BY <1>7, <2>1, PairedSets DEF AtomicInv, Paired
<1>12. QED
  BY <1>4, <1>5, <1>6, <1>8, <1>10, <1>11 DEF AtomicInv

-----------------------------------------------------------------------------
(* A process that dies, or a job that fails, takes back what it has not    *)
(* committed, or leaves it as it is.                                       *)
LEMMA LeavingKeepsAtomic ==
  ASSUME AtomicInv, NEW p \in Processes, end_transaction(p),
         doing' = [doing EXCEPT ![p] = "down"],
         UNCHANGED <<file, before, jobVars, number, operations, acked>>
  PROVE  AtomicInv'
<1>1. \A q \in Processes : doing'[q] = IF q = p THEN "down" ELSE doing[q]
  BY DEF AtomicInv, TypeOK
<1>2. pending'[Server] = pending[Server] \/ pending'[Server] = {}
  BY EndingKeepsPending DEF AtomicInv, Processes
<1>3. TypeOK'
  <2>1. doing' \in [Processes -> {"down", "job", "serving", "operation"}]
    BY DEF AtomicInv, TypeOK
  <2>2. QED
    BY <2>1, EndingKeepsPending DEF AtomicInv, TypeOK
<1>4. JobsOK'
  <2>1. \A q \in Commands : pending'[q] \subseteq Statements
    BY EndingKeepsPending DEF AtomicInv, JobsOK, Processes
  <2>2. QED
    BY <1>1, <2>1 DEF AtomicInv, JobsOK, jobVars, Processes
<1>5. NumbersOK'
  BY <1>2 DEF AtomicInv, NumbersOK
<1>6. doing'[Server] = "operation" =>
        doing[Server] = "operation" /\ pending'[Server] = pending[Server]
  BY <1>1, EndingKeepsPending DEF AtomicInv, Processes
<1>7. doing'[Server] # "operation" =>
        doing[Server] # "operation" \/ pending'[Server] = {}
  BY <1>1, EndingKeepsPending DEF AtomicInv, Processes
<1>8. doing'[Server] # "operation" => Paired(pending[Server])'
  BY <1>2, <1>7, PairedSets DEF AtomicInv, Paired
<1>9. QED
  BY <1>3, <1>4, <1>5, <1>6, <1>8 DEF AtomicInv, OperationOK, Paired

(* A failed purge leaves the server's open transaction as it was.          *)
LEMMA FailingKeepsAtomic ==
  ASSUME AtomicInv, NEW p \in Processes, locked(p)
  PROVE  AtomicInv'
<1>1. CASE p = Server /\ job[p] = Purge
  <2>1. \A q \in Processes : doing'[q] = IF q = Server THEN "serving" ELSE doing[q]
    BY <1>1 DEF locked, AtomicInv, TypeOK
  <2>2. TypeOK'
    BY <1>1 DEF locked, AtomicInv, TypeOK
  <2>3. JobsOK'
    BY <1>1, <2>1, ProcessesAssumption DEF locked, AtomicInv, JobsOK, jobVars, Processes
  <2>4. doing'[Server] # "operation" /\ doing[Server] # "operation"
    BY <1>1, <2>1 DEF locked, Processes
  <2>5. QED
    BY <1>1, <2>2, <2>3, <2>4 DEF locked, AtomicInv, NumbersOK, Paired
<1>2. CASE ~(p = Server /\ job[p] = Purge)
  BY <1>2, LeavingKeepsAtomic DEF locked
<1>3. QED
  BY <1>1, <1>2

-----------------------------------------------------------------------------
(* An operation that begins has a number that nothing has yet.             *)
LEMMA OperationBeginsAtomic ==
  ASSUME AtomicInv, begin_operation
  PROVE  AtomicInv'
<1> DEFINE n == operations + 1
<1>1. Server \in Processes /\ n \in 1..MaxOperations
  BY OperationsAssumption DEF Processes, begin_operation, AtomicInv, TypeOK
<1>2. /\ number'[Server] = n /\ before'[Server] = pending[Server]
      /\ doing'[Server] = "operation" /\ pending' = pending /\ operations' = n
      /\ \A q \in Processes \ {Server} : doing'[q] = doing[q]
  BY <1>1 DEF begin_operation, AtomicInv, TypeOK, JobsOK
<1>3. TypeOK'
  BY <1>1 DEF begin_operation, AtomicInv, TypeOK
<1>4. JobsOK'
  <2>1. number' \in [Processes -> Nat]
    BY <1>1 DEF begin_operation, AtomicInv, JobsOK
  <2>2. QED
    BY <1>2, <2>1, ProcessesAssumption
    DEF begin_operation, AtomicInv, JobsOK, jobVars, Processes
<1>5. NumbersOK'
  BY <1>2 DEF AtomicInv, NumbersOK, TypeOK
<1>6. row(n) \notin pending[Server] /\ audit_row(n) \notin pending[Server]
  BY <1>1 DEF AtomicInv, NumbersOK, TypeOK
<1>7. Paired(pending[Server])
  BY DEF begin_operation, AtomicInv
<1>8. OperationOK'
  BY <1>1, <1>2, <1>6, <1>7 DEF OperationOK, Changes, Paired
<1>9. QED
  BY <1>2, <1>3, <1>4, <1>5, <1>8 DEF AtomicInv, begin_operation, Paired

(* The item is written first, its audit row second.                        *)
LEMMA OperationExecutesAtomic ==
  ASSUME AtomicInv, execute_operation
  PROVE  AtomicInv'
<1> DEFINE n == number[Server]
<1>1. Server \in Processes /\ n \in 1..MaxOperations /\ OperationOK /\ n <= operations
  BY OperationsAssumption
  DEF Processes, execute_operation, AtomicInv, TypeOK, OperationOK
<1>2. \/ pending'[Server] = pending[Server] \cup {row(n)}
      \/ pending'[Server] = pending[Server] \cup {audit_row(n)} /\ row(n) \in pending[Server]
  BY <1>1 DEF execute_operation, write, AtomicInv, TypeOK, Written
<1>3. \A q \in Processes \ {Server} : pending'[q] = pending[q]
  BY DEF execute_operation, write, AtomicInv, TypeOK
<1>4. TypeOK'
  <2>1. row(n) \in Change /\ audit_row(n) \in Change
    BY <1>1 DEF Change
  <2>2. pending' \in [Processes -> SUBSET Change] /\ shared' \in [Processes -> BOOLEAN]
    <3>1. CASE write(Server, row(n))
      BY <2>1, <3>1 DEF write, AtomicInv, TypeOK
    <3>2. CASE write(Server, audit_row(n))
      BY <2>1, <3>2 DEF write, AtomicInv, TypeOK
    <3>3. QED
      BY <3>1, <3>2 DEF execute_operation
  <2>3. \A q \in Processes : pending'[q] # {} => lock' = q
    BY <1>3, ProcessesAssumption DEF execute_operation, write, MayWrite, AtomicInv, TypeOK
  <2>4. QED
    BY <1>1, <2>2, <2>3 DEF execute_operation, write, AtomicInv, TypeOK
<1>5. JobsOK'
  BY <1>3, ProcessesAssumption
  DEF execute_operation, AtomicInv, JobsOK, jobVars, Processes
<1>6. NumbersOK'
  BY <1>1, <1>2, ChangesApart DEF execute_operation, AtomicInv, NumbersOK
<1>7. OperationOK'
  BY <1>1, <1>2, ChangesApart DEF execute_operation, OperationOK, Changes, Paired
<1>8. QED
  BY <1>4, <1>5, <1>6, <1>7 DEF execute_operation, AtomicInv, Paired

(* An operation that ends has written both, whether its RELEASE commits or *)
(* leaves them pending.                                                    *)
LEMMA OperationEndsAtomic ==
  ASSUME AtomicInv, end_operation
  PROVE  AtomicInv'
<1> DEFINE n == number[Server]
<1>1. Server \in Processes /\ n \in 1..MaxOperations /\ OperationOK
  BY OperationsAssumption
  DEF Processes, end_operation, AtomicInv, TypeOK, OperationOK
<1>2. \A q \in Processes : doing'[q] = IF q = Server THEN "serving" ELSE doing[q]
  BY DEF end_operation, AtomicInv, TypeOK
<1>3. Paired(pending[Server])
  BY <1>1, ChangesApart DEF end_operation, Written, OperationOK, Changes, Paired
<1>4. Changes(n) \subseteq Change
  BY <1>1 DEF Changes, Change
<1>5. doing' \in [Processes -> {"down", "job", "serving", "operation"}]
      /\ acked' \in SUBSET Change
  BY <1>4 DEF end_operation, AtomicInv, TypeOK
<1>6. CASE implicit[Server]
  <2>1. UNCHANGED <<file, lock, implicit, shared, pending>>
    BY <1>6 DEF end_operation, release
  <2>2. TypeOK'
    BY <1>5, <2>1 DEF end_operation, AtomicInv, TypeOK
  <2>3. JobsOK'
    BY <1>2, <2>1, ProcessesAssumption DEF end_operation, AtomicInv, JobsOK, jobVars, Processes
  <2>4. QED
    BY <1>1, <1>2, <1>3, <2>1, <2>2, <2>3 DEF end_operation, AtomicInv, NumbersOK, Paired
<1>7. CASE ~implicit[Server]
  <2>1. file' = file \cup pending[Server] /\ end_transaction(Server)
    BY <1>7 DEF end_operation, release
  <2>2. pending'[Server] = {} /\ \A q \in Processes \ {Server} : pending'[q] = pending[q]
    BY <1>1, <2>1, EndingKeepsPending DEF AtomicInv
  <2>3. TypeOK'
    BY <1>1, <1>5, <2>1, EndingKeepsPending DEF end_operation, AtomicInv, TypeOK
  <2>4. JobsOK'
    <3>1. \A q \in Commands :
            q \in Processes \ {Server} /\ doing'[q] = doing[q] /\ pending'[q] = pending[q]
      BY <1>2, <2>2, ProcessesAssumption DEF Processes
    <3>2. \A q \in Processes : doing'[q] = "job" => doing[q] = "job"
      BY <1>2
    <3>3. UNCHANGED <<job, at, executed, number>>
      BY DEF end_operation, jobVars
    <3>4. QED
      BY <3>1, <3>2, <3>3 DEF AtomicInv, JobsOK
  <2>5. Paired(file)'
    BY <1>3, <2>1, PairedSets DEF AtomicInv
  <2>6. QED
    BY <1>1, <1>2, <2>2, <2>3, <2>4, <2>5 DEF end_operation, AtomicInv, NumbersOK, Paired
<1>8. QED
  BY <1>6, <1>7

(* An operation that fails takes back to its SAVEPOINT.                    *)
LEMMA OperationFailsAtomic ==
  ASSUME AtomicInv, fail_operation
  PROVE  AtomicInv'
<1>1. Server \in Processes /\ OperationOK
  BY DEF Processes, fail_operation, AtomicInv
<1>2. \A q \in Processes : doing'[q] = IF q = Server THEN "serving" ELSE doing[q]
  BY DEF fail_operation, AtomicInv, TypeOK
<1>3. doing' \in [Processes -> {"down", "job", "serving", "operation"}]
  BY DEF fail_operation, AtomicInv, TypeOK
<1>4. Paired(before[Server]) /\ before[Server] \subseteq pending[Server]
  BY <1>1 DEF OperationOK
<1>5. rollback_to_savepoint \in [Processes -> SUBSET Change]
      /\ \A q \in Processes :
           rollback_to_savepoint[q] = IF q = Server THEN before[Server] ELSE pending[q]
  BY <1>1 DEF rollback_to_savepoint, AtomicInv, TypeOK
<1>6. CASE implicit[Server]
  <2>1. pending' = rollback_to_savepoint /\ UNCHANGED <<file, lock, implicit, shared>>
    BY <1>6 DEF fail_operation
  <2>2. TypeOK'
    BY <1>3, <1>4, <1>5, <2>1 DEF fail_operation, AtomicInv, TypeOK
  <2>3. JobsOK'
    BY <1>2, <1>5, <2>1, ProcessesAssumption
    DEF fail_operation, AtomicInv, JobsOK, jobVars, Processes
  <2>4. NumbersOK'
    BY <1>1, <1>4, <1>5, <2>1 DEF fail_operation, AtomicInv, NumbersOK
  <2>5. QED
    BY <1>1, <1>2, <1>4, <1>5, <2>1, <2>2, <2>3, <2>4 DEF fail_operation, AtomicInv, Paired
<1>7. CASE ~implicit[Server]
  <2>1. file' = file \cup before[Server] /\ end_transaction(Server)
    BY <1>1, <1>5, <1>7 DEF fail_operation
  <2>2. pending'[Server] = {} /\ \A q \in Processes \ {Server} : pending'[q] = pending[q]
    BY <1>1, <2>1, EndingKeepsPending DEF AtomicInv
  <2>3. TypeOK'
    BY <1>1, <1>3, <2>1, EndingKeepsPending DEF fail_operation, AtomicInv, TypeOK
  <2>4. JobsOK'
    <3>1. \A q \in Commands :
            q \in Processes \ {Server} /\ doing'[q] = doing[q] /\ pending'[q] = pending[q]
      BY <1>2, <2>2, ProcessesAssumption DEF Processes
    <3>2. \A q \in Processes : doing'[q] = "job" => doing[q] = "job"
      BY <1>2
    <3>3. UNCHANGED <<job, at, executed, number>>
      BY DEF fail_operation, jobVars
    <3>4. QED
      BY <3>1, <3>2, <3>3 DEF AtomicInv, JobsOK
  <2>5. Paired(file)'
    BY <1>4, <2>1, PairedSets DEF AtomicInv
  <2>6. QED
    BY <1>1, <1>2, <2>2, <2>3, <2>4, <2>5 DEF fail_operation, AtomicInv, NumbersOK, Paired
<1>8. QED
  BY <1>6, <1>7

-----------------------------------------------------------------------------
(* Every step of every process keeps operations atomic.                    *)
LEMMA StepKeepsAtomic ==
  ASSUME AtomicInv, [Next]_vars
  PROVE  AtomicInv'
<1>1. CASE \E p \in Processes : start(p)
  <2>1. PICK p \in Processes : start(p)
    BY <1>1
  <2>2. PICK statements \in Seq(Statements) :
          Len(statements) > 0 /\ begin_job(p, statements)
    <3>1. CASE p = Server
      <4>1. begin_job(p, StartUp)
        BY <2>1, <3>1 DEF start
      <4>2. QED
        BY <4>1, StartUpIsJob
    <3>2. CASE p # Server
      <4>1. PICK command \in Jobs : begin_job(p, StartUp \o command)
        BY <2>1, <3>2 DEF start
      <4>2. QED
        BY <4>1, StartUpIsJob
    <3>3. QED
      BY <3>1, <3>2
  <2>3. QED
    BY <2>1, <2>2, BeginningKeepsAtomic DEF start
<1>2. CASE \E p \in Processes : execute(p)
  BY <1>2, ExecutingKeepsAtomic
<1>3. CASE \E p \in Processes : commit(p)
  BY <1>3, CommittingKeepsAtomic
<1>4. CASE \E p \in Processes : locked(p)
  BY <1>4, FailingKeepsAtomic
<1>5. CASE \E p \in Processes : crash(p)
  BY <1>5, LeavingKeepsAtomic DEF crash
<1>6. CASE purge_expired
  BY <1>6, StartUpIsJob, BeginningKeepsAtomic DEF purge_expired, Processes
<1>7. CASE resolve
  BY <1>7 DEF resolve, AtomicInv, TypeOK, JobsOK, jobVars, NumbersOK, OperationOK, Paired
<1>8. CASE begin_operation \/ execute_operation \/ end_operation \/ fail_operation
  BY <1>8, OperationBeginsAtomic, OperationExecutesAtomic, OperationEndsAtomic,
     OperationFailsAtomic
<1>9. CASE UNCHANGED vars
  BY <1>9 DEF vars, connVars, jobVars, AtomicInv, TypeOK, JobsOK, NumbersOK, OperationOK, Paired
<1>10. QED
  BY <1>1, <1>2, <1>3, <1>4, <1>5, <1>6, <1>7, <1>8, <1>9 DEF Next

(* The inductive invariant holds in every state.                           *)
LEMMA AtomicInvariance == Spec => []AtomicInv
BY InitIsAtomic, StepKeepsAtomic, PTL DEF Spec

(* Every variable keeps its type, and whoever has something pending holds  *)
(* the write lock: so no two processes write at a time.                    *)
THEOREM DatabaseTypeCorrect == Spec => []TypeOK
<1>1. AtomicInv => TypeOK
  BY DEF AtomicInv
<1>2. QED
  BY <1>1, AtomicInvariance, PTL

(* Crashes, failed statements, failed commits and purges included, the     *)
(* file holds an operation whole or not at all.                            *)
THEOREM OperationsAreAtomic == Spec => []AllOrNothing
<1>1. AtomicInv => AllOrNothing
  BY DEF AtomicInv, Paired, AllOrNothing
<1>2. QED
  BY <1>1, AtomicInvariance, PTL

-----------------------------------------------------------------------------
(* Every earlier statement of a job is committed, and the one executed     *)
(* last is pending.                                                        *)
JobDone(p) ==
  doing[p] = "job" =>
    /\ \A i \in 1..(at[p] - 1) : job[p][i] \in file
    /\ executed[p] => job[p][at[p]] \in pending[p]

CommittedInv == AtomicInv /\ \A p \in Processes : JobDone(p)

(* What one step acknowledges and commits.                                 *)
AcknowledgesCommitted ==
  /\ file \subseteq file'
  /\ acked' \ acked \subseteq file' \cup (IF LeftOpen THEN pending'[Server] ELSE {})

(* What is committed at the end of a job is every statement of it.         *)
LEMMA CommittingAcknowledges ==
  ASSUME CommittedInv, NEW p \in Processes, commit(p)
  PROVE  CommittedInv' /\ AcknowledgesCommitted
<1>1. AtomicInv' /\ end_transaction(p) /\ TypeOK
  BY CommittingKeepsAtomic DEF CommittedInv, AtomicInv, commit
<1>2. /\ file' = file \cup pending[p]
      /\ \A i \in 1..at[p] : job[p][i] \in file'
      /\ at[p] \in 1..Len(job[p]) /\ job[p] \in Seq(Statements)
  BY DEF commit, CommittedInv, JobDone, AtomicInv, JobsOK
<1>3. AcknowledgesCommitted
  BY <1>2 DEF commit, acked_at_last_commit, AcknowledgesCommitted
<1>4. \A q \in Processes : q # p => doing'[q] = doing[q]
  BY <1>1 DEF commit, TypeOK
<1>5. doing'[p] = "job" => doing[p] = "job" /\ at'[p] = at[p] + 1 /\ ~executed'[p]
  <2>1. at \in [Processes -> Nat] /\ executed \in [Processes -> BOOLEAN]
    BY DEF CommittedInv, AtomicInv, JobsOK
  <2>2. CASE at[p] < Len(job[p])
    BY <2>1, <2>2 DEF commit
  <2>3. CASE ~(at[p] < Len(job[p]))
    BY <1>1, <2>3 DEF commit, TypeOK
  <2>4. QED
    BY <2>2, <2>3
<1>6. ASSUME NEW q \in Processes
      PROVE  JobDone(q)'
  <2>1. CASE q = p
    BY <1>2, <1>5, <2>1 DEF JobDone, commit
  <2>2. CASE q # p
    <3>1. /\ doing'[q] = doing[q] /\ pending'[q] = pending[q] /\ job' = job
          /\ executed'[q] = executed[q] /\ at'[q] = at[q]
      BY <1>1, <1>4, <2>2, EndingKeepsPending DEF commit, CommittedInv, AtomicInv, JobsOK
    <3>2. QED
      BY <1>2, <3>1 DEF JobDone, CommittedInv
  <2>3. QED
    BY <2>1, <2>2
<1>7. QED
  BY <1>1, <1>3, <1>6 DEF CommittedInv

(* A job that begins has done nothing yet.                                 *)
LEMMA BeginningAcknowledges ==
  ASSUME CommittedInv, NEW p \in Processes, NEW statements, begin_job(p, statements),
         UNCHANGED <<file, connVars, acked>>, AtomicInv'
  PROVE  CommittedInv' /\ AcknowledgesCommitted
<1>1. /\ \A q \in Processes : doing'[q] = IF q = p THEN "job" ELSE doing[q]
      /\ at'[p] = 1 /\ executed'[p] = FALSE
      /\ \A q \in Processes \ {p} :
           job'[q] = job[q] /\ at'[q] = at[q] /\ executed'[q] = executed[q]
  BY DEF begin_job, CommittedInv, AtomicInv, TypeOK, JobsOK
<1>2. ASSUME NEW q \in Processes
      PROVE  JobDone(q)'
  BY <1>1 DEF JobDone, CommittedInv, connVars
<1>3. QED
  BY <1>2 DEF CommittedInv, AcknowledgesCommitted

(* Executing a statement makes it pending.                                 *)
LEMMA ExecutingAcknowledges ==
  ASSUME CommittedInv, NEW p \in Processes, execute(p), AtomicInv'
  PROVE  CommittedInv' /\ AcknowledgesCommitted
<1>1. /\ pending'[p] = pending[p] \cup {job[p][at[p]]}
      /\ \A q \in Processes \ {p} : pending'[q] = pending[q] /\ executed'[q] = executed[q]
  BY DEF execute, write, CommittedInv, AtomicInv, TypeOK, JobsOK
<1>2. UNCHANGED <<file, doing, job, at, acked>>
  BY DEF execute
<1>3. ASSUME NEW q \in Processes
      PROVE  JobDone(q)'
  BY <1>1, <1>2 DEF JobDone, CommittedInv
<1>4. QED
  BY <1>2, <1>3 DEF CommittedInv, AcknowledgesCommitted

(* A process leaves its job, and its transaction with it or not.           *)
LEMMA LeavingAcknowledges ==
  ASSUME CommittedInv, NEW p \in Processes, NEW to \in {"down", "serving"},
         doing' = [doing EXCEPT ![p] = to],
         end_transaction(p) \/ UNCHANGED pending,
         UNCHANGED <<file, jobVars, acked>>, AtomicInv'
  PROVE  CommittedInv' /\ AcknowledgesCommitted
<1>1. /\ \A q \in Processes : doing'[q] = IF q = p THEN to ELSE doing[q]
      /\ \A q \in Processes \ {p} : pending'[q] = pending[q]
  BY DEF end_transaction, CommittedInv, AtomicInv, TypeOK
<1>2. ASSUME NEW q \in Processes
      PROVE  JobDone(q)'
  BY <1>1 DEF JobDone, CommittedInv, jobVars
<1>3. QED
  BY <1>2 DEF CommittedInv, AcknowledgesCommitted

(* An operation's RELEASE commits it, if no transaction lies around it;    *)
(* if one does, it was left open and keeps what was written pending.       *)
LEMMA OperatingAcknowledges ==
  ASSUME CommittedInv, AtomicInv',
         begin_operation \/ execute_operation \/ end_operation \/ fail_operation
  PROVE  CommittedInv' /\ AcknowledgesCommitted
<1>1. doing[Server] # "job" /\ Server \in Processes
  BY DEF Processes, begin_operation, execute_operation, end_operation, fail_operation
<1>2. /\ UNCHANGED jobVars
      /\ doing'[Server] # "job"
      /\ \A q \in Processes \ {Server} : doing'[q] = doing[q]
  BY <1>1 DEF CommittedInv, AtomicInv, TypeOK, begin_operation, execute_operation,
              end_operation, fail_operation
<1>3. /\ file \subseteq file'
      /\ \A q \in Processes \ {Server} : pending'[q] = pending[q]
  <2>1. CASE begin_operation
    BY <2>1 DEF begin_operation
  <2>2. CASE execute_operation
    BY <2>2 DEF execute_operation, write, CommittedInv, AtomicInv, TypeOK
  <2>3. CASE end_operation
    BY <2>3 DEF end_operation, release, end_transaction, CommittedInv, AtomicInv, TypeOK
  <2>4. CASE fail_operation
    BY <2>4 DEF fail_operation, rollback_to_savepoint, end_transaction, CommittedInv,
                AtomicInv, TypeOK
  <2>5. QED
    BY <2>1, <2>2, <2>3, <2>4
<1>4. AcknowledgesCommitted
  <2>1. CASE end_operation
    <3>1. Changes(number[Server]) \subseteq pending[Server]
      BY <2>1 DEF end_operation, Written
    <3>2. acked' = acked \cup Changes(number[Server])
      BY <2>1 DEF end_operation
    <3>3. CASE implicit[Server]
      BY <1>1, <1>3, <2>1, <3>1, <3>2, <3>3
        DEF end_operation, release, AcknowledgesCommitted, LeftOpen
    <3>4. CASE ~implicit[Server]
      BY <1>3, <2>1, <3>1, <3>2, <3>4 DEF end_operation, release, AcknowledgesCommitted
    <3>5. QED
      BY <3>3, <3>4
  <2>2. CASE ~end_operation
    BY <1>3, <2>2 DEF begin_operation, execute_operation, fail_operation,
                      AcknowledgesCommitted
  <2>3. QED
    BY <2>1, <2>2
<1>5. ASSUME NEW q \in Processes
      PROVE  JobDone(q)'
  BY <1>2, <1>3 DEF JobDone, CommittedInv, jobVars
<1>6. QED
  BY <1>4, <1>5 DEF CommittedInv

-----------------------------------------------------------------------------
(* Every step keeps the invariant and acknowledges only what it may.       *)
LEMMA StepAcknowledges ==
  ASSUME CommittedInv, [Next]_vars
  PROVE  CommittedInv' /\ [AcknowledgesCommitted]_vars
<1>1. AtomicInv'
  BY StepKeepsAtomic DEF CommittedInv
<1>2. CASE \E p \in Processes : start(p)
  <2>1. PICK p \in Processes : start(p)
    BY <1>2
  <2>2. PICK statements : begin_job(p, statements)
    BY <2>1 DEF start
  <2>3. QED
    BY <1>1, <2>1, <2>2, BeginningAcknowledges DEF start
<1>3. CASE \E p \in Processes : execute(p)
  BY <1>1, <1>3, ExecutingAcknowledges
<1>4. CASE \E p \in Processes : commit(p)
  BY <1>4, CommittingAcknowledges
<1>5. CASE \E p \in Processes : locked(p)
  BY <1>1, <1>5, LeavingAcknowledges DEF locked
<1>6. CASE \E p \in Processes : crash(p)
  BY <1>1, <1>6, LeavingAcknowledges DEF crash
<1>7. CASE purge_expired
  BY <1>1, <1>7, BeginningAcknowledges DEF purge_expired, Processes
<1>8. CASE resolve
  BY <1>1, <1>8 DEF resolve, jobVars, CommittedInv, JobDone, AcknowledgesCommitted
<1>9. CASE begin_operation \/ execute_operation \/ end_operation \/ fail_operation
  BY <1>1, <1>9, OperatingAcknowledges
<1>10. CASE UNCHANGED vars
  BY <1>1, <1>10 DEF vars, connVars, jobVars, CommittedInv, JobDone
<1>11. QED
  BY <1>2, <1>3, <1>4, <1>5, <1>6, <1>7, <1>8, <1>9, <1>10 DEF Next

(* Nothing committed is lost, and what a caller is told is done is         *)
(* committed by then, unless a failed purge has left a transaction open,   *)
(* where what the server acknowledges is pending.                          *)
THEOREM AcknowledgesWhatIsCommitted == Spec => AcknowledgedIsCommitted
<1>1. Init => CommittedInv
  BY InitIsAtomic DEF Init, CommittedInv, JobDone
<1>2. CommittedInv /\ [Next]_vars => CommittedInv' /\ [AcknowledgesCommitted]_vars
  BY StepAcknowledges
<1>3. QED
  BY <1>1, <1>2, PTL DEF Spec, AcknowledgedIsCommitted, AcknowledgesCommitted
=============================================================================
