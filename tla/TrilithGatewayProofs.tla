------------------------ MODULE TrilithGatewayProofs ------------------------
(***************************************************************************)
(* Theorems about every instance of Trilith, whatever its tenants, ids,    *)
(* callers, drafts, edits and threads:                                     *)
(*                                                                         *)
(*   TypeCorrect      every variable has its type                          *)
(*   LineageCorrect   LineageIntegrity                                     *)
(*   SummariesHoldTheirSources, LineageIsShown, PurgeFollowsPolicy         *)
(*                    what follows from it for a summary, its readers and  *)
(*                    what a purge takes with an expired row               *)
(*   AuditCorrect     WriteAuditNamesStoredItem                            *)
(*                                                                         *)
(* They all follow from one inductive invariant, IInv.  Before them come   *)
(* the lemmas about what the erase_derived trigger deletes, and what every *)
(* store operation therefore preserves.                                    *)
(***************************************************************************)
EXTENDS TrilithGateway, TLAPS

(* The part of the state the triggers keep consistent.                     *)
StoreInv ==
  /\ StoreTypeOK
  /\ LineageIntegrity
  /\ SummaryHoldsSourceContent
  /\ WriteAuditNamesStoredItem

(* Audit rows that a request may add without naming a row it did not store.*)
NamesNoWrite(a) == a.item = NoItem \/ a.operation # "write"

-----------------------------------------------------------------------------
(* The trigger erase_derived takes what the statement names, only stored   *)
(* rows, and every summary of a row it takes.                              *)
LEMMA CascadeCloses ==
  ASSUME NEW D
  PROVE  /\ D \cap Live \subseteq erase_derived(D)
         /\ erase_derived(D) \subseteq Live
         /\ ClosedUnderFold(erase_derived(D))
<1>1. D \cap Live \subseteq erase_derived(D) /\ erase_derived(D) \subseteq Live
  BY DEF erase_derived
<1>2. ASSUME NEW e \in derived_sources,
             e.source \in erase_derived(D), e.summary \in Live
      PROVE  e.summary \in erase_derived(D)
  <2>1. ASSUME NEW C \in SUBSET Live, D \cap Live \subseteq C, ClosedUnderFold(C)
        PROVE  e.summary \in C
    <3>1. e.source \in C
      BY <1>2, <2>1 DEF erase_derived
    <3>2. QED
      BY <1>2, <2>1, <3>1 DEF ClosedUnderFold
  <2>2. QED
    BY <1>2, <2>1 DEF erase_derived
<1>3. QED
  BY <1>1, <1>2 DEF ClosedUnderFold

(* The trigger takes no more than any closed set of rows that contains     *)
(* what the statement names.                                               *)
LEMMA CascadeIsLeast ==
  ASSUME NEW D, NEW C \in SUBSET Live, D \cap Live \subseteq C, ClosedUnderFold(C)
  PROVE  erase_derived(D) \subseteq C
BY DEF erase_derived

-----------------------------------------------------------------------------
(* Deleting a closed set of rows with the edges and audit rows that touch  *)
(* it keeps the store consistent.                                          *)
LEMMA DeletionKeepsStoreInv ==
  ASSUME StoreInv,
         NEW gone \in SUBSET Live, ClosedUnderFold(gone),
         rows' = RowsWithout(gone),
         derived_sources' = EdgesWithout(gone),
         audit' \in SUBSET AuditRow,
         \A a \in audit' : a \in erase_item_audit(gone) \/ NamesNoWrite(a)
  PROVE  StoreInv'
<1> USE DEF StoreInv
<1>1. \A k \in Keys : rows'[k] = IF k \in gone THEN Absent ELSE rows[k]
  BY DEF RowsWithout
<1>2. StoreTypeOK'
  BY DEF StoreTypeOK, RowsWithout, EdgesWithout
<1>3. \A k : k \in Live' <=> k \in Live /\ k \notin gone
  BY <1>1 DEF Live
<1>4. ASSUME NEW e \in derived_sources'
      PROVE  /\ e \in derived_sources
             /\ e.source \in Keys /\ e.summary \in Keys
             /\ rows'[e.source] = rows[e.source] /\ rows'[e.summary] = rows[e.summary]
             /\ e.source \notin gone /\ e.summary \notin gone
  BY <1>1, <1>4 DEF EdgesWithout, StoreTypeOK, Edge
<1>5. LineageIntegrity'
  BY <1>3, <1>4 DEF LineageIntegrity
<1>6. SummaryHoldsSourceContent'
  <2> SUFFICES ASSUME NEW e \in derived_sources', NEW piece \in rows'[e.summary].content
               PROVE  \E f \in derived_sources' :
                        f.summary = e.summary /\ piece \in rows'[f.source].content
    BY DEF SummaryHoldsSourceContent
  <2>1. PICK f \in derived_sources :
          f.summary = e.summary /\ piece \in rows[f.source].content
    BY <1>4 DEF SummaryHoldsSourceContent
  <2>2. f.source \notin gone
    BY <1>4, <2>1 DEF ClosedUnderFold, LineageIntegrity
  <2>3. f \in derived_sources'
    BY <1>4, <2>1, <2>2 DEF EdgesWithout
  <2>4. QED
    BY <1>4, <2>1, <2>3
<1>7. WriteAuditNamesStoredItem'
  BY <1>3 DEF WriteAuditNamesStoredItem, erase_item_audit, NamesNoWrite
<1>8. QED
  BY <1>2, <1>5, <1>6, <1>7

(* Writing a row under key k after the trigger has taken what the replaced *)
(* row leaves behind keeps the store consistent.                           *)
LEMMA SavingKeepsStoreInv ==
  ASSUME StoreInv,
         NEW k \in Keys, NEW row \in Row,
         save(k, row),
         audit' \in SUBSET AuditRow,
         \A a \in audit' : \/ a \in erase_item_audit(Replaced(k))
                            \/ NamesNoWrite(a)
                            \/ <<a.tenant, a.item>> = k
  PROVE  StoreInv'
<1> DEFINE gone == Replaced(k)
<1> USE DEF StoreInv
<1>1. gone \in SUBSET Live /\ ClosedUnderFold(gone) /\ (k \in Live => k \in gone)
  BY CascadeCloses DEF Replaced
<1> HIDE DEF gone
<1>2. \A j \in Keys : rows'[j] = IF j = k THEN row ELSE IF j \in gone THEN Absent ELSE rows[j]
  BY DEF save, RowsWithout, gone
<1>3. StoreTypeOK'
  BY DEF StoreTypeOK, save, RowsWithout, EdgesWithout
<1>4. \A j \in Keys : j \in Live' <=> j = k \/ (j \in Live /\ j \notin gone)
  BY <1>2, AbsentAssumption DEF Live
<1>5. ASSUME NEW e \in derived_sources'
      PROVE  /\ e \in derived_sources
             /\ e.source \in Keys /\ e.summary \in Keys
             /\ e.source # k /\ e.summary # k
             /\ rows'[e.source] = rows[e.source] /\ rows'[e.summary] = rows[e.summary]
             /\ e.source \notin gone /\ e.summary \notin gone
  <2>1. e \in derived_sources /\ e.source \notin gone /\ e.summary \notin gone
    BY DEF save, EdgesWithout, gone
  <2>2. e.source \in Keys /\ e.summary \in Keys
    BY <2>1 DEF StoreTypeOK, Edge
  <2>3. e.source # k /\ e.summary # k
    BY <1>1, <2>1 DEF LineageIntegrity
  <2>4. QED
    BY <1>2, <2>1, <2>2, <2>3
<1>6. LineageIntegrity'
  BY <1>4, <1>5 DEF LineageIntegrity
<1>7. SummaryHoldsSourceContent'
  <2> SUFFICES ASSUME NEW e \in derived_sources', NEW piece \in rows'[e.summary].content
               PROVE  \E f \in derived_sources' :
                        f.summary = e.summary /\ piece \in rows'[f.source].content
    BY DEF SummaryHoldsSourceContent
  <2>1. PICK f \in derived_sources :
          f.summary = e.summary /\ piece \in rows[f.source].content
    BY <1>5 DEF SummaryHoldsSourceContent
  <2>2. f.source \notin gone
    BY <1>1, <1>5, <2>1 DEF ClosedUnderFold, LineageIntegrity
  <2>3. f \in derived_sources'
    BY <1>5, <2>1, <2>2 DEF save, EdgesWithout, gone
  <2>4. QED
    BY <1>5, <2>1, <2>3
<1>8. WriteAuditNamesStoredItem'
  <2> SUFFICES ASSUME NEW a \in audit', a.operation = "write", a.item # NoItem
               PROVE  <<a.tenant, a.item>> \in Live'
    BY DEF WriteAuditNamesStoredItem
  <2>1. CASE a \in erase_item_audit(gone)
    <3>1. <<a.tenant, a.item>> \in Live /\ <<a.tenant, a.item>> \notin gone
      BY <2>1 DEF WriteAuditNamesStoredItem, erase_item_audit
    <3>2. QED
      BY <1>4, <3>1 DEF Live
  <2>2. CASE <<a.tenant, a.item>> = k
    BY <1>4, <2>2
  <2>3. QED
    BY <2>1, <2>2 DEF NamesNoWrite, gone
<1>9. QED
  BY <1>3, <1>6, <1>7, <1>8

-----------------------------------------------------------------------------
(* A fold never replaces one of its own steps, nor cascades into one.      *)
LEMMA FoldSparesItsSteps ==
  ASSUME StoreInv, NEW p \in Principal, NEW subtask \in Subtasks,
         NEW id \in SummaryIds[fold_args(p, subtask)]
  PROVE  LET k == <<p.tenant, id>>
         IN  /\ k \in Keys
             /\ k \notin steps(p, subtask)
             /\ steps(p, subtask) \cap Replaced(k) = {}
             /\ \A i \in steps(p, subtask) : i \in Live
<1> DEFINE k == <<p.tenant, id>>
           items == steps(p, subtask)
<1> USE DEF StoreInv
<1>1. p.tenant \in Tenants /\ p.owner \in OwnerIds /\ p.session \in SessionIds
  BY DEF Principal
<1>2. \A i \in items : i \in Live /\ i \in Keys /\ i[1] = p.tenant /\ rows[i].subtask = subtask
  BY DEF steps, Live
<1>3. fold_args(p, subtask) \in FoldArgs
  <2>1. {i[2] : i \in items} \in SUBSET Ids
    BY <1>2 DEF Keys
  <2>2. QED
    BY <1>1, <2>1 DEF fold_args, FoldArgs
<1>4. id \in Ids /\ id \notin {i[2] : i \in items}
  <2>1. fold_args(p, subtask).sources = {i[2] : i \in items}
    BY DEF fold_args
  <2>2. QED
    BY <1>3, <2>1, SummaryIdsAssumption
<1>5. k \in Keys
  BY <1>1, <1>4 DEF Keys
<1>6. k \notin items
  BY <1>4
<1>7. items \cap Replaced(k) = {}
  <2> DEFINE C == {j \in Live : j = k \/ rows[j].subtask = NoSubtask}
  <2>1. ClosedUnderFold(C)
    BY DEF ClosedUnderFold, LineageIntegrity
  <2>2. C \in SUBSET Live /\ {k} \cap Live \subseteq C
    OBVIOUS
  <2>3. Replaced(k) \subseteq C
    BY <2>1, <2>2, CascadeIsLeast DEF Replaced
  <2>4. items \cap C = {}
    BY <1>2, <1>6, NoItemAssumption
  <2>5. QED
    BY <2>3, <2>4
<1>8. QED
  BY <1>2, <1>5, <1>6, <1>7

(* A summary has the type of a row.                                        *)
LEMMA SummaryRowType ==
  ASSUME StoreInv, NEW p \in Principal, NEW subtask \in Subtasks, NEW scope \in Scopes,
         NEW expires \in earliest_expiry(steps(p, subtask))
  PROVE  summary_of(p, scope, expires, steps(p, subtask)) \in Row
<1> DEFINE items == steps(p, subtask)
<1>1. \A i \in items : rows[i] \in Row
  BY DEF steps, Live, StoreInv, StoreTypeOK
<1>2. expires \in Int
  BY <1>1 DEF earliest_expiry, Row
<1>3. UNION {rows[i].content : i \in items} \in SUBSET Pieces
  BY <1>1 DEF Row
<1>4. p.owner \in OwnerIds /\ p.session \in SessionIds
  BY DEF Principal
<1>5. QED
  BY <1>2, <1>3, <1>4 DEF summary_of, Row, Tiers

(* Folding keeps the store consistent: the new edges join the summary to   *)
(* steps that are still there.                                             *)
LEMMA FoldingKeepsStoreInv ==
  ASSUME StoreInv, NEW p \in Principal, NEW subtask \in Subtasks,
         NEW scope \in Scopes, NEW id \in SummaryIds[fold_args(p, subtask)],
         fold_into(p, <<p.tenant, id>>, scope, steps(p, subtask))
  PROVE  StoreInv'
<1> DEFINE k == <<p.tenant, id>>
           items == steps(p, subtask)
           gone == Replaced(k)
<1> USE DEF StoreInv
<1>1. gone \in SUBSET Live /\ ClosedUnderFold(gone) /\ (k \in Live => k \in gone)
  BY CascadeCloses DEF Replaced
<1>2. k \in Keys /\ k \notin items /\ items \cap gone = {} /\ items \subseteq Live
  BY FoldSparesItsSteps
<1>3. PICK expires \in earliest_expiry(items) :
        rows' = [RowsWithout(gone) EXCEPT ![k] = summary_of(p, scope, expires, items)]
  BY DEF fold_into
<1>4. /\ derived_sources' = EdgesWithout(gone) \cup {[source |-> i, summary |-> k] : i \in items}
      /\ audit' = erase_item_audit(gone)
      /\ \A i \in items : rows[i].scope = scope
  BY DEF fold_into
<1>5. \A i \in items : /\ i \in Keys /\ rows[i] \in Row /\ i[1] = p.tenant
                        /\ rows[i].tier = "PROCEDURAL" /\ rows[i].subtask = subtask
                        /\ rows[i].owner = p.owner /\ rows[i].session = p.session
                        /\ expires <= rows[i].expires
  BY <1>2, <1>3 DEF steps, earliest_expiry, Live, StoreTypeOK
<1> DEFINE row == summary_of(p, scope, expires, items)
<1>7. row \in Row
  BY <1>3, SummaryRowType
<1>8. /\ row.tier = "PROCEDURAL" /\ row.scope = scope /\ row.owner = p.owner
      /\ row.session = p.session /\ row.subtask = NoSubtask /\ row.expires = expires
      /\ row.content = UNION {rows[i].content : i \in items}
  BY DEF summary_of
<1> HIDE DEF items, gone, row
<1>9. \A j \in Keys : rows'[j] = IF j = k THEN row ELSE IF j \in gone THEN Absent ELSE rows[j]
  BY <1>3 DEF RowsWithout, row
<1>10. StoreTypeOK'
  <2>1. rows' \in [Keys -> Row \cup {Absent}]
    BY <1>2, <1>3, <1>7 DEF StoreTypeOK, RowsWithout, row
  <2>2. derived_sources' \in SUBSET Edge
    BY <1>2, <1>4, <1>5 DEF StoreTypeOK, EdgesWithout, Edge
  <2>3. audit' \in SUBSET AuditRow
    BY <1>4 DEF StoreTypeOK, erase_item_audit
  <2>4. QED
    BY <2>1, <2>2, <2>3 DEF StoreTypeOK
<1>11. \A j \in Keys : j \in Live' <=> j = k \/ (j \in Live /\ j \notin gone)
  BY <1>7, <1>9, AbsentAssumption DEF Live
<1>12. ASSUME NEW e \in EdgesWithout(gone)
       PROVE  /\ e \in derived_sources
              /\ e.source \in Keys /\ e.summary \in Keys
              /\ e.source # k /\ e.summary # k
              /\ rows'[e.source] = rows[e.source] /\ rows'[e.summary] = rows[e.summary]
              /\ e.source \notin gone /\ e.summary \notin gone
  <2>1. e \in derived_sources /\ e.source \notin gone /\ e.summary \notin gone
    BY DEF EdgesWithout
  <2>2. e.source \in Keys /\ e.summary \in Keys
    BY <2>1 DEF StoreTypeOK, Edge
  <2>3. e.source # k /\ e.summary # k
    BY <1>1, <2>1 DEF LineageIntegrity
  <2>4. QED
    BY <1>9, <2>1, <2>2, <2>3
<1>13. \A i \in items : rows'[i] = rows[i] /\ i \in Live'
  BY <1>2, <1>5, <1>9, <1>11
<1>14. rows'[k] = row /\ k \in Live'
  BY <1>2, <1>9, <1>11
<1>15. LineageIntegrity'
  <2>1. ASSUME NEW e \in EdgesWithout(gone)
        PROVE  /\ e.source \in Live' /\ e.summary \in Live'
               /\ e \in derived_sources
               /\ rows'[e.source] = rows[e.source] /\ rows'[e.summary] = rows[e.summary]
    BY <1>11, <1>12 DEF LineageIntegrity
  <2>2. ASSUME NEW i \in items
        PROVE  /\ i \in Live' /\ k \in Live'
               /\ i[1] = k[1]
               /\ rows'[i].tier = "PROCEDURAL" /\ rows'[k].tier = "PROCEDURAL"
               /\ rows'[i].scope = rows'[k].scope
               /\ rows'[i].owner = rows'[k].owner
               /\ rows'[i].session = rows'[k].session
               /\ rows'[k].expires <= rows'[i].expires
               /\ rows'[i].subtask # NoSubtask /\ rows'[k].subtask = NoSubtask
    BY <1>4, <1>5, <1>8, <1>13, <1>14, NoItemAssumption
  <2>3. QED
    BY <1>4, <2>1, <2>2 DEF LineageIntegrity
<1>16. SummaryHoldsSourceContent'
  <2> SUFFICES ASSUME NEW e \in derived_sources', NEW piece \in rows'[e.summary].content
               PROVE  \E f \in derived_sources' :
                        f.summary = e.summary /\ piece \in rows'[f.source].content
    BY DEF SummaryHoldsSourceContent
  <2>1. CASE e \in EdgesWithout(gone)
    <3>1. PICK f \in derived_sources :
            f.summary = e.summary /\ piece \in rows[f.source].content
      BY <1>12, <2>1 DEF SummaryHoldsSourceContent
    <3>2. f.source \notin gone
      BY <1>1, <1>12, <2>1, <3>1 DEF ClosedUnderFold, LineageIntegrity
    <3>3. f \in EdgesWithout(gone)
      BY <1>12, <2>1, <3>1, <3>2 DEF EdgesWithout
    <3>4. QED
      BY <1>4, <1>12, <3>1, <3>3
  <2>2. CASE e.summary = k
    <3>1. PICK i \in items : piece \in rows[i].content
      BY <1>8, <1>14, <2>2
    <3>2. [source |-> i, summary |-> k] \in derived_sources'
      BY <1>4
    <3>3. QED
      BY <1>13, <2>2, <3>1, <3>2
  <2>3. QED
    BY <1>4, <2>1, <2>2
<1>17. WriteAuditNamesStoredItem'
  <2> SUFFICES ASSUME NEW a \in audit', a.operation = "write", a.item # NoItem
               PROVE  <<a.tenant, a.item>> \in Live'
    BY DEF WriteAuditNamesStoredItem
  <2>1. <<a.tenant, a.item>> \in Live /\ <<a.tenant, a.item>> \notin gone
    BY <1>4 DEF WriteAuditNamesStoredItem, erase_item_audit
  <2>2. QED
    BY <1>11, <2>1 DEF Live
<1>18. QED
  BY <1>10, <1>15, <1>16, <1>17
-----------------------------------------------------------------------------
(* The rows audit.record writes are audit rows.                            *)
LEMMA RecordType ==
  ASSUME NEW p \in Principal, NEW item \in Ids \cup {NoItem},
         NEW operation \in {"write", "policy", "assemble", "forget"}
  PROVE  record(p, operation, item) \in AuditRow
BY DEF record, AuditRow, Principal

(* Saving or refusing a request's item keeps the store consistent.         *)
LEMMA StoringKeepsStoreInv ==
  ASSUME StoreInv, NEW p \in Principal, NEW k \in Keys, k[1] = p.tenant,
         NEW row \in Row, store_item(p, k, row)
  PROVE  StoreInv'
<1>1. audit \in SUBSET AuditRow /\ k[2] \in Ids /\ k = <<k[1], k[2]>>
  BY DEF StoreInv, StoreTypeOK, Keys
<1>2. CASE write_denial(rows[k], row, p)
  <2>1. /\ UNCHANGED <<rows, derived_sources>>
        /\ audit' = audit \cup {denied(p)}
    BY <1>2 DEF store_item
  <2>2. denied(p) \in AuditRow /\ denied(p).item = NoItem
    BY RecordType DEF denied, record
  <2>3. QED
    BY <1>1, <2>1, <2>2
    DEF StoreInv, StoreTypeOK, LineageIntegrity, SummaryHoldsSourceContent,
        WriteAuditNamesStoredItem, Live
<1>3. CASE ~write_denial(rows[k], row, p)
  <2> DEFINE entry == record(p, "write", k[2])
  <2>1. save(k, row) /\ audit' = erase_item_audit(Replaced(k)) \cup {entry}
    BY <1>3 DEF store_item
  <2>2. entry \in AuditRow /\ <<entry.tenant, entry.item>> = k
    BY <1>1, RecordType DEF record
  <2>3. audit' \in SUBSET AuditRow
    BY <1>1, <2>1, <2>2 DEF erase_item_audit
  <2>4. \A a \in audit' : a \in erase_item_audit(Replaced(k)) \/ <<a.tenant, a.item>> = k
    BY <2>1, <2>2
  <2>5. QED
    BY <2>1, <2>3, <2>4, SavingKeepsStoreInv
<1>4. QED
  BY <1>2, <1>3

(* Deleting any set of rows through the triggers keeps it consistent.      *)
LEMMA DeletingKeepsStoreInv ==
  ASSUME StoreInv, NEW D, delete_rows(D),
         audit' = erase_item_audit(erase_derived(D))
  PROVE  StoreInv'
<1>1. audit' \in SUBSET AuditRow
  BY DEF StoreInv, StoreTypeOK, erase_item_audit
<1>2. erase_derived(D) \in SUBSET Live /\ ClosedUnderFold(erase_derived(D))
  BY CascadeCloses
<1>3. rows' = RowsWithout(erase_derived(D)) /\ derived_sources' = EdgesWithout(erase_derived(D))
  BY DEF delete_rows
<1>4. \A a \in audit' : a \in erase_item_audit(erase_derived(D))
  OBVIOUS
<1>5. QED
  BY <1>1, <1>2, <1>3, <1>4, DeletionKeepsStoreInv

-----------------------------------------------------------------------------
(* The types, and the consistency of the store.                            *)
IInv == TypeOK /\ StoreInv

-----------------------------------------------------------------------------
(* The rows that requests build have the type of rows.                     *)
LEMMA DraftRowType ==
  ASSUME NEW p \in Principals, NEW id \in Ids, NEW draft \in Drafts, minted \in Nat
  PROVE  RowOf(stamp(p, draft), {<<<<p.tenant, id>>, minted + 1>>}) \in Row
<1>1. p \in Principal /\ draft \in Draft
  BY PrincipalsAssumption, DraftsAssumption
<1>2. stamp(p, draft) \in Draft
  BY <1>1 DEF stamp, Draft, Principal
<1>3. <<<<p.tenant, id>>, minted + 1>> \in Pieces
  BY <1>1 DEF Pieces, Keys, Principal
<1>4. QED
  BY <1>2, <1>3 DEF RowOf, Row, Draft

(* So has the row that a PATCH merges, whatever its body asks for.         *)
LEMMA MergedRowType ==
  ASSUME NEW row \in Row, NEW edit \in Edits, NEW content \in SUBSET Pieces,
         now \in Nat, Never \in Int
  PROVE  merge(row, edit, content) \in Row
<1>1. edit \in Edit
  BY EditsAssumption
<1>2. apply_ttl(edit.ttl, row.expires) \in Int
  <2>1. CASE edit.ttl = Keep
    BY <2>1 DEF apply_ttl, Row
  <2>2. CASE edit.ttl # Keep /\ edit.ttl = 0
    BY <2>2 DEF apply_ttl
  <2>3. CASE edit.ttl # Keep /\ edit.ttl # 0
    <3>1. edit.ttl \in Int
      BY <1>1, <2>3 DEF Edit
    <3>2. Second(now) \in Int
      BY DEF Second
    <3>3. apply_ttl(edit.ttl, row.expires) = 2 * (Second(now) + edit.ttl)
      BY <2>3 DEF apply_ttl
    <3>4. QED
      BY <3>1, <3>2, <3>3
  <2>4. QED
    BY <2>1, <2>2, <2>3
<1>3. QED
  BY <1>1, <1>2 DEF merge, Given, Edit, Row

-----------------------------------------------------------------------------
(* An empty store with no request in progress is consistent.               *)
LEMMA InitImpliesIInv == Init => IInv
<1> SUFFICES ASSUME Init PROVE IInv
  OBVIOUS
<1>1. StoreTypeOK /\ audit = {} /\ derived_sources = {}
  BY DEF Init, StoreInit, StoreTypeOK
<1>2. TypeOK
  BY <1>1, BoundsAssumption DEF Init, TypeOK
<1>3. QED
  BY <1>1, <1>2 DEF IInv, StoreInv, LineageIntegrity, SummaryHoldsSourceContent,
                    WriteAuditNamesStoredItem

(* Every step of a caller, a thread, the operator or the process keeps the *)
(* store consistent.                                                       *)
LEMMA StepKeepsStoreInv ==
  ASSUME IInv, Next
  PROVE  StoreInv'
<1> USE DEF IInv
<1>1. ASSUME NEW p \in Principals, NEW id \in Ids, NEW draft \in Drafts,
             write_item(p, id, draft)
      PROVE  StoreInv'
  <2>1. p \in Principal /\ minted \in Nat
    BY PrincipalsAssumption, BoundsAssumption DEF TypeOK
  <2>2. <<p.tenant, id>> \in Keys
    BY <2>1 DEF Keys, Principal
  <2>3. QED
    BY <1>1, <2>1, <2>2, DraftRowType, StoringKeepsStoreInv DEF write_item
<1>2. ASSUME NEW p \in Principals, NEW id \in Ids, delete_item(p, id)
      PROVE  StoreInv'
  BY <1>2, DeletingKeepsStoreInv DEF delete_item
<1>3. ASSUME NEW p \in Principals, NEW scope \in ScopeNames, forget_scope(p, scope)
      PROVE  StoreInv'
  <2> DEFINE gone == erase_derived(scope_rows(p, scope))
             entry == [tenant |-> p.tenant, owner |-> Blank, session |-> Blank,
                       operation |-> "forget", item |-> NoItem]
  <2>1. gone \in SUBSET Live /\ ClosedUnderFold(gone)
    BY CascadeCloses
  <2>2. /\ rows' = RowsWithout(gone) /\ derived_sources' = EdgesWithout(gone)
        /\ audit' = (erase_item_audit(gone) \ erased_audit(p, scope)) \cup {entry}
    BY <1>3 DEF forget_scope, delete_rows
  <2>3. entry \in AuditRow
    BY PrincipalsAssumption DEF AuditRow, Principal, OwnerIds, SessionIds
  <2>4. audit' \in SUBSET AuditRow
    BY <2>2, <2>3 DEF erase_item_audit, StoreInv, StoreTypeOK
  <2>5. \A a \in audit' : a \in erase_item_audit(gone) \/ NamesNoWrite(a)
    BY <2>2 DEF NamesNoWrite
  <2>6. QED
    BY <2>1, <2>2, <2>4, <2>5, DeletionKeepsStoreInv
<1>4. ASSUME NEW p \in Principals, NEW subtask \in Subtasks, fold_subtask(p, subtask)
      PROVE  StoreInv'
  BY <1>4, PrincipalsAssumption, FoldingKeepsStoreInv DEF fold_subtask
<1>5. ASSUME NEW tenants, purge_expired(tenants)
      PROVE  StoreInv'
  BY <1>5, DeletingKeepsStoreInv DEF purge_expired
<1>6. ASSUME NEW tenant \in Tenants, forget_tenant(tenant)
      PROVE  StoreInv'
  BY <1>6, DeletingKeepsStoreInv DEF forget_tenant
<1>7. ASSUME Restart
      PROVE  StoreInv'
  BY <1>7, DeletingKeepsStoreInv DEF Restart
<1>8. ASSUME NEW w \in Editors, patch_item_write(w)
      PROVE  StoreInv'
  <2>1. editing[w] \in Editing
    BY <1>8 DEF patch_item_write, TypeOK
  <2>2. PICK p \in Principal : p = editing[w].by
    BY <2>1, PrincipalsAssumption DEF Editing
  <2>3. editing[w].key \in Keys /\ editing[w].row \in Row
    BY <2>1 DEF Editing
  <2>4. editing[w].key[1] = editing[w].by.tenant
    BY <2>1 DEF Editing
  <2>5. QED
    BY <1>8, <2>2, <2>3, <2>4, StoringKeepsStoreInv DEF patch_item_write
<1>9. ASSUME UNCHANGED storeVars
      PROVE  StoreInv'
  BY <1>9 DEF storeVars, StoreInv, StoreTypeOK, LineageIntegrity,
              SummaryHoldsSourceContent, WriteAuditNamesStoredItem, Live
<1>10. ASSUME NEW r \in Readers, audit_one(r)
       PROVE  StoreInv'
  <2>1. reading[r] \in Reading
    BY <1>10 DEF audit_one, TypeOK
  <2>2. PICK entry \in reading[r].log : audit' = audit \cup {entry}
    BY <1>10 DEF audit_one
  <2>3. entry \in AuditRow /\ NamesNoWrite(entry)
    BY <2>1, <2>2 DEF Reading, NamesNoWrite
  <2>4. UNCHANGED <<rows, derived_sources>>
    BY <1>10 DEF audit_one
  <2>5. QED
    BY <2>2, <2>3, <2>4 DEF StoreInv, StoreTypeOK, LineageIntegrity,
         SummaryHoldsSourceContent, WriteAuditNamesStoredItem, Live, NamesNoWrite
<1>11. QED
  BY <1>1, <1>2, <1>3, <1>4, <1>5, <1>6, <1>7, <1>8, <1>9, <1>10
  DEF Next, Request, Pipeline, EditorStep, ReaderStep, patch_item_read,
      assemble_start, collect, rank_and_fill, assemble_done, Tick, opsVars

(* Every step of a caller, a thread, the operator or the process keeps the *)
(* types of the variables.                                                 *)
LEMMA StepKeepsTypeOK ==
  ASSUME IInv, Next
  PROVE  TypeOK'
<1> USE DEF IInv
<1>1. StoreTypeOK'
  BY StepKeepsStoreInv DEF StoreInv
<1>2. /\ now \in Nat /\ minted \in Nat /\ MaxWrites \in Nat /\ Horizon \in Nat
      /\ now \in 0..Horizon /\ minted \in 0..MaxWrites
      /\ editing \in [Editors -> Editing \cup {Idle}]
      /\ reading \in [Readers -> Reading \cup {Idle}]
  BY BoundsAssumption DEF TypeOK
<1>3. ASSUME UNCHANGED <<editing, reading>>, now' = now,
             minted' = minted \/ (minted < MaxWrites /\ minted' = minted + 1)
      PROVE  TypeOK'
  BY <1>1, <1>2, <1>3 DEF TypeOK
<1>4. ASSUME Tick, UNCHANGED <<editing, reading>>
      PROVE  TypeOK'
  BY <1>1, <1>2, <1>4 DEF TypeOK, Tick
<1>5. ASSUME NEW w \in Editors, NEW p \in Principals, NEW id \in Ids, NEW edit \in Edits,
             patch_item_read(w, p, id, edit)
      PROVE  TypeOK'
  <2> DEFINE k == <<p.tenant, id>>
             new == edit.content # Keep
             content == IF new THEN {<<k, minted + 1>>} ELSE rows[k].content
             copy == [by |-> p, key |-> k, row |-> merge(rows[k], edit, content), edit |-> edit]
  <2>1. k \in Keys /\ rows[k] \in Row
    <3>1. p.tenant \in Tenants
      BY PrincipalsAssumption DEF Principal
    <3>2. k \in Live
      BY <1>5 DEF patch_item_read
    <3>3. QED
      BY <3>1, <3>2 DEF Keys, Live, StoreInv, StoreTypeOK
  <2>2. content \in SUBSET Pieces
    BY <1>2, <2>1 DEF Pieces, Row
  <2>3. merge(rows[k], edit, content) \in Row
    BY <1>2, <2>1, <2>2, BoundsAssumption, MergedRowType
  <2>4. copy \in Editing
    BY <2>1, <2>3 DEF Editing
  <2>5. /\ editing' = [editing EXCEPT ![w] = copy]
        /\ minted' = IF new THEN minted + 1 ELSE minted
        /\ new => minted < MaxWrites
        /\ UNCHANGED <<now, reading>>
    BY <1>5 DEF patch_item_read
  <2>6. editing' \in [Editors -> Editing \cup {Idle}]
    BY <1>2, <2>4, <2>5
  <2>7. minted' \in 0..MaxWrites
    BY <1>2, <2>5
  <2>8. QED
    BY <1>1, <1>2, <2>5, <2>6, <2>7 DEF TypeOK
<1>6. ASSUME NEW w \in Editors, patch_item_write(w)
      PROVE  TypeOK'
  BY <1>1, <1>2, <1>6 DEF TypeOK, patch_item_write
<1>7. ASSUME NEW r \in Readers, NEW next \in Reading \cup {Idle},
             reading' = [reading EXCEPT ![r] = next], UNCHANGED <<now, minted, editing>>
      PROVE  TypeOK'
  BY <1>1, <1>2, <1>7 DEF TypeOK
<1>8. ASSUME NEW r \in Readers, NEW p \in Principals, assemble_start(r, p)
      PROVE  TypeOK'
  <2>1. [by |-> p, tier |-> 1, seen |-> {}, log |-> {}] \in Reading
    BY DEF Reading
  <2>2. QED
    BY <1>7, <1>8, <2>1 DEF assemble_start, opsVars
<1>9. ASSUME NEW r \in Readers, collect(r)
      PROVE  TypeOK'
  <2> DEFINE p == reading[r].by
             candidates == query_for(p, TierOrder[reading[r].tier])
             allowed == {k \in candidates : explain(rows[k], k[1], p, now)}
             found == {[item |-> k[2], expires |-> rows[k].expires] : k \in allowed}
             logged == IF allowed = candidates THEN {} ELSE {record(p, "policy", NoItem)}
             next == [by |-> p, tier |-> reading[r].tier + 1,
                      seen |-> reading[r].seen \cup found, log |-> logged]
  <2>1. reading[r] \in Reading /\ reading[r].tier <= 3
    BY <1>2, <1>9 DEF collect
  <2>2. found \subseteq [item : Ids, expires : Int]
    <3>1. \A k \in allowed : k[2] \in Ids /\ rows[k].expires \in Int
      BY DEF query_for, Live, Keys, StoreInv, StoreTypeOK, Row
    <3>2. QED
      BY <3>1
  <2>3. logged \subseteq {a \in AuditRow : a.operation \in {"policy", "assemble"}}
    <3>1. p \in Principal
      BY <2>1, PrincipalsAssumption DEF Reading
    <3>2. record(p, "policy", NoItem) \in AuditRow
      BY <3>1, RecordType
    <3>3. QED
      BY <3>2 DEF record
  <2>4. next \in Reading
    BY <2>1, <2>2, <2>3 DEF Reading
  <2>5. reading' = [reading EXCEPT ![r] = next]
    BY <1>2, <1>9 DEF collect
  <2>6. QED
    BY <1>7, <1>9, <2>4, <2>5 DEF collect, opsVars
<1>10. ASSUME NEW r \in Readers, rank_and_fill(r)
       PROVE  TypeOK'
  <2> DEFINE p == reading[r].by
             items == {i \in reading[r].seen : ~Expired(i, now)}
             logged == {record(p, "assemble", i.item) : i \in items}
                         \cup (IF items = reading[r].seen THEN {}
                               ELSE {record(p, "assemble", NoItem)})
             next == [by |-> p, tier |-> 5, seen |-> {}, log |-> logged]
  <2>1. reading[r] \in Reading
    BY <1>2, <1>10 DEF rank_and_fill
  <2>2. logged \subseteq {a \in AuditRow : a.operation \in {"policy", "assemble"}}
    <3>1. p \in Principal
      BY <2>1, PrincipalsAssumption DEF Reading
    <3>2. \A item \in Ids \cup {NoItem} :
            /\ record(p, "assemble", item) \in AuditRow
            /\ record(p, "assemble", item).operation = "assemble"
      BY <3>1, RecordType DEF record
    <3>3. \A i \in items : i.item \in Ids
      BY <2>1 DEF Reading
    <3>4. QED
      BY <3>2, <3>3
  <2>3. next \in Reading
    BY <2>1, <2>2 DEF Reading
  <2>4. reading' = [reading EXCEPT ![r] = next]
    BY <1>2, <1>10 DEF rank_and_fill
  <2>5. QED
    BY <1>7, <1>10, <2>3, <2>4 DEF rank_and_fill, opsVars
<1>11. ASSUME NEW r \in Readers, audit_one(r)
       PROVE  TypeOK'
  <2>1. reading[r] \in Reading
    BY <1>2, <1>11 DEF audit_one
  <2>2. PICK entry \in reading[r].log : reading' = [reading EXCEPT ![r].log = @ \ {entry}]
    BY <1>11 DEF audit_one
  <2> DEFINE next == [reading[r] EXCEPT !.log = @ \ {entry}]
  <2>3. next \in Reading
    BY <2>1 DEF Reading
  <2>4. reading' = [reading EXCEPT ![r] = next]
    BY <1>2, <2>2
  <2>5. QED
    BY <1>7, <1>11, <2>3, <2>4 DEF audit_one
<1>12. ASSUME NEW r \in Readers, assemble_done(r)
       PROVE  TypeOK'
  BY <1>7, <1>12 DEF assemble_done, opsVars
<1>13. ASSUME Restart
       PROVE  TypeOK'
  BY <1>1, <1>2, <1>13 DEF TypeOK, Restart
<1>14. QED
  BY <1>3, <1>4, <1>5, <1>6, <1>8, <1>9, <1>10, <1>11, <1>12, <1>13
  DEF Next, Request, Pipeline, EditorStep, ReaderStep, write_item, delete_item,
      forget_scope, fold_subtask, purge_expired, forget_tenant

(* A stuttering step keeps everything.                                     *)
LEMMA StutterKeepsIInv ==
  ASSUME IInv, UNCHANGED vars
  PROVE  IInv'
BY DEF vars, opsVars, storeVars, IInv, TypeOK, StoreInv, StoreTypeOK, LineageIntegrity,
       SummaryHoldsSourceContent, WriteAuditNamesStoredItem, Live

(* The inductive invariant: the types together with the store's            *)
(* consistency, kept by every operation, PATCH, assembly and restart.      *)
THEOREM Invariance == Spec => []IInv
<1>1. IInv /\ [Next]_vars => IInv'
  BY StepKeepsTypeOK, StepKeepsStoreInv, StutterKeepsIInv DEF IInv
<1>2. QED
  BY InitImpliesIInv, <1>1, PTL DEF Spec

(* Every variable keeps its type.                                          *)
THEOREM TypeCorrect == Spec => []TypeOK
<1>1. IInv => TypeOK
  BY DEF IInv
<1>2. QED
  BY <1>1, Invariance, PTL

(* An edge always joins two stored procedural rows of one tenant, identity *)
(* and scope, whatever PATCH, fold and the triggers did to either.         *)
THEOREM LineageCorrect == Spec => []LineageIntegrity
<1>1. IInv => LineageIntegrity
  BY DEF IInv, StoreInv
<1>2. QED
  BY <1>1, Invariance, PTL

(* A summary that has its sources holds nothing that they no longer hold.  *)
THEOREM SummariesHoldTheirSources == Spec => []SummaryHoldsSourceContent
<1>1. IInv => SummaryHoldsSourceContent
  BY DEF IInv, StoreInv
<1>2. QED
  BY <1>1, Invariance, PTL

-----------------------------------------------------------------------------
(* Whatever a stored row is derived from is stored, belongs to the same    *)
(* tenant, owner, session and scope, and expires no sooner.                *)
Alike(j, k) ==
  /\ j \in Live
  /\ j[1] = k[1]
  /\ rows[j].scope = rows[k].scope
  /\ rows[j].owner = rows[k].owner
  /\ rows[j].session = rows[k].session
  /\ rows[k].expires <= rows[j].expires

LEMMA LineageIsAlike ==
  ASSUME IInv, NEW k \in Live, NEW j \in lineage(k)
  PROVE  Alike(j, k)
<1> DEFINE C == {i \in Keys : Alike(i, k)}
<1>1. \A i \in Live : i \in Keys /\ rows[i].expires \in Int
  BY DEF Live, IInv, TypeOK, StoreTypeOK, Row
<1>2. k \in C
  BY <1>1 DEF Alike
<1>3. ASSUME NEW e \in derived_sources, e.summary \in C
      PROVE  e.source \in C
  <2>1. /\ e.source \in Live /\ e.summary \in Live
        /\ e.source[1] = e.summary[1]
        /\ rows[e.source].scope = rows[e.summary].scope
        /\ rows[e.source].owner = rows[e.summary].owner
        /\ rows[e.source].session = rows[e.summary].session
        /\ rows[e.summary].expires <= rows[e.source].expires
    BY <1>3 DEF IInv, StoreInv, LineageIntegrity
  <2>2. Alike(e.summary, k)
    BY <1>3
  <2>3. rows[k].expires <= rows[e.source].expires
    BY <1>1, <2>1, <2>2 DEF Alike
  <2>4. QED
    BY <1>1, <2>1, <2>2, <2>3 DEF Alike
<1>4. C \in SUBSET Keys /\ HoldsSources(C)
  BY <1>3 DEF HoldsSources
<1>5. j \in C
  BY <1>2, <1>4 DEF lineage
<1>6. QED
  BY <1>5

(* A caller that is shown a row is shown every row that is like it.        *)
LEMMA AlikeAreShown ==
  ASSUME IInv, NEW p \in Principal, NEW k \in Live, NEW j \in Live,
         Alike(j, k), explain(rows[k], k[1], p, now)
  PROVE  explain(rows[j], j[1], p, now)
<1>1. rows[j].expires \in Int /\ rows[k].expires \in Int
  BY DEF Live, IInv, TypeOK, StoreTypeOK, Row
<1>2. now \in Int /\ Never \in Int /\ now < Never
  BY BoundsAssumption DEF IInv, TypeOK
<1>3. ~Expired(rows[j], now)
  BY <1>1, <1>2 DEF Alike, explain, Expired
<1>4. check_visibility(rows[j], j[1], p)
  BY DEF Alike, explain, check_visibility, UserVisible, SessionVisible
<1>5. QED
  BY <1>3, <1>4 DEF explain

(* Whoever may be shown an item of its tenant may be shown its lineage, so *)
(* the check of every ancestor (assemble_witnesses) excludes nothing more. *)
THEOREM LineageIsShown == Spec => []ShownWithItsSources
<1>1. ASSUME IInv, NEW k \in Live, NEW p \in Principal,
             k[1] = p.tenant, explain(rows[k], k[1], p, now)
      PROVE  approved(p, k)
  <2>1. ASSUME NEW j \in lineage(k)
        PROVE  j \in Live /\ explain(rows[j], j[1], p, now)
    <3>1. Alike(j, k)
      BY <1>1, <2>1, LineageIsAlike
    <3>2. j \in Live
      BY <3>1 DEF Alike
    <3>3. QED
      BY <1>1, <3>1, <3>2, AlikeAreShown
  <2>2. QED
    BY <1>1, <2>1 DEF approved
<1>2. IInv => ShownWithItsSources
  BY <1>1 DEF ShownWithItsSources
<1>3. QED
  BY <1>2, Invariance, PTL

-----------------------------------------------------------------------------
(* What has expired to the second will be hidden at the next second, and   *)
(* what is hidden has expired to the second.                               *)
LEMMA SecondsAndExpiry ==
  ASSUME IInv, NEW k \in Live
  PROVE  /\ rows[k].expires \in Int /\ Second(now) \in Int
         /\ 2 * (Second(now) + 1) <= Never
         /\ Expired(rows[k], now) => Second(rows[k].expires) <= Second(now)
         /\ Second(rows[k].expires) <= Second(now) => rows[k].expires <= 2 * (Second(now) + 1)
<1>1. rows[k].expires \in Int
  BY DEF Live, IInv, TypeOK, StoreTypeOK, Row
<1>2. now \in Int /\ now + 1 < Never /\ Never \in Int
  BY BoundsAssumption DEF IInv, TypeOK
<1>3. \A i \in Int : Second(i) \in Int /\ 2 * Second(i) <= i /\ i < 2 * Second(i) + 2
  BY DEF Second
<1> DEFINE e == rows[k].expires
<1> HIDE DEF e
<1>4. e \in Int
  BY <1>1 DEF e
<1>5. Second(now) \in Int /\ 2 * Second(now) <= now /\ now < 2 * Second(now) + 2
  BY <1>2, <1>3
<1>6. Second(e) \in Int /\ 2 * Second(e) <= e /\ e < 2 * Second(e) + 2
  BY <1>3, <1>4
<1>7. 2 * (Second(now) + 1) <= Never
  BY <1>2, <1>5
<1>8. now >= e => Second(e) <= Second(now)
  BY <1>2, <1>4, <1>5, <1>6
<1>9. Second(e) <= Second(now) => e <= 2 * (Second(now) + 1)
  BY <1>4, <1>5, <1>6
<1>10. QED
  BY <1>4, <1>5, <1>7, <1>8, <1>9 DEF Expired, e

(* With the expired rows of some tenants the trigger takes only rows of    *)
(* these tenants that will be hidden at the next second.                   *)
LEMMA PurgeTakesExpired ==
  ASSUME IInv, NEW tenants, NEW k \in erase_derived(expired_rows(tenants, now))
  PROVE  k[1] \in tenants /\ Expired(rows[k], 2 * (Second(now) + 1))
<1> DEFINE C == {j \in Live : j[1] \in tenants /\ Expired(rows[j], 2 * (Second(now) + 1))}
<1>1. expired_rows(tenants, now) \cap Live \subseteq C
  BY SecondsAndExpiry DEF expired_rows, Expired
<1>2. ASSUME NEW e \in derived_sources, e.source \in C, e.summary \in Live
      PROVE  e.summary \in C
  <2>1. e.source[1] = e.summary[1] /\ rows[e.summary].expires <= rows[e.source].expires
    BY DEF IInv, StoreInv, LineageIntegrity
  <2>2. rows[e.source].expires # Never /\ rows[e.source].expires <= 2 * (Second(now) + 1)
    BY <1>2, SecondsAndExpiry DEF Expired
  <2>3. QED
    BY <1>2, <2>1, <2>2, SecondsAndExpiry, BoundsAssumption DEF Expired
<1>3. ClosedUnderFold(C)
  BY <1>2 DEF ClosedUnderFold
<1>4. erase_derived(expired_rows(tenants, now)) \subseteq C
  BY <1>1, <1>3, CascadeIsLeast
<1>5. QED
  BY <1>4

(* A purge leaves nothing that the policy hides, and takes nothing, with   *)
(* the summaries of what has expired, that would be shown when the current *)
(* second is over: for every expiry, fold, PATCH and restart before it.    *)
THEOREM PurgeFollowsPolicy == Spec => PurgeAgreesWithPolicy
<1>1. ASSUME IInv, NEW tenants, Purges(tenants), NEW k \in Live
      PROVE  /\ k[1] \in tenants /\ Expired(rows[k], now) => rows'[k] = Absent
             /\ rows'[k] = Absent => k[1] \in tenants /\ Expired(rows[k], 2 * (Second(now) + 1))
  <2> DEFINE gone == erase_derived(expired_rows(tenants, now))
  <2>1. rows' = RowsWithout(gone)
    BY <1>1 DEF Purges, purge_expired, Restart, delete_rows
  <2>2. rows'[k] = Absent <=> k \in gone
    BY <2>1 DEF RowsWithout, Live
  <2>3. k[1] \in tenants /\ Expired(rows[k], now) => k \in expired_rows(tenants, now)
    BY <1>1, SecondsAndExpiry DEF expired_rows, Expired
  <2>4. QED
    BY <1>1, <2>2, <2>3, CascadeCloses, PurgeTakesExpired
<1>2. ASSUME IInv
      PROVE  [\A tenants \in {Tenants} \cup {{p.tenant} : p \in Principals} : Purges(tenants) =>
                \A k \in Live :
                  /\ k[1] \in tenants /\ Expired(rows[k], now) => rows'[k] = Absent
                  /\ rows'[k] = Absent =>
                       k[1] \in tenants /\ Expired(rows[k], 2 * (Second(now) + 1))]_vars
  BY <1>1, <1>2
<1>3. QED
  BY <1>2, Invariance, PTL DEF PurgeAgreesWithPolicy

-----------------------------------------------------------------------------
(* An audit row about a write always names an item that is still stored.   *)
THEOREM AuditCorrect == Spec => []WriteAuditNamesStoredItem
<1>1. IInv => WriteAuditNamesStoredItem
  BY DEF IInv, StoreInv
<1>2. QED
  BY <1>1, Invariance, PTL
=============================================================================
