------------------------ MODULE TrilithErasureProofs ------------------------
(***************************************************************************)
(* Theorems about erasure in an instance that serves no PATCH (no          *)
(* Editors), whatever its tenants, ids, callers, drafts and readers:       *)
(*                                                                         *)
(*   PipelineErases           no copy of a piece outlives it at its home   *)
(*   ForgetIsComplete         a forgotten scope leaves nothing behind      *)
(*   SourcesTakeTheirCopies   nor does a deleted or replaced source        *)
(*   PipelineKeepsPromise     the pipeline implements the module Erasure   *)
(*                                                                         *)
(* They rest on IInv and on ContentTraced: every piece is where its        *)
(* provenance says it came from.                                           *)
(***************************************************************************)
EXTENDS TrilithGatewayProofs

(* A row written by a caller holds only pieces submitted to it; a summary  *)
(* holds only what a source still joined to it by an edge holds.           *)
RowTraced(k) ==
  /\ rows[k].content \subseteq Keys \X (1..minted)
  /\ rows[k].subtask # NoSubtask => rows[k].provenance = "caller"
  /\ rows[k].provenance = "caller" => \A piece \in rows[k].content : piece[1] = k
  /\ rows[k].provenance = "fold" =>
       \A piece \in rows[k].content :
         \E e \in derived_sources : e.summary = k /\ piece \in rows[e.source].content

ContentTraced == \A k \in Live : RowTraced(k)

-----------------------------------------------------------------------------
(* Where a piece is, its home is the row itself or a source of it that an  *)
(* edge still joins to it.                                                 *)
LEMMA PieceIsHomeOrFolded ==
  ASSUME StoreInv, ContentTraced, NEW k \in Live, NEW piece \in rows[k].content
  PROVE  \/ piece[1] = k
         \/ \E e \in derived_sources :
              e.summary = k /\ e.source = piece[1] /\ piece \in rows[e.source].content
<1>1. rows[k] \in Row
  BY DEF StoreInv, StoreTypeOK, Live
<1>2. CASE rows[k].provenance = "caller"
  BY <1>2 DEF ContentTraced, RowTraced
<1>3. CASE rows[k].provenance = "fold"
  <2>1. PICK e \in derived_sources : e.summary = k /\ piece \in rows[e.source].content
    BY <1>3 DEF ContentTraced, RowTraced
  <2>2. e.source \in Live /\ rows[e.source].subtask # NoSubtask
    BY DEF StoreInv, LineageIntegrity
  <2>3. piece[1] = e.source
    BY <2>1, <2>2 DEF ContentTraced, RowTraced
  <2>4. QED
    BY <2>1, <2>3
<1>4. QED
  BY <1>1, <1>2, <1>3 DEF Row

(* Hence traced content is where it was submitted, too.                    *)
LEMMA TracedContentIsAtHome ==
  ASSUME StoreInv, ContentTraced
  PROVE  ContentLivesAtHome
BY PieceIsHomeOrFolded DEF ContentLivesAtHome, StoreInv, LineageIntegrity

-----------------------------------------------------------------------------
(* A row that a closed deletion spares keeps the trace of what it holds.   *)
LEMMA SparedRowStaysTraced ==
  ASSUME StoreInv, ContentTraced, minted \in Nat, minted' \in {minted, minted + 1},
         NEW gone \in SUBSET Live, ClosedUnderFold(gone),
         EdgesWithout(gone) \subseteq derived_sources',
         \A j \in Live \ gone : rows'[j] = rows[j],
         NEW k \in Live \ gone
  PROVE  RowTraced(k)'
<1>1. RowTraced(k) /\ rows'[k] = rows[k]
  BY DEF ContentTraced
<1>2. rows[k].content \subseteq Keys \X (1..minted')
  BY <1>1 DEF RowTraced
<1>3. ASSUME NEW piece \in rows[k].content, NEW e \in derived_sources,
             e.summary = k, piece \in rows[e.source].content
      PROVE  \E f \in derived_sources' : f.summary = k /\ piece \in rows'[f.source].content
  <2>1. e.source \in Live /\ e.source \notin gone
    BY <1>3 DEF StoreInv, LineageIntegrity, ClosedUnderFold
  <2>2. e \in derived_sources' /\ rows'[e.source] = rows[e.source]
    BY <1>3, <2>1 DEF EdgesWithout
  <2>3. QED
    BY <1>3, <2>2
<1>4. QED
  BY <1>1, <1>2, <1>3 DEF RowTraced

(* Deleting a closed set of rows keeps the trace of all content.           *)
LEMMA DeletionKeepsTraced ==
  ASSUME StoreInv, ContentTraced, minted \in Nat, minted' = minted,
         NEW gone \in SUBSET Live, ClosedUnderFold(gone),
         rows' = RowsWithout(gone), derived_sources' = EdgesWithout(gone)
  PROVE  ContentTraced'
<1>1. \A j \in Keys : rows'[j] = IF j \in gone THEN Absent ELSE rows[j]
  BY DEF RowsWithout
<1>2. Live' = Live \ gone /\ \A j \in Live \ gone : rows'[j] = rows[j]
  BY <1>1 DEF Live
<1>3. QED
  BY <1>2, SparedRowStaysTraced DEF ContentTraced

(* So does writing a row that is traced itself.                            *)
LEMMA WritingKeepsTraced ==
  ASSUME StoreInv, ContentTraced, minted \in Nat, minted' \in {minted, minted + 1},
         NEW k \in Keys, NEW row,
         rows' = [RowsWithout(Replaced(k)) EXCEPT ![k] = row],
         EdgesWithout(Replaced(k)) \subseteq derived_sources',
         RowTraced(k)'
  PROVE  ContentTraced'
<1> DEFINE gone == Replaced(k)
<1>1. gone \in SUBSET Live /\ ClosedUnderFold(gone) /\ (k \in Live => k \in gone)
  BY CascadeCloses DEF Replaced
<1>2. \A j \in Keys : rows'[j] = IF j = k THEN row ELSE IF j \in gone THEN Absent ELSE rows[j]
  BY DEF RowsWithout
<1> HIDE DEF gone
<1>3. \A j \in Live \ gone : rows'[j] = rows[j]
  BY <1>1, <1>2 DEF Live
<1>4. EdgesWithout(gone) \subseteq derived_sources'
  BY DEF gone
<1>5. ASSUME NEW j \in Live', j # k
      PROVE  j \in Live \ gone
  BY <1>2, <1>5 DEF Live
<1>6. QED
  BY <1>1, <1>3, <1>4, <1>5, SparedRowStaysTraced DEF ContentTraced

(* The row a request submits holds one piece, submitted to it.             *)
LEMMA StoringKeepsTraced ==
  ASSUME IInv, ContentTraced, NEW p \in Principals, NEW id \in Ids, NEW draft \in Drafts,
         write_item(p, id, draft)
  PROVE  ContentTraced'
<1> DEFINE k == <<p.tenant, id>>
           row == RowOf(stamp(p, draft), {<<k, minted + 1>>})
<1>1. StoreInv /\ minted \in Nat /\ minted' = minted + 1 /\ store_item(p, k, row)
  BY BoundsAssumption DEF IInv, TypeOK, write_item
<1>2. k \in Keys
  BY PrincipalsAssumption DEF Keys, Principal
<1>3. CASE UNCHANGED <<rows, derived_sources>>
  <2> SUFFICES ASSUME NEW j \in Live PROVE RowTraced(j)'
    BY <1>3 DEF ContentTraced, Live
  <2>1. RowTraced(j)
    BY DEF ContentTraced
  <2>2. 1..minted \subseteq 1..minted'
    BY <1>1
  <2>3. QED
    BY <1>3, <2>1, <2>2 DEF RowTraced
<1>4. CASE save(k, row)
  <2>1. row.content = {<<k, minted + 1>>} /\ row.provenance = "caller"
    BY DEF RowOf
  <2>2. rows'[k] = row
    BY <1>2, <1>4 DEF save, RowsWithout
  <2> HIDE DEF row
  <2>3. RowTraced(k)'
    BY <1>1, <1>2, <2>1, <2>2 DEF RowTraced
  <2>4. QED
    BY <1>1, <1>2, <1>4, <2>3, WritingKeepsTraced DEF save
<1>5. QED
  BY <1>1, <1>3, <1>4 DEF store_item

(* A summary holds what its sources, which stay, hold.                     *)
LEMMA FoldingKeepsTraced ==
  ASSUME IInv, ContentTraced, NEW p \in Principals, NEW subtask \in Subtasks,
         NEW scope \in Scopes, NEW id \in SummaryIds[fold_args(p, subtask)],
         fold_into(p, <<p.tenant, id>>, scope, steps(p, subtask)), minted' = minted
  PROVE  ContentTraced'
<1> DEFINE k == <<p.tenant, id>>
           items == steps(p, subtask)
           gone == Replaced(k)
<1>1. StoreInv /\ minted \in Nat /\ p \in Principal
  BY PrincipalsAssumption DEF IInv, TypeOK
<1>2. k \in Keys /\ k \notin items /\ items \cap gone = {} /\ items \subseteq Live
  BY <1>1, FoldSparesItsSteps
<1>3. PICK expires : rows' = [RowsWithout(gone) EXCEPT ![k] = summary_of(p, scope, expires, items)]
  BY DEF fold_into
<1> DEFINE row == summary_of(p, scope, expires, items)
<1>4. /\ row.content = UNION {rows[i].content : i \in items}
      /\ row.provenance = "fold" /\ row.subtask = NoSubtask
  BY DEF summary_of
<1>5. EdgesWithout(gone) \subseteq derived_sources'
      /\ \A i \in items : [source |-> i, summary |-> k] \in derived_sources'
  BY DEF fold_into
<1> HIDE DEF row, items, gone
<1>6. rows'[k] = row /\ \A i \in items : rows'[i] = rows[i]
  BY <1>2, <1>3 DEF row, RowsWithout, Live
<1>7. RowTraced(k)'
  <2>1. row.content \subseteq Keys \X (1..minted')
    BY <1>2, <1>4 DEF ContentTraced, RowTraced
  <2>2. \A piece \in row.content :
          \E e \in derived_sources' : e.summary = k /\ piece \in rows'[e.source].content
    <3> SUFFICES ASSUME NEW piece \in row.content
                 PROVE  \E e \in derived_sources' :
                          e.summary = k /\ piece \in rows'[e.source].content
      OBVIOUS
    <3>1. PICK i \in items : piece \in rows[i].content
      BY <1>4
    <3>2. [source |-> i, summary |-> k] \in derived_sources'
      BY <1>5
    <3>3. QED
      BY <1>6, <3>1, <3>2
  <2>3. QED
    BY <1>4, <1>6, <2>1, <2>2 DEF RowTraced
<1>8. QED
  BY <1>1, <1>2, <1>3, <1>5, <1>7, WritingKeepsTraced DEF row, gone

(* Every step of a server that serves no PATCH keeps content traced.       *)
LEMMA StepKeepsTraced ==
  ASSUME Editors = {}, IInv, ContentTraced, Next
  PROVE  ContentTraced'
<1>1. StoreInv /\ minted \in Nat
  BY DEF IInv, TypeOK
<1>2. ASSUME NEW D, delete_rows(D), minted' = minted
      PROVE  ContentTraced'
  BY <1>1, <1>2, CascadeCloses, DeletionKeepsTraced DEF delete_rows
<1>3. ASSUME UNCHANGED <<rows, derived_sources, minted>>
      PROVE  ContentTraced'
  BY <1>3 DEF ContentTraced, RowTraced, Live
<1>4. ASSUME NEW p \in Principals, NEW subtask \in Subtasks, fold_subtask(p, subtask)
      PROVE  ContentTraced'
  BY <1>4, FoldingKeepsTraced DEF fold_subtask
<1>5. QED
  BY <1>2, <1>3, <1>4, StoringKeepsTraced
  DEF Next, Request, Pipeline, EditorStep, ReaderStep, delete_item, forget_scope,
      purge_expired, forget_tenant, Restart, Tick, assemble_start, collect,
      rank_and_fill, audit_one, assemble_done, opsVars, storeVars

(* So content is always traced, beside the invariant of the gateway.       *)
LEMMA TracedInvariance ==
  ASSUME Editors = {}
  PROVE  Spec => [](IInv /\ ContentTraced)
<1>1. Init => ContentTraced
  BY DEF Init, StoreInit, ContentTraced, Live
<1>2. ASSUME IInv, ContentTraced, [Next]_vars
      PROVE  ContentTraced'
  <2>1. CASE Next
    BY <1>2, <2>1, StepKeepsTraced
  <2>2. CASE UNCHANGED vars
    BY <1>2, <2>2 DEF vars, opsVars, storeVars, ContentTraced, RowTraced, Live
  <2>3. QED
    BY <1>2, <2>1, <2>2
<1>3. QED
  BY <1>1, <1>2, Invariance, PTL DEF Spec

(* Without PATCH, no row holds a piece of content that the row it was      *)
(* submitted to no longer holds.                                           *)
THEOREM PipelineErases ==
  ASSUME Editors = {}
  PROVE  Spec => []ContentLivesAtHome
<1>1. IInv /\ ContentTraced => ContentLivesAtHome
  BY TracedContentIsAtHome DEF IInv
<1>2. QED
  BY <1>1, TracedInvariance, PTL

-----------------------------------------------------------------------------
(* Forgetting takes the rows of the scope and, with them, every row that   *)
(* holds a piece of theirs: a source shares its summary's scope and owner. *)
LEMMA ForgettingErases ==
  ASSUME IInv, ContentTraced, NEW p \in Principals, NEW scope \in {"USER", "SESSION"},
         forget_scope(p, scope), NEW j \in OwnRows(p, scope), NEW k \in Keys,
         rows'[k] # Absent
  PROVE  rows'[k].content \cap rows[j].content = {}
<1> DEFINE D == scope_rows(p, scope)
           gone == erase_derived(D)
<1>1. StoreInv
  BY DEF IInv
<1>2. D \cap Live \subseteq gone /\ ClosedUnderFold(gone)
  BY CascadeCloses
<1>3. rows' = RowsWithout(gone)
  BY DEF forget_scope, delete_rows
<1> HIDE DEF gone
<1>4. k \in Live /\ k \notin gone /\ rows'[k] = rows[k]
  BY <1>3 DEF RowsWithout, Live
<1>5. OwnRows(p, scope) \subseteq D
  BY DEF OwnRows, scope_rows
<1>6. j \in Live /\ j \in gone
  BY <1>2, <1>5 DEF OwnRows
<1>7. ASSUME NEW e \in derived_sources, e.summary = j
      PROVE  e.source \in gone
  <2>1. e.source \in OwnRows(p, scope)
    BY <1>1, <1>7 DEF StoreInv, LineageIntegrity, OwnRows
  <2>2. QED
    BY <1>2, <1>5, <2>1 DEF OwnRows
<1>8. ASSUME NEW piece \in rows[j].content, piece \in rows[k].content
      PROVE  FALSE
  <2>1. piece[1] \in gone
    BY <1>1, <1>6, <1>7, <1>8, PieceIsHomeOrFolded
  <2>2. piece[1] = k \/ \E e \in derived_sources : e.summary = k /\ e.source = piece[1]
    BY <1>1, <1>4, <1>8, PieceIsHomeOrFolded
  <2>3. QED
    BY <1>2, <1>4, <2>1, <2>2 DEF ClosedUnderFold
<1>9. QED
  BY <1>4, <1>8

(* Without PATCH, when a caller forgets its USER or SESSION scope, nothing *)
(* its rows held is held by any row afterwards.                            *)
THEOREM ForgetIsComplete ==
  ASSUME Editors = {}
  PROVE  Spec => ForgetErasesContent
<1>1. ASSUME IInv, ContentTraced
      PROVE  [\A p \in Principals, scope \in {"USER", "SESSION"} : forget_scope(p, scope) =>
                \A j \in OwnRows(p, scope), k \in Keys :
                  rows'[k] # Absent => rows'[k].content \cap rows[j].content = {}]_vars
  BY <1>1, ForgettingErases
<1>2. QED
  BY <1>1, TracedInvariance, PTL DEF ForgetErasesContent

-----------------------------------------------------------------------------
(* Without PATCH, deleting or replacing the row that a piece was written   *)
(* to leaves no row derived from it that holds the piece.  (With PATCH     *)
(* that is not so: an edit of a summary cuts its edges.)                   *)
THEOREM SourcesTakeTheirCopies ==
  ASSUME Editors = {}
  PROVE  Spec => DerivedInvalidatedWithSource
<1>1. ASSUME ContentLivesAtHome', NEW k \in Live, NEW piece \in rows[k].content,
             piece[1] = k, rows'[k] = Absent \/ piece \notin rows'[k].content,
             NEW j \in Keys, rows'[j] # Absent
      PROVE  piece \notin rows'[j].content
  BY <1>1 DEF ContentLivesAtHome, Live
<1>2. ASSUME ContentLivesAtHome'
      PROVE  [\A k \in Live : \A piece \in rows[k].content :
                piece[1] = k /\ (rows'[k] = Absent \/ piece \notin rows'[k].content) =>
                  \A j \in Keys : rows'[j] # Absent => piece \notin rows'[j].content]_vars
  BY <1>1, <1>2
<1>3. QED
  BY <1>2, PipelineErases, PTL DEF DerivedInvalidatedWithSource

-----------------------------------------------------------------------------
(* What a row holds, as the module Erasure sees it.                        *)
LEMMA HeldByRow ==
  ASSUME NEW k \in Keys
  PROVE  /\ Held[k] = IF rows[k] = Absent THEN {} ELSE rows[k].content
         /\ Held'[k] = IF rows'[k] = Absent THEN {} ELSE rows'[k].content
BY DEF Held

(* What a step of Erasure promises of the state it leads to.               *)
Promised ==
  /\ Held \in [Keys -> SUBSET (Keys \X (1..minted))]
  /\ Promise!AllAtHome(Held)

LEMMA TracedStateIsPromised ==
  ASSUME IInv, ContentTraced
  PROVE  Promised
<1>1. ContentLivesAtHome
  BY TracedContentIsAtHome DEF IInv
<1>2. \A k \in Keys : Held[k] = IF rows[k] = Absent THEN {} ELSE rows[k].content
  BY DEF Held
<1>3. \A k \in Keys : Held[k] \subseteq Keys \X (1..minted)
  BY <1>2 DEF ContentTraced, RowTraced, Live
<1>4. \A k \in Keys : \A piece \in Held[k] : piece \in Held[piece[1]]
  BY <1>1, <1>2 DEF ContentLivesAtHome, Live
<1>5. QED
  BY <1>3, <1>4 DEF Promised, Promise!AllAtHome, Held

(* Rows that no step writes keep what they hold or lose all of it.         *)
LEMMA DeletionKeepsOrErases ==
  ASSUME NEW gone, rows' = RowsWithout(gone), NEW k \in Keys
  PROVE  Promise!KeptOrGone(k)
<1>1. rows'[k] = IF k \in gone THEN Absent ELSE rows[k]
  BY DEF RowsWithout
<1>2. QED
  BY <1>1, HeldByRow DEF Promise!KeptOrGone

(* The same when a row is written: of the rows other than the one written. *)
LEMMA WritingKeepsOrErases ==
  ASSUME NEW gone, NEW j \in Keys, NEW row,
         rows' = [RowsWithout(gone) EXCEPT ![j] = row], NEW k \in Keys, k # j
  PROVE  Promise!KeptOrGone(k)
<1>1. rows'[k] = IF k \in gone THEN Absent ELSE rows[k]
  BY DEF RowsWithout
<1>2. QED
  BY <1>1, HeldByRow DEF Promise!KeptOrGone

(* A write submits a piece, or is refused.                                 *)
LEMMA WriteSubmits ==
  ASSUME IInv, NEW p \in Principals, NEW id \in Ids, NEW draft \in Drafts,
         write_item(p, id, draft)
  PROVE  Promise!Refuse \/ \E k \in Keys : Promise!Submit(k)
<1> DEFINE k == <<p.tenant, id>>
           row == RowOf(stamp(p, draft), {<<k, minted + 1>>})
<1>1. minted' = minted + 1 /\ store_item(p, k, row)
  BY DEF write_item
<1>2. k \in Keys
  BY PrincipalsAssumption DEF Keys, Principal
<1>3. CASE UNCHANGED rows
  BY <1>1, <1>3 DEF Promise!Refuse, Held
<1>4. CASE save(k, row)
  <2>1. minted \in Nat
    BY DEF IInv, TypeOK
  <2>2. row \in Row /\ row.content = {<<k, minted + 1>>}
    BY <2>1, DraftRowType DEF RowOf
  <2> HIDE DEF row
  <2>3. rows'[k] = row
    BY <1>2, <1>4 DEF save, RowsWithout
  <2>4. Held'[k] = {<<k, minted + 1>>}
    BY <1>2, <2>2, <2>3, HeldByRow, AbsentAssumption
  <2>5. \A j \in Keys \ {k} : Promise!KeptOrGone(j)
    BY <1>2, <1>4, WritingKeepsOrErases DEF save
  <2>6. QED
    BY <1>1, <1>2, <2>4, <2>5 DEF Promise!Submit
<1>5. QED
  BY <1>1, <1>3, <1>4 DEF store_item

(* A fold copies what its sources hold.                                    *)
LEMMA FoldCopies ==
  ASSUME IInv, NEW p \in Principals, NEW subtask \in Subtasks,
         NEW scope \in Scopes, NEW id \in SummaryIds[fold_args(p, subtask)],
         fold_into(p, <<p.tenant, id>>, scope, steps(p, subtask)), minted' = minted
  PROVE  \E k \in Keys : Promise!Copy(k)
<1> DEFINE k == <<p.tenant, id>>
           items == steps(p, subtask)
           gone == Replaced(k)
<1>1. StoreInv /\ p \in Principal
  BY PrincipalsAssumption DEF IInv
<1>2. k \in Keys /\ k \notin items /\ items \subseteq Live
  BY <1>1, FoldSparesItsSteps
<1>3. PICK expires \in earliest_expiry(items) :
        rows' = [RowsWithout(gone) EXCEPT ![k] = summary_of(p, scope, expires, items)]
  BY DEF fold_into
<1> DEFINE row == summary_of(p, scope, expires, items)
<1>4. row.content = UNION {rows[i].content : i \in items}
  BY DEF summary_of
<1>5. row # Absent
  BY <1>1, <1>3, SummaryRowType, AbsentAssumption
<1> HIDE DEF row, items, gone
<1>6. rows'[k] = row
  BY <1>2, <1>3 DEF row, RowsWithout
<1>7. Held'[k] = UNION {Held[i] : i \in items}
  <2>1. Held'[k] = row.content
    BY <1>2, <1>5, <1>6, HeldByRow
  <2>2. \A i \in items : Held[i] = rows[i].content
    BY <1>2, HeldByRow DEF Live
  <2>3. QED
    BY <1>4, <2>1, <2>2
<1>8. \A j \in Keys \ {k} : Promise!KeptOrGone(j)
  BY <1>2, <1>3, WritingKeepsOrErases
<1>9. items \in SUBSET (Keys \ {k})
  BY <1>2 DEF Live
<1>10. Promise!Copy(k)
  BY <1>7, <1>8, <1>9 DEF Promise!Copy
<1>11. QED
  BY <1>2, <1>10

(* Every step of a server without PATCH is a step of Erasure, or leaves    *)
(* what it sees unchanged.                                                 *)
LEMMA StepKeepsPromise ==
  ASSUME Editors = {}, IInv, Promised', [Next]_vars
  PROVE  [Promise!Next]_<<minted, Held>>
<1>1. ASSUME NEW gone, rows' = RowsWithout(gone), minted' = minted
      PROVE  Promise!Erase
  BY <1>1, DeletionKeepsOrErases DEF Promise!Erase
<1>2. ASSUME UNCHANGED <<rows, minted>>
      PROVE  UNCHANGED <<minted, Held>>
  BY <1>2 DEF Held
<1>3. ASSUME NEW p \in Principals, NEW subtask \in Subtasks, fold_subtask(p, subtask)
      PROVE  \E k \in Keys : Promise!Copy(k)
  BY <1>3, FoldCopies DEF fold_subtask
<1>4. \/ \E k \in Keys : Promise!Submit(k) \/ Promise!Copy(k)
      \/ Promise!Refuse
      \/ Promise!Erase
      \/ UNCHANGED <<minted, Held>>
  BY <1>1, <1>2, <1>3, WriteSubmits
  DEF Next, Request, Pipeline, EditorStep, ReaderStep, delete_item, forget_scope,
      purge_expired, forget_tenant, Restart, Tick, assemble_start, collect,
      rank_and_fill, audit_one, assemble_done, delete_rows, vars, opsVars, storeVars
<1>5. QED
  BY <1>4 DEF Promised, Promise!Next

(* Without PATCH, every behaviour of Trilith is one of Erasure: pieces are *)
(* copied only while their home holds them, and leave every row in the     *)
(* step in which they leave their home.                                    *)
THEOREM PipelineKeepsPromise ==
  ASSUME Editors = {}
  PROVE  Spec => ErasurePromise
<1>1. Init => Promise!Init
  BY DEF Init, StoreInit, Promise!Init, Held
<1>2. IInv /\ Promised' /\ [Next]_vars => [Promise!Next]_<<minted, Held>>
  BY StepKeepsPromise
<1>3. IInv /\ ContentTraced => Promised
  BY TracedStateIsPromised
<1>4. QED
  BY <1>1, <1>2, <1>3, TracedInvariance, PTL DEF Spec, ErasurePromise, Promise!Spec
=============================================================================
