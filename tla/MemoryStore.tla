----------------------------- MODULE MemoryStore -----------------------------
(***************************************************************************)
(* The memory of the assistant: MemoryStore (s13code/core/memory/store.py) *)
(* and its vector index, two files beside the database (vector_index.py).  *)
(*                                                                         *)
(* One process, one SQLite connection, synchronous calls: calls do not     *)
(* interleave, but the process may die wherever something has been made    *)
(* durable, and the embedder, a local service, may fail at any text.  What *)
(* the connection sees (db) and what a crash leaves (disk) differ while a  *)
(* transaction is open, which an exception leaves open.                    *)
(*                                                                         *)
(* A record keeps its scope, its place in a document, what it supersedes   *)
(* and the model of its embedding.  Left out: texts, ranking, full-text    *)
(* search, expiry (nothing sets valid_to), and policy and audit records,   *)
(* of which only the failure to append one is kept.                        *)
(***************************************************************************)
EXTENDS Naturals, FiniteSets

CONSTANTS
    Scopes,       \* the scopes of requests
    Readable,     \* the scopes whose records a request in a scope may read
    Rendered,     \* scopes in a document id: None and "" are rendered alike
    Uris,         \* source uris of documents
    Contents,     \* texts of documents, by what distinguishes their hashes
    Size,         \* how many chunks a content is cut into
    Models,       \* embedding models the process is started with
    Dimension,    \* the length of a model's vectors
    MaxRecords,   \* bound: record ids ever made
    MaxCrashes    \* bound: how often the process dies

ASSUME ReadableAssumption == Readable \in [Scopes -> SUBSET Scopes]
ASSUME RenderedAssumption == Rendered \in [Scopes -> Scopes]
ASSUME SizeAssumption     == Size \in [Contents -> Nat] /\ "none" \notin Contents
ASSUME ModelAssumption    == Dimension \in [Models -> Nat]
ASSUME BoundsAssumption   == MaxRecords \in Nat /\ MaxCrashes \in Nat

VARIABLES
    db,          \* the tables as the connection sees them
    disk,        \* the tables as last committed
    made,        \* the record ids made so far are 1..made
    embedder,    \* the model of this process
    ids, index,           \* PersistentFaissIndex: ids, and id |-> model of its vector
    idsFile, indexFile,   \* its files; an empty one is a missing one
    phase,       \* where the call under way stands
    asks,        \* the scope of the recall under way, or "none"
    crashes

tables     == <<db, disk, made>>
indexVars  == <<ids, index, idsFile, indexFile>>
memoryVars == <<tables, embedder, indexVars, phase, asks, crashes>>

Sources == Scopes \X Uris
NoRow   == 0

Empty == [records |-> << >>, documents |-> {}]

\* The values of every variable.
MemoryTypeOK ==
    /\ \A d \in {db, disk} :
        /\ DOMAIN d.records \subseteq 1..made
        /\ \A r \in DOMAIN d.records : d.records[r] \in
               [scope : Scopes, current : BOOLEAN, model : Models, supersedes : 0..made,
                document : {<< >>} \cup Sources, version : Nat]
        /\ \A v \in d.documents : v \in
               [document : Sources, scope : Scopes, uri : Uris, version : Nat,
                content : Contents, active : BOOLEAN]
    /\ made \in 0..MaxRecords /\ embedder \in Models /\ crashes \in 0..MaxCrashes
    /\ ids \cup DOMAIN index \cup idsFile \cup DOMAIN indexFile \subseteq 1..made
    /\ phase \in {"down", "idle", "ensure", "ids", "search"} /\ asks \in Scopes \cup {"none"}

MemoryInit ==
    /\ db = Empty /\ disk = Empty /\ made = 0
    /\ embedder \in Models
    /\ ids = {} /\ index = << >> /\ idsFile = {} /\ indexFile = << >>
    /\ phase = "down" /\ asks = "none" /\ crashes = 0

-----------------------------------------------------------------------------
(* Rows. *)

Current(d) == {r \in DOMAIN d.records : d.records[r].current}

\* Whoever supersedes T adds the records new, all like row, with ids of their own.
WithRecords(d, new, row, T) ==
    [d EXCEPT !.records = [r \in DOMAIN d.records \cup new |->
        IF r \in new THEN row
        ELSE IF r \in T THEN [d.records[r] EXCEPT !.current = FALSE] ELSE d.records[r]]]

Record(scope, target, document, version) ==
    [scope |-> scope, current |-> TRUE, model |-> embedder, supersedes |-> target,
     document |-> document, version |-> version]

\* Mutant: an id made before is made again.
NextIdsReused(n) == made .. made + n - 1

NextIds(n) == made + 1 .. made + n

-----------------------------------------------------------------------------
(* write(): a fact or an episode, perhaps in place of an older one. *)

\* Mutant: the status of the superseded record is not looked at.
MaySupersedeAny(scope, r) ==
    r = NoRow \/ /\ r \in DOMAIN db.records
                 /\ db.records[r].scope = scope /\ db.records[r].document = << >>

\* Same kind, same scope, current.
MaySupersede(scope, r) ==
    r = NoRow \/ /\ r \in Current(db)
                 /\ db.records[r].scope = scope /\ db.records[r].document = << >>

Written(scope, target) ==
    WithRecords(db, NextIds(1), Record(scope, target, << >>, 0), {target})

\* The record, the supersession and the audit entry are committed together;
\* when the audit entry cannot be embedded, the rest stays in an open transaction.
Write(scope, target) ==
    /\ phase = "idle" /\ made < MaxRecords /\ MaySupersede(scope, target)
    /\ made' = made + 1
    /\ db' = Written(scope, target)
    /\ \/ disk' = db' /\ phase' = "ensure"
       \/ UNCHANGED <<disk, phase>>
    /\ UNCHANGED <<embedder, indexVars, asks, crashes>>

-----------------------------------------------------------------------------
(* ingest_document(). *)

\* Mutant: documents are told apart by their uri alone.
DocumentIdByUri(scope, uri) == <<CHOOSE s \in Scopes : TRUE, uri>>

\* _document_id(): str(value or "") of everything in the scope, and the uri.
DocumentId(scope, uri) == <<Rendered[scope], uri>>

ActiveRows(d, document) == {v \in d.documents : v.document = document /\ v.active}

\* The chunks of every kind and version that are current for a document.
ChunksOf(d, document) == {r \in Current(d) : d.records[r].document = document}

\* The transaction after n chunks.
Indexed(scope, uri, content, n) ==
    LET document == DocumentId(scope, uri)
        before   == ActiveRows(db, document)
        version  == IF before = {} THEN 1 ELSE (CHOOSE v \in before : TRUE).version + 1
        row == [document |-> document, scope |-> scope, uri |-> uri, version |-> version,
                content |-> content, active |-> TRUE]
        retired == {[v EXCEPT !.active = FALSE] : v \in before}
    IN  [WithRecords(db, NextIds(n), Record(scope, NoRow, document, version),
                     ChunksOf(db, document))
            EXCEPT !.documents = (@ \ before) \cup retired \cup {row}]

\* Mutant: what was done before the failure stays done.
RolledBackPartly(partial) == partial

RolledBack(partial) == disk

IsKnown(scope, uri, content) ==
    \E v \in ActiveRows(db, DocumentId(scope, uri)) : v.content = content

\* All of it is committed, with whatever was in an open transaction; or a chunk
\* or the audit entry cannot be embedded and all of that is rolled back.
Ingest(scope, uri, content) ==
    /\ phase = "idle" /\ ~IsKnown(scope, uri, content)
    /\ made + Size[content] <= MaxRecords
    /\ \/ /\ db' = Indexed(scope, uri, content, Size[content])
          /\ disk' = db' /\ phase' = "ensure"
          /\ made' = made + Size[content]
       \/ \E n \in 0..Size[content] :
          /\ db' = RolledBack(Indexed(scope, uri, content, n))
          /\ UNCHANGED <<disk, made, phase>>
    /\ UNCHANGED <<embedder, indexVars, asks, crashes>>

-----------------------------------------------------------------------------
(* The vector index. *)

\* What can be indexed: the current records that this model has embedded.
Comparable(d) == {r \in Current(d) : d.records[r].model = embedder}

Answering == IF asks = "none" THEN "idle" ELSE "search"

\* Mutant: the ids are written first.
PersistIdsFirst(n) ==
    IF n = 1 THEN idsFile' = ids' /\ UNCHANGED indexFile
    ELSE indexFile' = index /\ UNCHANGED idsFile

\* The n-th step of persist(); files are unlinked in the order they are written.
Persist(n) ==
    IF n = 1 THEN indexFile' = index' /\ UNCHANGED idsFile
    ELSE idsFile' = ids /\ UNCHANGED indexFile

\* _ensure_vector_index(): "only when persisted ids disagree".
Ensure ==
    /\ phase = "ensure"
    /\ IF ids = Current(db) THEN phase' = Answering /\ UNCHANGED indexVars
       ELSE /\ ids' = Comparable(db)
            /\ index' = [r \in Comparable(db) |-> db.records[r].model]
            /\ Persist(1) /\ phase' = "ids"
    /\ UNCHANGED <<tables, embedder, asks, crashes>>

SaveIds ==
    /\ phase = "ids"
    /\ Persist(2) /\ phase' = Answering
    /\ UNCHANGED <<tables, embedder, ids, index, asks, crashes>>

-----------------------------------------------------------------------------
(* recall(). *)

Visible(scope) == {r \in Current(db) : db.records[r].scope \in Readable[scope]}

Recall(scope) ==
    /\ phase = "idle" /\ Visible(scope) # {}
    /\ phase' = "ensure" /\ asks' = scope
    /\ UNCHANGED <<tables, embedder, indexVars, crashes>>

\* Recall may be of facts only, or of chunks only.
Stale(scope, facts) ==
    {r \in Visible(scope) :
        db.records[r].model # embedder /\ (db.records[r].document = << >>) \in facts}

\* faiss refuses a query of another length than its vectors.
QueryFits == \A r \in DOMAIN index : Dimension[index[r]] = Dimension[embedder]

\* Stale records are embedded again one by one and committed together; a failure
\* on the way leaves an open transaction.
Search ==
    /\ phase = "search" /\ phase' = "idle" /\ asks' = "none"
    /\ \/ UNCHANGED <<db, disk>>
       \/ \E n \in 1..made, facts \in {{TRUE}, {FALSE}, BOOLEAN} :
          LET done == Stale(asks, facts) \cap 1..n IN
          /\ QueryFits /\ done # {}
          /\ db' = [db EXCEPT !.records = [r \in DOMAIN @ |->
                        IF r \in done THEN [@[r] EXCEPT !.model = embedder] ELSE @[r]]]
          /\ disk' = IF done = Stale(asks, facts) THEN db' ELSE disk
    /\ UNCHANGED <<made, embedder, indexVars, crashes>>

-----------------------------------------------------------------------------
(* The life of the process. *)

Crash ==
    /\ phase # "down" /\ crashes < MaxCrashes
    /\ phase' = "down" /\ crashes' = crashes + 1
    /\ db' = disk /\ ids' = {} /\ index' = << >> /\ asks' = "none"
    /\ UNCHANGED <<disk, made, embedder, idsFile, indexFile>>

\* __init__(), perhaps with another model; both index files are read, or none.
Open(model) ==
    /\ phase = "down" /\ phase' = "ensure"
    /\ embedder' = model
    /\ IF idsFile # {} /\ indexFile # << >>
       THEN ids' = idsFile /\ index' = indexFile
       ELSE ids' = {} /\ index' = << >>
    /\ UNCHANGED <<tables, idsFile, indexFile, asks, crashes>>

MemoryNext ==
    \/ \E s \in Scopes, r \in 0..made : Write(s, r)
    \/ \E s \in Scopes, u \in Uris, c \in Contents : Ingest(s, u, c)
    \/ \E s \in Scopes : Recall(s)
    \/ \E m \in Models : Open(m)
    \/ Ensure \/ SaveIds \/ Search \/ Crash

MemorySpec == MemoryInit /\ [][MemoryNext]_memoryVars

-----------------------------------------------------------------------------
\* Sources, as far as document ids tell them apart.
Documents == {<<Rendered[scope], uri>> : scope \in Scopes, uri \in Uris}

\* What a document has in the tables, by scopes and uris of the rows.
VersionsOf(d, document) == {v \in d.documents : <<Rendered[v.scope], v.uri>> = document}

InForce(d, document) == {v \in VersionsOf(d, document) : v.active}

Parts(d, document) ==
    {r \in Current(d) : LET row == d.records[r] IN
        row.document # << >> /\ <<Rendered[row.scope], row.document[2]>> = document}

\* A document that was ever indexed has one version in force, all the chunks of
\* that version are current, in its own scope, and no others are: in what this
\* process reads and in what a crash leaves, over failures and rollbacks.  Scopes
\* rendered alike share the document: a new content takes it from one to the
\* other (store.py:131-182).
DocumentsWhole ==
    \A d \in {db, disk}, document \in Documents :
        VersionsOf(d, document) # {} \/ Parts(d, document) # {} =>
            \E v \in InForce(d, document) :
                /\ InForce(d, document) = {v}
                /\ Cardinality(Parts(d, document)) = Size[v.content]
                /\ \A r \in Parts(d, document) :
                       d.records[r].version = v.version /\ d.records[r].scope = v.scope

\* A fact gives way to exactly one other, a current one to none: no correction
\* is lost or made twice, committed or not (store.py:83-101).
OneSuccessor ==
    \A d \in {db, disk} : \A r \in DOMAIN d.records :
        d.records[r].document = << >> =>
            Cardinality({t \in DOMAIN d.records : d.records[t].supersedes = r}) =
                IF r \in Current(d) THEN 0 ELSE 1

\* The index holds the vectors of one model only, and they answer to the ids
\* beside them, whatever a crash did between the two files, unless it also took
\* the open transaction of a record indexed before it was committed
\* (store.py:123-128, vector_index.py:47-55).
IndexIsOfIds ==
    /\ \A r, t \in DOMAIN index : index[r] = index[t]
    /\ phase \in {"idle", "search"} =>
        DOMAIN index = ids \/ \E r \in DOMAIN index : r \notin DOMAIN disk.records

\* "never compare incompatible vectors" (store.py:253-255): a query is put only
\* to vectors of its own model.
ComparesLikeWithLike ==
    phase = "search" => \A r \in DOMAIN index : index[r] = embedder

\* What is committed changes by whole replacements of one document at a time.
Versions == INSTANCE DocumentVersions WITH
    Sources <- Documents,
    shown   <- [document \in Documents |->
        LET found == InForce(disk, document)
            v     == CHOOSE v \in found : TRUE
        IN  IF found = {} THEN [version |-> 0, content |-> "none", chunks |-> 0]
            ELSE [version |-> v.version, content |-> v.content,
                  chunks |-> Cardinality(Parts(disk, document))]]
KeepsVersions == Versions!Spec

=============================================================================
