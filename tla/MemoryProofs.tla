----------------------------- MODULE MemoryProofs -----------------------------
(***************************************************************************)
(* Theorems about MemoryStore, for every set of scopes, uris, texts and    *)
(* models, and any number of records and crashes.                          *)
(*                                                                         *)
(* They rest on Inv.  What the connection sees and what a crash leaves are *)
(* each sound, and they Agree on documents: a transaction that is left     *)
(* open holds facts and embeddings only, because ingest_document() rolls   *)
(* back what it has begun.  So whoever commits it commits no half of a     *)
(* document.                                                               *)
(*                                                                         *)
(* The vector index rests on IndexInv, beside it: what is in memory, what  *)
(* the two files hold, and what a restart would make of them.              *)
(***************************************************************************)
EXTENDS MemoryStore, FiniteSetTheorems, TLAPS

RecordRow(m) ==
    [scope : Scopes, current : BOOLEAN, model : Models, supersedes : 0..m,
     document : {<< >>} \cup Sources, version : Nat]

VersionRow ==
    [document : Sources, scope : Scopes, uri : Uris, version : Nat,
     content : Contents, active : BOOLEAN]

Tables(d) ==
    /\ d = [records |-> d.records, documents |-> d.documents]
    /\ d.records = [r \in DOMAIN d.records |-> d.records[r]]

\* The tables are typed, and every row names the document it is of.
Shape(d, m) ==
    /\ Tables(d)
    /\ DOMAIN d.records \subseteq 1..m
    /\ \A r \in DOMAIN d.records :
        /\ d.records[r] \in RecordRow(m)
        /\ d.records[r].document # << >> =>
               d.records[r].document = <<Rendered[d.records[r].scope], d.records[r].document[2]>>
    /\ \A v \in d.documents : v \in VersionRow /\ v.document = <<Rendered[v.scope], v.uri>>

\* OneSuccessor without counting.
Chained(d) ==
    \A r \in DOMAIN d.records : d.records[r].document = << >> =>
        /\ d.records[r].current => \A t \in DOMAIN d.records : d.records[t].supersedes # r
        /\ ~d.records[r].current =>
              \E t \in DOMAIN d.records :
                  /\ d.records[t].supersedes = r
                  /\ \A u \in DOMAIN d.records : d.records[u].supersedes = r => u = t

\* DocumentsWhole of one document, and of all.
WholeSource(d, s) ==
    VersionsOf(d, s) # {} \/ Parts(d, s) # {} =>
        \E v \in InForce(d, s) :
            /\ InForce(d, s) = {v}
            /\ Cardinality(Parts(d, s)) = Size[v.content]
            /\ \A r \in Parts(d, s) :
                   d.records[r].version = v.version /\ d.records[r].scope = v.scope

Whole(d) == \A s \in Documents : WholeSource(d, s)

Docs(d) == {r \in DOMAIN d.records : d.records[r].document # << >>}

\* Two states of the tables differ in facts and embeddings at most.
Agree(d, e) ==
    /\ d.documents = e.documents /\ Docs(d) = Docs(e)
    /\ \A r \in Docs(d) :
        /\ d.records[r].current = e.records[r].current
        /\ d.records[r].scope = e.records[r].scope
        /\ d.records[r].document = e.records[r].document
        /\ d.records[r].version = e.records[r].version

Sound(d, m) == Shape(d, m) /\ Chained(d) /\ Whole(d)

VolatileTypeOK ==
    /\ made \in 0..MaxRecords /\ embedder \in Models /\ crashes \in 0..MaxCrashes
    /\ ids \cup DOMAIN index \cup idsFile \cup DOMAIN indexFile \subseteq 1..made
    /\ phase \in {"down", "idle", "ensure", "ids", "search"} /\ asks \in Scopes \cup {"none"}

Inv == VolatileTypeOK /\ Sound(db, made) /\ Sound(disk, made) /\ Agree(db, disk)

-----------------------------------------------------------------------------
(* Tables that differ in facts and embeddings at most. *)

\* Agreement is transitive and reflexive.
LEMMA AgreeAgain ==
    ASSUME NEW d, NEW e, NEW f, Agree(d, e), Agree(e, f)
    PROVE  Agree(d, f) /\ Agree(d, d)
BY DEF Agree

\* They show readers the same documents.
LEMMA AgreeParts ==
    ASSUME NEW d, NEW e, Agree(d, e), NEW s
    PROVE  /\ Parts(d, s) = Parts(e, s) /\ InForce(d, s) = InForce(e, s)
           /\ VersionsOf(d, s) = VersionsOf(e, s)
<1>1. \A r : r \in Parts(d, s) <=> r \in Parts(e, s)
  BY DEF Agree, Docs, Parts, Current
<1> QED
  BY <1>1 DEF Agree, InForce, VersionsOf, Parts, Current

\* Readers who find the documents of one whole find those of the other whole.
LEMMA AgreeWhole ==
    ASSUME NEW d, NEW e, Agree(d, e), Whole(e)
    PROVE  Whole(d)
<1> SUFFICES ASSUME NEW s \in Documents PROVE WholeSource(d, s)
  BY DEF Whole
<1>1. WholeSource(e, s)
  BY DEF Whole
<1>2. /\ Parts(d, s) = Parts(e, s) /\ InForce(d, s) = InForce(e, s)
      /\ VersionsOf(d, s) = VersionsOf(e, s)
  BY AgreeParts
<1>3. \A r \in Parts(d, s) :
        d.records[r].version = e.records[r].version /\ d.records[r].scope = e.records[r].scope
  BY DEF Agree, Docs, Parts, Current
<1> QED
  BY <1>1, <1>2, <1>3 DEF WholeSource

\* More ids may be made.
LEMMA ShapeGrows ==
    ASSUME NEW d, NEW m \in Nat, NEW n \in Nat, m <= n, Shape(d, m)
    PROVE  Shape(d, n)
<1>1. 0..m \subseteq 0..n /\ 1..m \subseteq 1..n
  OBVIOUS
<1>2. \A r : r \in RecordRow(m) => r \in RecordRow(n)
  BY <1>1 DEF RecordRow
<1> QED
  BY <1>1, <1>2 DEF Shape

-----------------------------------------------------------------------------
(* Records are added and superseded. *)

\* e is d with the records new, all like row, in place of those of T.
Alters(e, d, m, new, row, T) ==
    /\ Tables(e) /\ DOMAIN e.records = DOMAIN d.records \cup new
    /\ \A r \in new : e.records[r] = row
    /\ \A r \in DOMAIN d.records :
        /\ e.records[r] \in RecordRow(m)
        /\ e.records[r].scope = d.records[r].scope
        /\ e.records[r].supersedes = d.records[r].supersedes
        /\ e.records[r].document = d.records[r].document
        /\ e.records[r].version = d.records[r].version
        /\ e.records[r].current = (d.records[r].current /\ r \notin T)

\* An update of the records leaves the documents.
LEMMA OnlyRecords ==
    ASSUME NEW d, NEW f, Tables(d)
    PROVE  [d EXCEPT !.records = f] = [records |-> f, documents |-> d.documents]
<1>1. \A R, D : [[records |-> R, documents |-> D] EXCEPT !.records = f] = [records |-> f, documents |-> D]
  OBVIOUS
<1>2. PICK R, D : d = [records |-> R, documents |-> D]
  BY DEF Tables
<1>3. d.documents = D
  BY <1>2
<1>4. [d EXCEPT !.records = f] = [[records |-> R, documents |-> D] EXCEPT !.records = f]
  BY <1>2
<1> QED
  BY <1>1, <1>3, <1>4

\* What _write() does to the records, row by row (store.py:91-101).
LEMMA WithRecordsAlters ==
    ASSUME NEW d, NEW m \in Nat, Shape(d, m), NEW new, new \cap 1..m = {}, NEW row, NEW T
    PROVE  LET e == WithRecords(d, new, row, T)
           IN  Alters(e, d, m, new, row, T) /\ e.documents = d.documents
<1> DEFINE e   == WithRecords(d, new, row, T)
           f   == [r \in DOMAIN d.records \cup new |->
                     IF r \in new THEN row
                     ELSE IF r \in T THEN [d.records[r] EXCEPT !.current = FALSE] ELSE d.records[r]]
<1>1. e = [records |-> f, documents |-> d.documents]
  <2>1. e = [d EXCEPT !.records = f]
    BY DEF WithRecords
  <2> HIDE DEF f, e
  <2> QED
    BY <2>1, OnlyRecords DEF Shape
<1>2. e.records = f /\ e.documents = d.documents
  <2> HIDE DEF f, e
  <2> QED
    BY <1>1
<1>3. new \cap DOMAIN d.records = {}
  BY DEF Shape
<1>4. DOMAIN f = DOMAIN d.records \cup new /\ f = [r \in DOMAIN f |-> f[r]]
  OBVIOUS
<1>5. \A r \in new : f[r] = row
  OBVIOUS
<1>6. ASSUME NEW r \in DOMAIN d.records
      PROVE  /\ f[r] \in RecordRow(m)
             /\ f[r].scope = d.records[r].scope
             /\ f[r].supersedes = d.records[r].supersedes
             /\ f[r].document = d.records[r].document
             /\ f[r].version = d.records[r].version
             /\ f[r].current = (d.records[r].current /\ r \notin T)
  <2>1. f[r] = IF r \in T THEN [d.records[r] EXCEPT !.current = FALSE] ELSE d.records[r]
    BY <1>3
  <2>2. d.records[r] \in RecordRow(m)
    BY DEF Shape
  <2> HIDE DEF f
  <2>3. CASE r \in T
    BY <2>1, <2>2, <2>3 DEF RecordRow
  <2>4. CASE r \notin T
    BY <2>1, <2>2, <2>4 DEF RecordRow
  <2> QED
    BY <2>3, <2>4
<1> HIDE DEF f
<1>7. Tables(e)
  BY <1>1, <1>2, <1>4 DEF Tables
<1> QED
  BY <1>2, <1>4, <1>5, <1>6, <1>7 DEF Alters

\* A fact is added, in place of a current one or of none.
LEMMA FactKeeps ==
    ASSUME NEW d, NEW m \in Nat, Shape(d, m), Chained(d), NEW e, NEW row, NEW target,
           row \in RecordRow(m), row.current, row.supersedes = target, row.document = << >>,
           target = NoRow \/ (target \in Current(d) /\ d.records[target].document = << >>),
           Alters(e, d, m, m + 1 .. m + 1, row, {target}), e.documents = d.documents
    PROVE  Shape(e, m + 1) /\ Chained(e) /\ Agree(e, d)
<1>1. DOMAIN d.records \subseteq 1..m /\ DOMAIN e.records = DOMAIN d.records \cup {m + 1}
  BY DEF Shape, Alters
<1>2. e.records[m + 1] = row
  BY DEF Alters
<1>3. \A r \in DOMAIN d.records :
        /\ e.records[r] \in RecordRow(m)
        /\ e.records[r].scope = d.records[r].scope
        /\ e.records[r].supersedes = d.records[r].supersedes
        /\ e.records[r].document = d.records[r].document
        /\ e.records[r].version = d.records[r].version
        /\ e.records[r].current = (d.records[r].current /\ r # target)
  BY DEF Alters
<1>4. \A r \in DOMAIN e.records : e.records[r] \in RecordRow(m) /\ e.records[r].supersedes \in 0..m
  BY <1>1, <1>2, <1>3 DEF RecordRow
<1>5. Shape(e, m + 1)
  <2>1. \A r : r \in RecordRow(m) => r \in RecordRow(m + 1)
    BY DEF RecordRow
  <2>2. \A r \in DOMAIN e.records :
            e.records[r].document # << >> =>
                e.records[r].document = <<Rendered[e.records[r].scope], e.records[r].document[2]>>
    BY <1>1, <1>2, <1>3 DEF Shape
  <2>3. DOMAIN e.records \subseteq 1 .. m + 1
    BY <1>1
  <2> QED
    BY <1>4, <2>1, <2>2, <2>3 DEF Shape, Alters
<1>6. Agree(e, d)
  <2>1. Docs(e) = Docs(d)
    BY <1>1, <1>2, <1>3 DEF Docs
  <2>2. target \notin Docs(d)
    BY <1>1 DEF Docs, NoRow
  <2>3. \A r \in Docs(d) : d.records[r].current \in BOOLEAN
    BY DEF Docs, Shape, RecordRow
  <2> QED
    BY <1>3, <2>1, <2>2, <2>3 DEF Agree, Docs
<1>7. Chained(e)
  <2> SUFFICES ASSUME NEW r \in DOMAIN e.records, e.records[r].document = << >>
               PROVE  /\ e.records[r].current =>
                            \A t \in DOMAIN e.records : e.records[t].supersedes # r
                      /\ ~e.records[r].current =>
                            \E t \in DOMAIN e.records :
                                /\ e.records[t].supersedes = r
                                /\ \A u \in DOMAIN e.records : e.records[u].supersedes = r => u = t
    BY DEF Chained
  <2>1. CASE r = m + 1
    BY <1>2, <1>4, <2>1
  <2>2. CASE r # m + 1
    <3>1. r \in DOMAIN d.records /\ d.records[r].document = << >>
      BY <1>1, <1>3, <2>2
    <3>2. /\ d.records[r].current => \A t \in DOMAIN d.records : d.records[t].supersedes # r
          /\ ~d.records[r].current =>
                \E t \in DOMAIN d.records :
                    /\ d.records[t].supersedes = r
                    /\ \A u \in DOMAIN d.records : d.records[u].supersedes = r => u = t
      BY <3>1 DEF Chained
    <3>a. /\ \A t \in DOMAIN d.records : e.records[t].supersedes = d.records[t].supersedes
          /\ e.records[m + 1].supersedes = target /\ m + 1 \in DOMAIN e.records
          /\ DOMAIN d.records \subseteq DOMAIN e.records
          /\ \A t \in DOMAIN e.records : t \in DOMAIN d.records \/ t = m + 1
      BY <1>1, <1>2, <1>3
    <3>3. CASE r = target
      <4>1. target \in Current(d)
        BY <1>1, <3>1, <3>3 DEF NoRow
      <4>2. d.records[r].current /\ ~e.records[r].current
        BY <1>3, <3>1, <3>3, <4>1 DEF Current
      <4>3. \A u \in DOMAIN d.records : e.records[u].supersedes # r
        BY <3>2, <3>a, <4>2
      <4> QED
        BY <3>3, <3>a, <4>2, <4>3
    <3>4. CASE r # target
      <4>1. e.records[r].current <=> d.records[r].current
        BY <1>3, <3>1, <3>4
      <4>2. CASE d.records[r].current
        BY <3>2, <3>4, <3>a, <4>1, <4>2
      <4>3. CASE ~d.records[r].current
        <5>1. PICK t \in DOMAIN d.records :
                  /\ d.records[t].supersedes = r
                  /\ \A u \in DOMAIN d.records : d.records[u].supersedes = r => u = t
          BY <3>2, <4>3
        <5>2. \A u \in DOMAIN e.records : e.records[u].supersedes = r => u = t
          BY <3>4, <3>a, <5>1
        <5> QED
          BY <3>a, <4>1, <4>3, <5>1, <5>2
      <4> QED
        BY <4>2, <4>3
    <3> QED
      BY <3>3, <3>4
  <2> QED
    BY <2>1, <2>2
<1> QED
  BY <1>5, <1>6, <1>7

-----------------------------------------------------------------------------
(* A source is indexed. *)

\* e is d with the version v of a source in force.
Replaces(e, d, m, v, rec) ==
    /\ v \in VersionRow /\ v.document = <<Rendered[v.scope], v.uri>> /\ v.active
    /\ rec \in RecordRow(m) /\ rec.current /\ rec.supersedes = NoRow
    /\ rec.scope = v.scope /\ rec.document = v.document /\ rec.version = v.version
    /\ Alters(e, d, m, m + 1 .. m + Size[v.content], rec, ChunksOf(d, v.document))
    /\ e.documents = (d.documents \ ActiveRows(d, v.document))
                         \cup {[w EXCEPT !.active = FALSE] : w \in ActiveRows(d, v.document)} \cup {v}

\* The records of a source that is indexed again, row by row.
LEMMA ReplacesRecords ==
    ASSUME NEW d, NEW m \in Nat, Shape(d, m), NEW e, NEW v, NEW rec, Replaces(e, d, m, v, rec)
    PROVE  LET new == m + 1 .. m + Size[v.content] IN
           /\ DOMAIN d.records \subseteq 1..m /\ DOMAIN e.records = DOMAIN d.records \cup new
           /\ \A r \in new : r \notin DOMAIN d.records /\ e.records[r] = rec
           /\ \A r \in DOMAIN d.records :
                /\ e.records[r] \in RecordRow(m)
                /\ e.records[r].scope = d.records[r].scope
                /\ e.records[r].supersedes = d.records[r].supersedes
                /\ e.records[r].document = d.records[r].document
                /\ e.records[r].version = d.records[r].version
                /\ e.records[r].current <=>
                       d.records[r].current /\ d.records[r].document # v.document
           /\ Size[v.content] \in Nat /\ v.document # << >>
<1>1. Size[v.content] \in Nat /\ v.document # << >>
  BY SizeAssumption DEF Replaces, VersionRow
<1>2. DOMAIN d.records \subseteq 1..m
  BY DEF Shape
<1>3. \A r \in m + 1 .. m + Size[v.content] : r \notin DOMAIN d.records
  BY <1>1, <1>2
<1>4. \A r \in DOMAIN d.records : r \in ChunksOf(d, v.document) <=>
            d.records[r].current /\ d.records[r].document = v.document
  BY DEF ChunksOf, Current
<1> QED
  BY <1>1, <1>2, <1>3, <1>4 DEF Replaces, Alters

\* The new rows are typed and name their source.
LEMMA ReplacesShape ==
    ASSUME NEW d, NEW m \in Nat, Shape(d, m), NEW e, NEW v, NEW rec, Replaces(e, d, m, v, rec)
    PROVE  Shape(e, m + Size[v.content])
<1> DEFINE n == m + Size[v.content]
<1>1. /\ Size[v.content] \in Nat /\ n \in Nat /\ m <= n
      /\ DOMAIN e.records \subseteq DOMAIN d.records \cup m + 1 .. n /\ DOMAIN e.records \subseteq 1..n
  BY ReplacesRecords
<1> HIDE DEF n
<1>2. \A r : r \in RecordRow(m) => r \in RecordRow(n)
  <2>1. 0..m \subseteq 0..n
    BY <1>1
  <2> QED
    BY <2>1 DEF RecordRow
<1>3. ASSUME NEW r \in DOMAIN e.records
      PROVE  /\ e.records[r] \in RecordRow(m)
             /\ e.records[r].document # << >> =>
                    e.records[r].document = <<Rendered[e.records[r].scope], e.records[r].document[2]>>
  <2>1. CASE r \in DOMAIN d.records
    BY <2>1, ReplacesRecords DEF Shape
  <2>2. CASE r \in m + 1 .. n
    <3>1. e.records[r] = rec
      BY <2>2, ReplacesRecords DEF n
    <3>2. rec.document = <<Rendered[rec.scope], v.uri>> /\ rec \in RecordRow(m)
      BY DEF Replaces
    <3>3. rec.document[2] = v.uri
      BY <3>2
    <3> QED
      BY <3>1, <3>2, <3>3
  <2> QED
    BY <1>1, <2>1, <2>2
<1>4. ASSUME NEW w \in e.documents
      PROVE  w \in VersionRow /\ w.document = <<Rendered[w.scope], w.uri>>
  <2>1. CASE w \in d.documents
    BY <2>1 DEF Shape
  <2>2. CASE \E x \in d.documents : w = [x EXCEPT !.active = FALSE]
    <3>1. PICK x \in d.documents : w = [x EXCEPT !.active = FALSE]
      BY <2>2
    <3>2. x \in VersionRow /\ x.document = <<Rendered[x.scope], x.uri>>
      BY DEF Shape
    <3> QED
      BY <3>1, <3>2 DEF VersionRow
  <2> QED
    BY <2>1, <2>2 DEF Replaces, ActiveRows
<1>5. Tables(e)
  BY DEF Replaces, Alters
<1> QED
  BY <1>1, <1>2, <1>3, <1>4, <1>5 DEF Shape, n

\* No fact is touched.
LEMMA ReplacesChained ==
    ASSUME NEW d, NEW m \in Nat, Shape(d, m), Chained(d),
           NEW e, NEW v, NEW rec, Replaces(e, d, m, v, rec)
    PROVE  Chained(e)
<1> DEFINE new == m + 1 .. m + Size[v.content]
<1> SUFFICES ASSUME NEW r \in DOMAIN e.records, e.records[r].document = << >>
             PROVE  /\ e.records[r].current =>
                          \A t \in DOMAIN e.records : e.records[t].supersedes # r
                    /\ ~e.records[r].current =>
                          \E t \in DOMAIN e.records :
                              /\ e.records[t].supersedes = r
                              /\ \A u \in DOMAIN e.records : e.records[u].supersedes = r => u = t
  BY DEF Chained
<1>1. \A t \in new : e.records[t].supersedes = NoRow /\ e.records[t].document # << >>
  <2>1. \A t \in new : e.records[t] = rec
    BY ReplacesRecords
  <2>2. rec.supersedes = NoRow /\ rec.document # << >>
    BY ReplacesRecords DEF Replaces
  <2> HIDE DEF new
  <2> QED
    BY <2>1, <2>2
<1>2. DOMAIN d.records \subseteq 1..m /\ DOMAIN e.records = DOMAIN d.records \cup new
  BY ReplacesRecords
<1> HIDE DEF new
<1>3. r \in DOMAIN d.records /\ r # NoRow
  BY <1>1, <1>2 DEF NoRow
<1>4. /\ d.records[r].document = << >> /\ (e.records[r].current <=> d.records[r].current)
      /\ \A t \in DOMAIN d.records : e.records[t].supersedes = d.records[t].supersedes
  BY <1>3, ReplacesRecords
<1>5. \A t \in DOMAIN e.records :
            e.records[t].supersedes = r <=> t \in DOMAIN d.records /\ d.records[t].supersedes = r
  BY <1>1, <1>2, <1>3, <1>4
<1>6. CASE d.records[r].current
  BY <1>3, <1>4, <1>5, <1>6 DEF Chained
<1>7. CASE ~d.records[r].current
  <2>1. PICK t \in DOMAIN d.records :
            /\ d.records[t].supersedes = r
            /\ \A u \in DOMAIN d.records : d.records[u].supersedes = r => u = t
    BY <1>3, <1>4, <1>7 DEF Chained
  <2> QED
    BY <1>2, <1>4, <1>5, <1>7, <2>1
<1> QED
  BY <1>6, <1>7

\* The document has the new version alone, other documents what they had.
LEMMA ReplacesParts ==
    ASSUME NEW d, NEW m \in Nat, Shape(d, m), NEW e, NEW v, NEW rec, Replaces(e, d, m, v, rec),
           NEW s \in Documents
    PROVE  /\ s = v.document => Parts(e, s) = m + 1 .. m + Size[v.content] /\ InForce(e, s) = {v}
           /\ s # v.document => Parts(e, s) = Parts(d, s) /\ InForce(e, s) = InForce(d, s)
<1> DEFINE new == m + 1 .. m + Size[v.content]
<1>1. \A r : r \in Parts(e, s) <=>
            r \in DOMAIN e.records /\ e.records[r].current /\ e.records[r].document = s
  <2>1. \A r \in DOMAIN e.records : e.records[r].document # << >> =>
            e.records[r].document = <<Rendered[e.records[r].scope], e.records[r].document[2]>>
    BY ReplacesShape DEF Shape
  <2>2. s # << >>
    BY DEF Documents
  <2> QED
    BY <2>1, <2>2 DEF Parts, Current
<1>2. \A r : r \in Parts(d, s) <=>
            r \in DOMAIN d.records /\ d.records[r].current /\ d.records[r].document = s
  <2>1. \A r \in DOMAIN d.records : d.records[r].document # << >> =>
            d.records[r].document = <<Rendered[d.records[r].scope], d.records[r].document[2]>>
    BY DEF Shape
  <2>2. s # << >>
    BY DEF Documents
  <2> QED
    BY <2>1, <2>2 DEF Parts, Current
<1>3. \A r \in new : e.records[r].current /\ e.records[r].document = v.document
  <2>1. \A r \in new : e.records[r] = rec
    BY ReplacesRecords
  <2> HIDE DEF new
  <2> QED
    BY <2>1 DEF Replaces
<1>4. \A w \in e.documents : w \in InForce(e, s) <=> w.document = s /\ w.active
  BY ReplacesShape DEF Shape, InForce, VersionsOf
<1>5. \A w \in d.documents : w \in InForce(d, s) <=> w.document = s /\ w.active
  BY DEF Shape, InForce, VersionsOf
<1>6. \A w : w \in e.documents /\ w.active <=>
            w = v \/ (w \in d.documents /\ w.active /\ w.document # v.document)
  <2>1. \A w \in d.documents : w \in VersionRow
    BY DEF Shape
  <2>2. \A w \in VersionRow : [w EXCEPT !.active = FALSE].active = FALSE
    BY DEF VersionRow
  <2> QED
    BY <2>1, <2>2 DEF Replaces, ActiveRows
<1>7. \A w \in InForce(e, s) : w \in e.documents
  BY DEF InForce, VersionsOf
<1>8. \A w \in InForce(d, s) : w \in d.documents
  BY DEF InForce, VersionsOf
<1>9. DOMAIN e.records = DOMAIN d.records \cup new
  BY ReplacesRecords
<1>10. \A r \in DOMAIN d.records :
          /\ e.records[r].document = d.records[r].document
          /\ e.records[r].current <=> d.records[r].current /\ d.records[r].document # v.document
  BY ReplacesRecords
<1>11. \A r \in new : r \notin DOMAIN d.records
  BY ReplacesRecords
<1> HIDE DEF new
<1>12. CASE s = v.document
  <2>1. \A r : r \in Parts(e, s) <=> r \in new
    BY <1>1, <1>3, <1>9, <1>10, <1>12
  <2>2. \A w : w \in InForce(e, s) <=> w = v
    BY <1>4, <1>6, <1>7, <1>12
  <2> QED
    BY <1>12, <2>1, <2>2 DEF new
<1>13. CASE s # v.document
  <2>1. \A r : r \in Parts(e, s) <=> r \in Parts(d, s)
    BY <1>1, <1>2, <1>3, <1>9, <1>10, <1>13
  <2>2. \A w : w \in InForce(e, s) <=> w \in InForce(d, s)
    BY <1>4, <1>5, <1>6, <1>7, <1>8, <1>13
  <2> QED
    BY <1>13, <2>1, <2>2
<1> QED
  BY <1>12, <1>13

\* A whole version of the document is in force, and what was whole stays so.
LEMMA ReplacesWhole ==
    ASSUME NEW d, NEW m \in Nat, Shape(d, m), Whole(d),
           NEW e, NEW v, NEW rec, Replaces(e, d, m, v, rec)
    PROVE  Whole(e)
<1> SUFFICES ASSUME NEW s \in Documents PROVE WholeSource(e, s)
  BY DEF Whole
<1>1. CASE s = v.document
  <2>1. Parts(e, s) = m + 1 .. m + Size[v.content] /\ InForce(e, s) = {v}
    BY <1>1, ReplacesParts
  <2>2. Cardinality(m + 1 .. m + Size[v.content]) = Size[v.content]
    <3> DEFINE a == m + 1
               b == m + Size[v.content]
    <3>1. a \in Int /\ b \in Int /\ Size[v.content] = IF a > b THEN 0 ELSE b - a + 1
      BY ReplacesRecords
    <3> HIDE DEF a, b
    <3>2. Cardinality(a..b) = IF a > b THEN 0 ELSE b - a + 1
      BY <3>1, FS_Interval
    <3>3. Cardinality(a..b) = Size[v.content]
      BY <3>1, <3>2
    <3> QED
      BY <3>3 DEF a, b
  <2>3. \A r \in Parts(e, s) : e.records[r].version = v.version /\ e.records[r].scope = v.scope
    <3>1. \A r \in Parts(e, s) : e.records[r] = rec
      BY <2>1, ReplacesRecords
    <3> QED
      BY <3>1 DEF Replaces
  <2> QED
    BY <2>1, <2>2, <2>3 DEF WholeSource
<1>2. CASE s # v.document
  <2>1. Parts(e, s) = Parts(d, s) /\ InForce(e, s) = InForce(d, s)
    BY <1>2, ReplacesParts
  <2>2. \A r \in Parts(d, s) :
            e.records[r].version = d.records[r].version /\ e.records[r].scope = d.records[r].scope
    BY ReplacesRecords DEF Parts, Current
  <2>3. ASSUME NEW w \in VersionsOf(e, s)
        PROVE  VersionsOf(d, s) # {}
    <3>0. w \in e.documents /\ <<Rendered[w.scope], w.uri>> = s
      BY <2>3 DEF VersionsOf
    <3>1. w \in d.documents \/ w = v \/ \E x \in d.documents : w = [x EXCEPT !.active = FALSE]
      BY <3>0 DEF Replaces, ActiveRows
    <3>2. w # v
      BY <1>2, <3>0 DEF Replaces
    <3>3. \A x \in d.documents : [x EXCEPT !.active = FALSE].scope = x.scope
                                /\ [x EXCEPT !.active = FALSE].uri = x.uri
      BY DEF Shape, VersionRow
    <3> QED
      BY <3>0, <3>1, <3>2, <3>3 DEF VersionsOf
  <2>4. WholeSource(d, s)
    BY DEF Whole
  <2> QED
    BY <2>1, <2>2, <2>3, <2>4 DEF WholeSource
<1> QED
  BY <1>1, <1>2

\* The version that indexing a source puts in force.
NextVersion(scope, uri, content) ==
    LET before == InForce(db, DocumentId(scope, uri))
    IN  [document |-> DocumentId(scope, uri), scope |-> scope, uri |-> uri,
         version |-> IF before = {} THEN 1 ELSE (CHOOSE v \in before : TRUE).version + 1,
         content |-> content, active |-> TRUE]

\* An update of the documents leaves the records.
LEMMA OnlyDocuments ==
    ASSUME NEW d, NEW D, Tables(d)
    PROVE  [d EXCEPT !.documents = D] = [records |-> d.records, documents |-> D]
<1>1. \A R, E : [[records |-> R, documents |-> E] EXCEPT !.documents = D] = [records |-> R, documents |-> D]
  OBVIOUS
<1>2. PICK R, E : d = [records |-> R, documents |-> E]
  BY DEF Tables
<1>3. d.records = R
  BY <1>2
<1>4. [d EXCEPT !.documents = D] = [[records |-> R, documents |-> E] EXCEPT !.documents = D]
  BY <1>2
<1> QED
  BY <1>1, <1>3, <1>4

\* ingest_document() as a whole (store.py:137-178).
LEMMA IndexedReplaces ==
    ASSUME Inv, NEW scope \in Scopes, NEW uri \in Uris, NEW content \in Contents
    PROVE  LET v == NextVersion(scope, uri, content) IN
           /\ Replaces(Indexed(scope, uri, content, Size[content]), db, made, v,
                       Record(scope, NoRow, DocumentId(scope, uri), v.version))
           /\ v.document = DocumentId(scope, uri) /\ v.content = content
<1> DEFINE s    == DocumentId(scope, uri)
           v    == NextVersion(scope, uri, content)
           rec  == Record(scope, NoRow, s, v.version)
           n    == Size[content]
           with == WithRecords(db, made + 1 .. made + n, rec, ChunksOf(db, s))
           D    == (db.documents \ ActiveRows(db, s))
                       \cup {[w EXCEPT !.active = FALSE] : w \in ActiveRows(db, s)} \cup {v}
           e    == Indexed(scope, uri, content, n)
<1>1. Shape(db, made) /\ made \in Nat /\ embedder \in Models
  BY DEF Inv, Sound, VolatileTypeOK
<1>2. n \in Nat
  BY SizeAssumption
<1>3. ActiveRows(db, s) = InForce(db, s)
  BY <1>1 DEF Shape, ActiveRows, InForce, VersionsOf
<1>4. v.version \in Nat
  <2>1. \A w \in InForce(db, s) : w.version \in Nat
    BY <1>1 DEF Shape, VersionRow, InForce, VersionsOf
  <2> QED
    BY <2>1 DEF NextVersion
<1>5. /\ v \in VersionRow /\ v.document = <<Rendered[v.scope], v.uri>> /\ v.active
      /\ v.document = s /\ v.content = content /\ v.scope = scope
  BY <1>4, RenderedAssumption DEF NextVersion, DocumentId, VersionRow, Sources
<1>6. /\ rec \in RecordRow(made) /\ rec.current /\ rec.supersedes = NoRow
      /\ rec.scope = scope /\ rec.document = s /\ rec.version = v.version
  BY <1>1, <1>4, RenderedAssumption DEF Record, RecordRow, NoRow, DocumentId, Sources
<1>7. v = [document |-> s, scope |-> scope, uri |-> uri,
           version |-> IF ActiveRows(db, s) = {} THEN 1
                       ELSE (CHOOSE w \in ActiveRows(db, s) : TRUE).version + 1,
           content |-> content, active |-> TRUE]
  BY <1>3 DEF NextVersion
<1>8. e = [with EXCEPT !.documents = (@ \ ActiveRows(db, s))
                \cup {[w EXCEPT !.active = FALSE] : w \in ActiveRows(db, s)} \cup {v}]
  BY <1>7 DEF Indexed, NextIds, NextVersion
<1> HIDE DEF v, rec, n, e
<1>9. Alters(with, db, made, made + 1 .. made + n, rec, ChunksOf(db, s)) /\ with.documents = db.documents
  <2> DEFINE new == made + 1 .. made + n
  <2>1. new \cap 1..made = {}
    BY <1>1
  <2> HIDE DEF new
  <2>2. /\ Alters(WithRecords(db, new, rec, ChunksOf(db, s)), db, made, new, rec, ChunksOf(db, s))
        /\ WithRecords(db, new, rec, ChunksOf(db, s)).documents = db.documents
    BY <1>1, <2>1, WithRecordsAlters
  <2> QED
    BY <2>2 DEF new
<1> HIDE DEF with
<1>10. e = [records |-> with.records, documents |-> D]
  <2>1. e = [with EXCEPT !.documents = D]
    BY <1>8, <1>9
  <2> HIDE DEF D
  <2> QED
    BY <1>9, <2>1, OnlyDocuments DEF Alters
<1>11. e.records = with.records /\ e.documents = D
  <2> HIDE DEF D
  <2> QED
    BY <1>10
<1>12. Tables(e)
  <2> HIDE DEF D
  <2> QED
    BY <1>9, <1>10, <1>11 DEF Alters, Tables
<1>13. Alters(e, db, made, made + 1 .. made + n, rec, ChunksOf(db, s))
  BY <1>9, <1>11, <1>12 DEF Alters
<1>14. Size[v.content] = n
  BY <1>5 DEF n
<1>15. Replaces(e, db, made, v, rec)
  BY <1>5, <1>6, <1>11, <1>13, <1>14 DEF Replaces
<1> QED
  BY <1>5, <1>15 DEF e, v, rec, n

-----------------------------------------------------------------------------
(* Every step keeps the invariant. *)

\* An empty memory is sound.
LEMMA StartsSound == MemoryInit => Inv
<1> SUFFICES ASSUME MemoryInit PROVE Inv
  OBVIOUS
<1>1. Empty.records = << >> /\ Empty.documents = {} /\ DOMAIN Empty.records = {}
  BY DEF Empty
<1>2. Tables(Empty)
  BY <1>1 DEF Tables, Empty
<1>3. Shape(Empty, 0)
  BY <1>1, <1>2 DEF Shape
<1>4. Chained(Empty) /\ Agree(Empty, Empty)
  BY <1>1 DEF Chained, Agree, Docs
<1>5. Whole(Empty)
  BY <1>1 DEF Whole, WholeSource, VersionsOf, Parts, Current
<1>6. VolatileTypeOK
  BY BoundsAssumption DEF MemoryInit, VolatileTypeOK
<1> QED
  BY <1>3, <1>4, <1>5, <1>6 DEF MemoryInit, Inv, Sound

\* What a step leaves in the tables, committed or not, agrees with what was there.
LEMMA AgreeingStep ==
    ASSUME Inv, made' \in Nat, made <= made',
           Shape(db', made'), Chained(db'), Agree(db', db), disk' \in {db', disk}
    PROVE  Sound(db', made') /\ Sound(disk', made') /\ Agree(db', disk')
<1>1. Sound(db', made')
  BY AgreeWhole DEF Inv, Sound
<1>2. Agree(db', db') /\ Agree(db', disk)
  BY AgreeAgain DEF Inv
<1>3. Sound(disk, made')
  BY ShapeGrows DEF Inv, Sound, VolatileTypeOK
<1> QED
  BY <1>1, <1>2, <1>3

\* A fact or a correction, its audit entry appended or not (store.py:75-114).
LEMMA WriteKeeps ==
    ASSUME Inv, NEW scope \in Scopes, NEW target \in 0..made, Write(scope, target)
    PROVE  Inv' /\ Agree(db', db) /\ disk' \in {db', disk}
<1> DEFINE row == Record(scope, target, << >>, 0)
           new == made + 1 .. made + 1
<1>1. Shape(db, made) /\ Chained(db) /\ made \in Nat /\ embedder \in Models
  BY DEF Inv, Sound, VolatileTypeOK
<1>2. /\ row \in RecordRow(made) /\ row.current /\ row.supersedes = target
      /\ row.document = << >>
  BY <1>1 DEF Record, RecordRow
<1>3. target = NoRow \/ (target \in Current(db) /\ db.records[target].document = << >>)
  BY DEF Write, MaySupersede
<1>4. db' = WithRecords(db, new, row, {target}) /\ made' = made + 1 /\ disk' \in {db', disk}
  BY DEF Write, Written, NextIds
<1>5. new \cap 1..made = {}
  BY <1>1
<1> HIDE DEF row, new
<1>6. Alters(db', db, made, new, row, {target}) /\ db'.documents = db.documents
  BY <1>1, <1>4, <1>5, WithRecordsAlters
<1>7. Shape(db', made') /\ Chained(db') /\ Agree(db', db)
  BY <1>1, <1>2, <1>3, <1>4, <1>6, FactKeeps DEF new
<1>8. Sound(db', made') /\ Sound(disk', made') /\ Agree(db', disk')
  BY <1>1, <1>4, <1>7, AgreeingStep
<1>9. VolatileTypeOK'
  <2>1. made' \in 0..MaxRecords /\ 1..made \subseteq 1..made'
    BY <1>1, <1>4, BoundsAssumption DEF Write
  <2> QED
    BY <2>1 DEF Write, Inv, VolatileTypeOK, indexVars
<1> QED
  BY <1>4, <1>7, <1>8, <1>9 DEF Inv

\* A document, indexed or rolled back (store.py:137-182).
LEMMA IngestKeeps ==
    ASSUME Inv, NEW scope \in Scopes, NEW uri \in Uris, NEW content \in Contents,
           Ingest(scope, uri, content)
    PROVE  Inv'
<1>1. made \in Nat /\ Size[content] \in Nat /\ Shape(db, made) /\ Chained(db) /\ Whole(db)
  BY SizeAssumption DEF Inv, Sound, VolatileTypeOK
<1>2. VolatileTypeOK'
  BY <1>1 DEF Ingest, Inv, VolatileTypeOK, indexVars
<1>3. CASE disk' = db' /\ made' = made + Size[content]
           /\ db' = Indexed(scope, uri, content, Size[content])
  <2> DEFINE v   == NextVersion(scope, uri, content)
             rec == Record(scope, NoRow, DocumentId(scope, uri), v.version)
  <2>1. Replaces(db', db, made, v, rec) /\ v.content = content
    BY <1>3, IndexedReplaces
  <2> HIDE DEF v, rec
  <2>2. Shape(db', made')
    BY <1>1, <1>3, <2>1, ReplacesShape
  <2>3. Chained(db') /\ Whole(db')
    BY <1>1, <2>1, ReplacesChained, ReplacesWhole
  <2>4. Agree(db', db')
    BY DEF Agree
  <2> QED
    BY <1>2, <1>3, <2>2, <2>3, <2>4 DEF Inv, Sound
<1>4. CASE db' = disk /\ disk' = disk /\ made' = made
  <2>1. Agree(disk, disk)
    BY DEF Agree
  <2> QED
    BY <1>2, <1>4, <2>1 DEF Inv
<1> QED
  BY <1>3, <1>4 DEF Ingest, RolledBack

\* Records embedded again, committed or not (store.py:250-267).
LEMMA SearchKeeps ==
    ASSUME Inv, Search
    PROVE  Inv' /\ Agree(db', db) /\ disk' \in {db', disk}
<1>1. Shape(db, made) /\ Chained(db) /\ made \in Nat /\ embedder \in Models /\ made' = made
  BY DEF Inv, Sound, VolatileTypeOK, Search
<1>2. VolatileTypeOK'
  BY DEF Search, Inv, VolatileTypeOK, indexVars
<1>3. CASE UNCHANGED <<db, disk>>
  <2>1. Agree(db, db)
    BY DEF Agree
  <2> QED
    BY <1>1, <1>2, <1>3, <2>1 DEF Inv
<1>4. CASE \E n \in 1..made, facts \in {{TRUE}, {FALSE}, BOOLEAN} :
             LET done == Stale(asks, facts) \cap 1..n IN
             /\ db' = [db EXCEPT !.records = [r \in DOMAIN @ |->
                           IF r \in done THEN [@[r] EXCEPT !.model = embedder] ELSE @[r]]]
             /\ disk' = IF done = Stale(asks, facts) THEN db' ELSE disk
  <2>1. PICK n \in 1..made, facts \in {{TRUE}, {FALSE}, BOOLEAN} :
             LET done == Stale(asks, facts) \cap 1..n IN
             /\ db' = [db EXCEPT !.records = [r \in DOMAIN @ |->
                           IF r \in done THEN [@[r] EXCEPT !.model = embedder] ELSE @[r]]]
             /\ disk' = IF done = Stale(asks, facts) THEN db' ELSE disk
    BY <1>4
  <2> DEFINE done == Stale(asks, facts) \cap 1..n
             f    == [r \in DOMAIN db.records |->
                        IF r \in done THEN [db.records[r] EXCEPT !.model = embedder] ELSE db.records[r]]
  <2>2. db' = [db EXCEPT !.records = f] /\ disk' \in {db', disk}
    BY <2>1
  <2>3. DOMAIN f = DOMAIN db.records /\ f = [r \in DOMAIN f |-> f[r]]
    OBVIOUS
  <2>4. ASSUME NEW r \in DOMAIN db.records
        PROVE  /\ f[r] \in RecordRow(made)
               /\ f[r].current = db.records[r].current /\ f[r].scope = db.records[r].scope
               /\ f[r].document = db.records[r].document /\ f[r].version = db.records[r].version
               /\ f[r].supersedes = db.records[r].supersedes
    <3>1. db.records[r] \in RecordRow(made)
      BY <1>1 DEF Shape
    <3>2. f[r] = db.records[r] \/ f[r] = [db.records[r] EXCEPT !.model = embedder]
      OBVIOUS
    <3> HIDE DEF f
    <3> QED
      BY <1>1, <3>1, <3>2 DEF RecordRow
  <2> HIDE DEF f, done
  <2>5. db' = [records |-> f, documents |-> db.documents]
    BY <1>1, <2>2, OnlyRecords DEF Shape
  <2>6. db'.records = f /\ db'.documents = db.documents
    BY <2>5
  <2>7. Shape(db', made)
    BY <1>1, <2>3, <2>4, <2>5, <2>6 DEF Shape, Tables
  <2>8. Chained(db')
    BY <1>1, <2>3, <2>4, <2>6 DEF Chained
  <2>9. Agree(db', db)
    BY <2>3, <2>4, <2>6 DEF Agree, Docs
  <2>10. Sound(db', made') /\ Sound(disk', made') /\ Agree(db', disk')
    BY <1>1, <2>2, <2>7, <2>8, <2>9, AgreeingStep
  <2> QED
    BY <1>2, <2>2, <2>9, <2>10 DEF Inv
<1> QED
  BY <1>3, <1>4 DEF Search

\* Steps that leave the tables alone, or to what is committed.
LEMMA OthersKeep ==
    ASSUME Inv, Ensure \/ SaveIds \/ Crash \/ (\E s \in Scopes : Recall(s))
                    \/ (\E m \in Models : Open(m)) \/ UNCHANGED memoryVars
    PROVE  Inv'
<1>1. Agree(disk, disk)
  BY DEF Agree
<1>2. made' = made /\ disk' = disk /\ db' \in {db, disk}
  BY DEF Ensure, SaveIds, Crash, Recall, Open, memoryVars, tables
<1>3. Comparable(db) \subseteq 1..made
  BY DEF Inv, Sound, Shape, Comparable, Current
<1>4. VolatileTypeOK'
  <2>1. CASE Ensure
    BY <1>3, <2>1 DEF Inv, VolatileTypeOK, Ensure, Persist, Answering, tables, indexVars
  <2>2. CASE SaveIds
    BY <2>2 DEF Inv, VolatileTypeOK, SaveIds, Persist, Answering, tables
  <2>3. CASE Crash
    BY <2>3, BoundsAssumption DEF Inv, VolatileTypeOK, Crash
  <2>4. CASE \E s \in Scopes : Recall(s)
    BY <2>4 DEF Inv, VolatileTypeOK, Recall, tables, indexVars
  <2>5. CASE \E m \in Models : Open(m)
    BY <2>5 DEF Inv, VolatileTypeOK, Open, tables
  <2>6. CASE UNCHANGED memoryVars
    BY <2>6 DEF Inv, VolatileTypeOK, memoryVars, tables, indexVars
  <2> QED
    BY <2>1, <2>2, <2>3, <2>4, <2>5, <2>6
<1> QED
  BY <1>1, <1>2, <1>4 DEF Inv

\* Every step keeps the invariant.
LEMMA StepSound == Inv /\ [MemoryNext]_memoryVars => Inv'
BY WriteKeeps, IngestKeeps, SearchKeeps, OthersKeep DEF MemoryNext

\* The tables are sound, committed or not, and agree on documents.
THEOREM Invariance == MemorySpec => []Inv
BY StartsSound, StepSound, PTL DEF MemorySpec

-----------------------------------------------------------------------------
(* What the invariant gives. *)

\* Every variable keeps its type, for any number of records and crashes: ids are
\* never made twice and the index knows no id that was not made.
THEOREM MemoryTypeCorrect == MemorySpec => []MemoryTypeOK
<1>1. Inv => MemoryTypeOK
  BY DEF Inv, Sound, Shape, VolatileTypeOK, RecordRow, VersionRow, MemoryTypeOK
<1> QED
  BY <1>1, Invariance, PTL

\* Readers find every document whole, in one version and one scope, and so does a
\* process that is started after a crash.  Documents are told apart as the code
\* does, by ids in which scopes may be rendered alike (store.py:131-182).
THEOREM DocumentsStayWhole == MemorySpec => []DocumentsWhole
<1>1. Inv => DocumentsWhole
  BY DEF Inv, Sound, Whole, WholeSource, DocumentsWhole
<1> QED
  BY <1>1, Invariance, PTL

\* No correction is lost or made twice, whatever transactions were left open
\* (store.py:83-101).
THEOREM CorrectionsAreKept == MemorySpec => []OneSuccessor
<1>1. ASSUME NEW d, Chained(d), NEW r \in DOMAIN d.records, d.records[r].document = << >>
      PROVE  Cardinality({t \in DOMAIN d.records : d.records[t].supersedes = r}) =
                 IF r \in Current(d) THEN 0 ELSE 1
  <2> DEFINE S == {t \in DOMAIN d.records : d.records[t].supersedes = r}
  <2>1. CASE d.records[r].current
    <3>1. S = {}
      BY <1>1, <2>1 DEF Chained
    <3>2. Cardinality(S) = 0
      BY <3>1, FS_EmptySet
    <3> QED
      BY <2>1, <3>2 DEF Current
  <2>2. CASE ~d.records[r].current
    <3>1. PICK t \in DOMAIN d.records :
              /\ d.records[t].supersedes = r
              /\ \A u \in DOMAIN d.records : d.records[u].supersedes = r => u = t
      BY <1>1, <2>2 DEF Chained
    <3>2. S = {t}
      BY <3>1
    <3>3. Cardinality(S) = 1
      BY <3>2, FS_Singleton
    <3> QED
      BY <2>2, <3>3 DEF Current
  <2> QED
    BY <2>1, <2>2
<1>2. Inv => OneSuccessor
  BY <1>1 DEF Inv, Sound, OneSuccessor
<1> QED
  BY <1>2, Invariance, PTL

-----------------------------------------------------------------------------
(* The refinement. *)

\* What readers find of each document.
Shown(d) == [document \in Documents |->
    LET found == InForce(d, document)
        v     == CHOOSE v \in found : TRUE
    IN  IF found = {} THEN [version |-> 0, content |-> "none", chunks |-> 0]
        ELSE [version |-> v.version, content |-> v.content,
              chunks |-> Cardinality(Parts(d, document))]]

\* Readers find the same versions.
LEMMA AgreeShown ==
    ASSUME NEW d, NEW e, Agree(d, e)
    PROVE  Shown(d) = Shown(e)
<1>1. ASSUME NEW s \in Documents PROVE Shown(d)[s] = Shown(e)[s]
  <2>1. Parts(d, s) = Parts(e, s) /\ InForce(d, s) = InForce(e, s)
    BY AgreeParts
  <2> QED
    BY <2>1 DEF Shown
<1>2. /\ Shown(d) = [s \in Documents |-> Shown(d)[s]]
      /\ Shown(e) = [s \in Documents |-> Shown(e)[s]]
  BY DEF Shown
<1> QED
  BY <1>1, <1>2

\* Indexing replaces what is in force of its document.
LEMMA IngestReplaces ==
    ASSUME Inv, NEW scope \in Scopes, NEW uri \in Uris, NEW content \in Contents,
           ~IsKnown(scope, uri, content), db' = Indexed(scope, uri, content, Size[content])
    PROVE  /\ content # Shown(db)[DocumentId(scope, uri)].content
           /\ Shown(db') = [Shown(db) EXCEPT ![DocumentId(scope, uri)] =
                               [version |-> @.version + 1, content |-> content, chunks |-> Size[content]]]
<1> DEFINE s   == DocumentId(scope, uri)
           v   == NextVersion(scope, uri, content)
           rec == Record(scope, NoRow, s, v.version)
<1>1. s \in Documents /\ made \in Nat /\ Shape(db, made) /\ Whole(db)
  BY DEF Inv, Sound, VolatileTypeOK, Documents, DocumentId
<1>2. Replaces(db', db, made, v, rec) /\ v.document = s /\ v.content = content
  BY IndexedReplaces
<1>3. v.version = IF InForce(db, s) = {} THEN 1 ELSE (CHOOSE w \in InForce(db, s) : TRUE).version + 1
  BY DEF NextVersion
<1>4. ActiveRows(db, s) = InForce(db, s)
  BY <1>1 DEF Shape, ActiveRows, InForce, VersionsOf
<1>5. content # Shown(db)[s].content
  <2>1. \A w \in InForce(db, s) : w.content # content
    BY <1>4 DEF IsKnown
  <2>2. Shown(db)[s].content = IF InForce(db, s) = {} THEN "none"
                               ELSE (CHOOSE w \in InForce(db, s) : TRUE).content
    BY <1>1 DEF Shown
  <2> QED
    BY <2>1, <2>2, SizeAssumption
<1>6. Shown(db)[s].version = IF InForce(db, s) = {} THEN 0
                             ELSE (CHOOSE w \in InForce(db, s) : TRUE).version
  BY <1>1 DEF Shown
<1>7. v.version = Shown(db)[s].version + 1
  BY <1>3, <1>6
<1> HIDE DEF v, rec
<1>8. WholeSource(db', s) /\ InForce(db', s) = {v}
  BY <1>1, <1>2, ReplacesParts, ReplacesWhole DEF Whole
<1>9. Shown(db')[s] = [version |-> Shown(db)[s].version + 1, content |-> content, chunks |-> Size[content]]
  <2>1. (CHOOSE w \in InForce(db', s) : TRUE) = v /\ InForce(db', s) # {}
    BY <1>8
  <2>2. VersionsOf(db', s) # {}
    BY <1>8 DEF InForce
  <2>3. Cardinality(Parts(db', s)) = Size[v.content]
    BY <1>8, <2>2 DEF WholeSource
  <2>4. Shown(db')[s] = [version |-> v.version, content |-> v.content, chunks |-> Cardinality(Parts(db', s))]
    BY <1>1, <2>1 DEF Shown
  <2> QED
    BY <1>2, <1>7, <2>3, <2>4
<1>10. ASSUME NEW x \in Documents, x # s PROVE Shown(db')[x] = Shown(db)[x]
  <2>1. Parts(db', x) = Parts(db, x) /\ InForce(db', x) = InForce(db, x)
    BY <1>1, <1>2, <1>10, ReplacesParts
  <2> QED
    BY <2>1 DEF Shown
<1>11. /\ Shown(db) = [x \in Documents |-> Shown(db)[x]]
       /\ Shown(db') = [x \in Documents |-> Shown(db')[x]]
  BY DEF Shown
<1> QED
  BY <1>1, <1>5, <1>9, <1>10, <1>11

\* A step commits a whole replacement of one document, or nothing readers see.
LEMMA StepReplaces ==
    ASSUME Inv, [MemoryNext]_memoryVars
    PROVE  \/ \E s \in Documents, c \in Contents :
                /\ c # Shown(disk)[s].content
                /\ Shown(disk') = [Shown(disk) EXCEPT ![s] =
                                     [version |-> @.version + 1, content |-> c, chunks |-> Size[c]]]
           \/ Shown(disk') = Shown(disk)
<1>1. Shown(db) = Shown(disk)
  BY AgreeShown DEF Inv
<1>2. Shown(db') = Shown(disk')
  BY StepSound, AgreeShown DEF Inv
<1>3. CASE \E s \in Scopes, u \in Uris, c \in Contents : Ingest(s, u, c)
  <2>1. PICK s \in Scopes, u \in Uris, c \in Contents : Ingest(s, u, c)
    BY <1>3
  <2>2. CASE disk' = disk
    BY <2>2
  <2>3. CASE db' = Indexed(s, u, c, Size[c])
    <3> DEFINE source == DocumentId(s, u)
    <3>1. source \in Documents /\ ~IsKnown(s, u, c)
      BY <2>1 DEF Documents, DocumentId, Ingest
    <3>2. /\ c # Shown(db)[source].content
          /\ Shown(db') = [Shown(db) EXCEPT ![source] =
                              [version |-> @.version + 1, content |-> c, chunks |-> Size[c]]]
      BY <2>3, <3>1, IngestReplaces
    <3> HIDE DEF source
    <3> QED
      BY <1>1, <1>2, <3>1, <3>2
  <2> QED
    BY <2>1, <2>2, <2>3 DEF Ingest
<1>4. CASE Agree(db', db) /\ disk' \in {db', disk}
  BY <1>1, <1>4, AgreeShown
<1>5. CASE disk' = disk
  BY <1>5
<1>6. \/ \E s \in Scopes, u \in Uris, c \in Contents : Ingest(s, u, c)
      \/ Agree(db', db) /\ disk' \in {db', disk}
      \/ disk' = disk
  <2>1. CASE \E s \in Scopes, r \in 0..made : Write(s, r)
    BY <2>1, WriteKeeps
  <2>2. CASE Search
    BY <2>2, SearchKeeps
  <2>3. CASE \/ Ensure \/ SaveIds \/ Crash \/ (\E s \in Scopes : Recall(s))
             \/ (\E m \in Models : Open(m)) \/ UNCHANGED memoryVars
    BY <2>3 DEF Ensure, SaveIds, Crash, Recall, Open, memoryVars, tables
  <2> QED
    BY <2>1, <2>2, <2>3 DEF MemoryNext
<1> QED
  BY <1>3, <1>4, <1>5, <1>6

\* What is committed of each document implements DocumentVersions: whole versions
\* follow one another, whatever fails or dies on the way.
THEOREM VersionsKept == MemorySpec => KeepsVersions
<1>1. MemoryInit => Versions!Init
  <2> SUFFICES ASSUME MemoryInit PROVE Versions!Init
    OBVIOUS
  <2>1. \A s : InForce(disk, s) = {}
    BY DEF MemoryInit, Empty, InForce, VersionsOf
  <2> QED
    BY <2>1 DEF Versions!Init, Versions!NotIndexed
<1>2. Inv /\ [MemoryNext]_memoryVars => [Versions!Next]_(Shown(disk))
  <2> SUFFICES ASSUME Inv, [MemoryNext]_memoryVars,
                      NEW s \in Documents, NEW c \in Contents,
                      c # Shown(disk)[s].content,
                      Shown(disk') = [Shown(disk) EXCEPT ![s] =
                                       [version |-> @.version + 1, content |-> c, chunks |-> Size[c]]]
               PROVE  Versions!Replace(s, c)
    BY StepReplaces DEF Versions!Next
  <2> QED
    BY DEF Versions!Replace, Shown
<1> QED
  BY <1>1, <1>2, Invariance, PTL DEF MemorySpec, KeepsVersions, Versions!Spec, Shown

-----------------------------------------------------------------------------
(* The vector index.                                                       *)
(*                                                                         *)
(* The ids are compared with the current records only, so what has to be   *)
(* known is why ids that pass have their own vectors beside them: a crash  *)
(* between the two files leaves ids that are out of date, or vectors of a  *)
(* record that the same crash took.                                        *)

OneModel(V) == \A r, t \in DOMAIN V : V[r] = V[t]

\* A record made lately and not committed is there, and can be indexed.
OpenTransaction ==
    /\ DOMAIN disk.records \subseteq DOMAIN db.records
    /\ Current(db) # Current(disk) => \E r \in Comparable(db) : r \notin DOMAIN disk.records
    /\ phase = "down" => db = disk

\* The vectors V answer to the ids I, or one of them is of a lost record.
Fits(V, I, d) == DOMAIN V = I \/ \E r \in DOMAIN V : r \notin DOMAIN d.records

\* An index that is read back was written whole, or has nothing in it.
InMemory ==
    /\ phase \notin {"down", "ids"} =>
          \/ ids = idsFile /\ index = indexFile
          \/ ids = {} /\ index = << >> /\ (idsFile = {} \/ indexFile = << >>)
    /\ phase = "ids" => index = indexFile /\ DOMAIN index = ids
    /\ phase \in {"idle", "search"} => Fits(index, ids, db)
    /\ phase = "ensure" /\ ids = Current(db) => Fits(index, ids, db)
    /\ phase \in {"idle", "search"} /\ ids = {} =>
          Current(db) \cap idsFile = {} /\ Current(disk) \cap idsFile = {}

\* Ids that a restart would trust.
Trusted(d) == idsFile # {} /\ idsFile = Current(d) => Fits(indexFile, idsFile, d)

IndexInv ==
    /\ OneModel(index) /\ OneModel(indexFile)
    /\ OpenTransaction /\ InMemory /\ Trusted(db) /\ Trusted(disk)

\* e comes after d, whose ids are among 1..m: rows are added, and none is revived.
Follows(e, d, m) ==
    /\ DOMAIN d.records \subseteq DOMAIN e.records
    /\ \A r \in DOMAIN e.records : r \in DOMAIN d.records \/ r \notin 1..m
    /\ \A r \in Current(e) : r \in Current(d) \/ r \notin 1..m

\* Rows that are added and superseded come after the old ones.
LEMMA AltersFollows ==
    ASSUME NEW d, NEW m \in Nat, NEW e, NEW new, new \cap 1..m = {}, NEW row, NEW T,
           Alters(e, d, m, new, row, T)
    PROVE  Follows(e, d, m)
<1>1. \A r \in DOMAIN d.records : e.records[r].current => d.records[r].current
  BY DEF Alters
<1> QED
  BY <1>1 DEF Alters, Follows, Current

\* The rows after a write: the new one is current and can be indexed.
LEMMA WriteFollows ==
    ASSUME Inv, NEW scope \in Scopes, NEW target \in 0..made, Write(scope, target)
    PROVE  /\ Follows(db', db, made) /\ UNCHANGED <<indexVars, embedder>>
           /\ made + 1 \in Comparable(db)' /\ made + 1 \in Current(db')
           /\ made + 1 \notin 1..made /\ made \in Nat
           /\ (disk' = db' /\ phase' = "ensure") \/ UNCHANGED <<disk, phase>>
           /\ phase = "idle"
<1> DEFINE row == Record(scope, target, << >>, 0)
           new == made + 1 .. made + 1
<1>1. Shape(db, made) /\ made \in Nat
  BY DEF Inv, Sound, VolatileTypeOK
<1>2. new \cap 1..made = {} /\ made + 1 \in new /\ made + 1 \notin 1..made
  BY <1>1
<1>3. db' = WithRecords(db, new, row, {target})
  BY DEF Write, Written, NextIds
<1>4. row.current /\ row.model = embedder
  BY DEF Record
<1> HIDE DEF row, new
<1>5. Alters(db', db, made, new, row, {target})
  BY <1>1, <1>2, <1>3, WithRecordsAlters
<1>6. Follows(db', db, made)
  BY <1>1, <1>2, <1>5, AltersFollows
<1>7. made + 1 \in DOMAIN db'.records /\ db'.records[made + 1] = row
  BY <1>2, <1>5 DEF Alters
<1>8. embedder' = embedder
  BY DEF Write
<1> QED
  BY <1>1, <1>2, <1>4, <1>6, <1>7, <1>8 DEF Write, Comparable, Current

\* The rows after a source was indexed, or rolled back.
LEMMA IngestFollows ==
    ASSUME Inv, NEW scope \in Scopes, NEW uri \in Uris, NEW content \in Contents,
           Ingest(scope, uri, content)
    PROVE  /\ UNCHANGED <<indexVars, embedder>> /\ phase = "idle"
           /\ \/ Follows(db', db, made) /\ disk' = db' /\ phase' = "ensure"
              \/ db' = disk /\ UNCHANGED <<disk, phase>>
<1> DEFINE v   == NextVersion(scope, uri, content)
           rec == Record(scope, NoRow, DocumentId(scope, uri), v.version)
           e   == Indexed(scope, uri, content, Size[content])
           new == made + 1 .. made + Size[v.content]
           T   == ChunksOf(db, v.document)
<1>1. made \in Nat /\ v.content = content /\ Size[content] \in Nat
  BY SizeAssumption DEF Inv, VolatileTypeOK, NextVersion
<1>2. Replaces(e, db, made, v, rec)
  BY IndexedReplaces
<1> HIDE DEF v, rec, e
<1>3. Alters(e, db, made, new, rec, T) /\ new \cap 1..made = {}
  BY <1>1, <1>2 DEF Replaces
<1> HIDE DEF new, T
<1>4. Follows(e, db, made)
  BY <1>1, <1>3, AltersFollows
<1> QED
  BY <1>4 DEF Ingest, RolledBack, e

\* A search changes no row but the model of its embedding, to that of the process.
LEMMA SearchFollows ==
    ASSUME Inv, Search
    PROVE  /\ DOMAIN db'.records = DOMAIN db.records /\ Current(db') = Current(db)
           /\ Comparable(db) \subseteq Comparable(db)'
           /\ UNCHANGED <<indexVars, embedder>> /\ disk' \in {db', disk}
           /\ phase = "search" /\ phase' = "idle"
<1>1. /\ UNCHANGED <<indexVars, embedder>> /\ disk' \in {db', disk}
      /\ phase = "search" /\ phase' = "idle"
  BY DEF Search
<1>2. CASE db' = db
  BY <1>1, <1>2 DEF Comparable
<1>3. CASE \E n \in 1..made, facts \in {{TRUE}, {FALSE}, BOOLEAN} :
             db' = [db EXCEPT !.records = [r \in DOMAIN @ |->
                       IF r \in Stale(asks, facts) \cap 1..n
                       THEN [@[r] EXCEPT !.model = embedder] ELSE @[r]]]
  <2>1. PICK n \in 1..made, facts \in {{TRUE}, {FALSE}, BOOLEAN} :
             db' = [db EXCEPT !.records = [r \in DOMAIN @ |->
                       IF r \in Stale(asks, facts) \cap 1..n
                       THEN [@[r] EXCEPT !.model = embedder] ELSE @[r]]]
    BY <1>3
  <2> DEFINE f == [r \in DOMAIN db.records |->
                     IF r \in Stale(asks, facts) \cap 1..n
                     THEN [db.records[r] EXCEPT !.model = embedder] ELSE db.records[r]]
  <2>2. ASSUME NEW r \in DOMAIN db.records
        PROVE  /\ f[r].current = db.records[r].current
               /\ db.records[r].model = embedder => f[r].model = embedder
    <3>1. db.records[r] \in RecordRow(made)
      BY DEF Inv, Sound, Shape
    <3>2. f[r] = db.records[r] \/ f[r] = [db.records[r] EXCEPT !.model = embedder]
      OBVIOUS
    <3> HIDE DEF f
    <3> QED
      BY <3>1, <3>2 DEF RecordRow
  <2>3. DOMAIN f = DOMAIN db.records /\ db' = [db EXCEPT !.records = f]
    BY <2>1
  <2> HIDE DEF f
  <2>4. db' = [records |-> f, documents |-> db.documents]
    BY <2>3, OnlyRecords DEF Inv, Sound, Shape
  <2>5. db'.records = f
    BY <2>4
  <2> QED
    BY <1>1, <2>2, <2>3, <2>5 DEF Comparable, Current
<1> QED
  BY <1>1, <1>2, <1>3 DEF Search

\* An index of known ids answers as well to rows that come after.
LEMMA FitsLater ==
    ASSUME NEW d, NEW e, NEW V, NEW I, Follows(e, d, made), DOMAIN V \subseteq 1..made,
           Fits(V, I, d)
    PROVE  Fits(V, I, e)
BY DEF Fits, Follows

\* An empty memory has an empty index.
LEMMA IndexStarts == MemoryInit => IndexInv
<1> SUFFICES ASSUME MemoryInit PROVE IndexInv
  OBVIOUS
<1>1. Current(db) = {} /\ Current(disk) = {} /\ db = disk
  BY DEF MemoryInit, Empty, Current
<1>2. DOMAIN index = {} /\ DOMAIN indexFile = {}
  BY DEF MemoryInit
<1> QED
  BY <1>1, <1>2 DEF MemoryInit, IndexInv, OneModel, OpenTransaction, InMemory, Trusted

\* A fact is written: no ids of before are those of the current records.
LEMMA WriteKeepsIndex ==
    ASSUME Inv, IndexInv, NEW scope \in Scopes, NEW target \in 0..made, Write(scope, target)
    PROVE  IndexInv'
<1> DEFINE new == made + 1
<1>1. /\ Follows(db', db, made) /\ UNCHANGED <<ids, index, idsFile, indexFile, embedder>>
      /\ new \in Comparable(db)' /\ new \in Current(db')
      /\ new \notin 1..made /\ phase = "idle"
  BY WriteFollows DEF indexVars
<1>2. (disk' = db' /\ phase' = "ensure") \/ UNCHANGED <<disk, phase>>
  BY WriteFollows
<1> HIDE DEF new
<1>3. /\ ids \subseteq 1..made /\ idsFile \subseteq 1..made /\ DOMAIN index \subseteq 1..made
      /\ DOMAIN disk.records \subseteq 1..made
  BY DEF Inv, VolatileTypeOK, Sound, Shape
<1>4. ids # Current(db') /\ idsFile # Current(db')
  BY <1>1, <1>3
<1>5. Fits(index, ids, db')
  BY <1>1, <1>3, FitsLater DEF IndexInv, InMemory
<1>6. OpenTransaction'
  BY <1>1, <1>2, <1>3 DEF IndexInv, OpenTransaction, Follows
<1>7. ids = {} => Current(db') \cap idsFile = {}
  BY <1>1, <1>3 DEF IndexInv, InMemory, Follows
<1>8. InMemory'
  BY <1>1, <1>2, <1>4, <1>5, <1>7 DEF IndexInv, InMemory
<1>9. Trusted(db)' /\ Trusted(disk)'
  BY <1>1, <1>2, <1>4 DEF IndexInv, Trusted
<1> QED
  BY <1>1, <1>6, <1>8, <1>9 DEF IndexInv

\* A source is indexed, perhaps without a chunk, or rolled back.
LEMMA IngestKeepsIndex ==
    ASSUME Inv, IndexInv, NEW scope \in Scopes, NEW uri \in Uris, NEW content \in Contents,
           Ingest(scope, uri, content)
    PROVE  IndexInv'
<1>1. UNCHANGED <<ids, index, idsFile, indexFile, embedder>> /\ phase = "idle"
  BY IngestFollows DEF indexVars
<1>2. /\ idsFile \subseteq 1..made /\ DOMAIN index \subseteq 1..made
      /\ DOMAIN indexFile \subseteq 1..made
  BY DEF Inv, VolatileTypeOK
<1>3. CASE Follows(db', db, made) /\ disk' = db' /\ phase' = "ensure"
  <2>1. Fits(index, ids, db')
    BY <1>1, <1>2, <1>3, FitsLater DEF IndexInv, InMemory
  <2>2. Trusted(db)'
    <3>1. CASE ids = idsFile /\ index = indexFile
      BY <1>1, <2>1, <3>1 DEF Trusted
    <3>2. CASE ids = {} /\ index = << >>
      <4>1. Current(db') \cap idsFile = {}
        BY <1>1, <1>2, <1>3, <3>2 DEF IndexInv, InMemory, Follows
      <4> QED
        BY <1>1, <4>1 DEF Trusted
    <3> QED
      BY <1>1, <3>1, <3>2 DEF IndexInv, InMemory
  <2>3. OpenTransaction' /\ InMemory'
    BY <1>1, <1>3, <2>1 DEF IndexInv, OpenTransaction, InMemory
  <2> QED
    BY <1>1, <1>3, <2>2, <2>3 DEF IndexInv, Trusted
<1>4. CASE db' = disk /\ UNCHANGED <<disk, phase>>
  <2>1. Fits(index, ids, disk)
    BY <1>1 DEF IndexInv, InMemory, OpenTransaction, Fits
  <2>2. OpenTransaction' /\ InMemory'
    BY <1>1, <1>4, <2>1 DEF IndexInv, OpenTransaction, InMemory
  <2> QED
    BY <1>1, <1>4, <2>2 DEF IndexInv, Trusted
<1> QED
  BY <1>3, <1>4, IngestFollows

\* A search commits what was open, or goes on with it.
LEMMA SearchKeepsIndex ==
    ASSUME Inv, IndexInv, Search
    PROVE  IndexInv'
<1>1. /\ DOMAIN db'.records = DOMAIN db.records /\ Current(db') = Current(db)
      /\ Comparable(db) \subseteq Comparable(db)'
      /\ UNCHANGED <<ids, index, idsFile, indexFile, embedder>> /\ disk' \in {db', disk}
      /\ phase = "search" /\ phase' = "idle"
  BY SearchFollows DEF indexVars
<1>2. OpenTransaction'
  BY <1>1 DEF IndexInv, OpenTransaction
<1>3. InMemory'
  BY <1>1 DEF IndexInv, InMemory, Fits
<1>4. Trusted(db)' /\ Trusted(disk)'
  BY <1>1 DEF IndexInv, Trusted, Fits
<1> QED
  BY <1>1, <1>2, <1>3, <1>4 DEF IndexInv

\* The index is built again, and its vectors persisted.
LEMMA RebuildKeepsIndex ==
    ASSUME Inv, IndexInv, Ensure, ids # Current(db)
    PROVE  IndexInv'
<1>1. /\ phase = "ensure" /\ phase' = "ids" /\ ids' = Comparable(db)
      /\ index' = [r \in Comparable(db) |-> db.records[r].model]
      /\ indexFile' = index' /\ UNCHANGED <<idsFile, db, disk, embedder>>
  BY DEF Ensure, Persist, tables
<1>2. DOMAIN index' = Comparable(db)
  BY <1>1
<1>3. OneModel(index')
  BY <1>1 DEF OneModel, Comparable
<1>4. idsFile # {} => idsFile # Current(db)
  BY <1>1 DEF IndexInv, InMemory, Trusted, Fits
<1>5. Trusted(db)'
  BY <1>1, <1>4 DEF Trusted
<1>6. Trusted(disk)'
  BY <1>1, <1>2, <1>4 DEF IndexInv, OpenTransaction, Trusted, Fits
<1>7. OpenTransaction' /\ InMemory'
  BY <1>1, <1>2 DEF IndexInv, OpenTransaction, InMemory, Comparable
<1> QED
  BY <1>1, <1>3, <1>5, <1>6, <1>7 DEF IndexInv

\* What passes the comparison, and what was persisted, can be searched.
LEMMA EnsureKeepsIndex ==
    ASSUME Inv, IndexInv, Ensure \/ SaveIds
    PROVE  IndexInv'
<1>1. CASE Ensure /\ ids = Current(db)
  <2>1. /\ phase = "ensure" /\ phase' \in {"idle", "search"}
        /\ UNCHANGED <<ids, index, idsFile, indexFile, db, disk, embedder>>
    BY <1>1 DEF Ensure, tables, indexVars, Answering
  <2>2. ids = {} => Current(disk) = {}
    BY <1>1 DEF IndexInv, OpenTransaction, Comparable
  <2>3. InMemory'
    BY <1>1, <2>1, <2>2 DEF IndexInv, InMemory
  <2> QED
    BY <2>1, <2>3 DEF IndexInv, OpenTransaction, Trusted, Comparable, OneModel
<1>2. CASE Ensure /\ ids # Current(db)
  BY <1>2, RebuildKeepsIndex
<1>3. CASE SaveIds
  <2>1. /\ phase = "ids" /\ phase' \in {"idle", "search"} /\ idsFile' = ids
        /\ UNCHANGED <<ids, index, indexFile, db, disk, embedder>>
    BY <1>3 DEF SaveIds, Persist, tables, Answering
  <2>2. index = indexFile /\ DOMAIN index = ids
    BY <2>1 DEF IndexInv, InMemory
  <2> QED
    BY <2>1, <2>2 DEF IndexInv, InMemory, OpenTransaction, Trusted, Fits, Comparable, OneModel
<1> QED
  BY <1>1, <1>2, <1>3

\* The process dies, wherever it is, or is started again with any model.
LEMMA RestartKeepsIndex ==
    ASSUME Inv, IndexInv, Crash \/ \E m \in Models : Open(m)
    PROVE  IndexInv'
<1>1. CASE Crash
  <2>1. /\ phase' = "down" /\ db' = disk /\ index' = << >>
        /\ UNCHANGED <<idsFile, indexFile, disk>>
    BY <1>1 DEF Crash
  <2>2. OneModel(index')
    BY <2>1 DEF OneModel
  <2> QED
    BY <2>1, <2>2 DEF IndexInv, OpenTransaction, InMemory, Trusted
<1>2. CASE \E m \in Models : Open(m)
  <2>1. /\ phase = "down" /\ phase' = "ensure" /\ UNCHANGED <<db, disk, idsFile, indexFile>>
        /\ IF idsFile # {} /\ indexFile # << >> THEN ids' = idsFile /\ index' = indexFile
           ELSE ids' = {} /\ index' = << >>
    BY <1>2 DEF Open, tables
  <2>2. OneModel(index') /\ db = disk
    BY <2>1 DEF IndexInv, OpenTransaction, OneModel
  <2>3. ids' = Current(db) => Fits(index', ids', db)
    <3>1. CASE ids' = idsFile /\ index' = indexFile /\ idsFile # {}
      BY <2>2, <3>1 DEF IndexInv, Trusted
    <3>2. CASE ids' = {} /\ index' = << >>
      <4>1. DOMAIN index' = ids'
        BY <3>2
      <4> QED
        BY <4>1 DEF Fits
    <3> QED
      BY <2>1, <3>1, <3>2
  <2> QED
    BY <2>1, <2>2, <2>3 DEF IndexInv, OpenTransaction, InMemory, Trusted
<1> QED
  BY <1>1, <1>2

\* Every step keeps what is known of the index.
LEMMA IndexStep == Inv /\ IndexInv /\ [MemoryNext]_memoryVars => IndexInv'
<1> SUFFICES ASSUME Inv, IndexInv, [MemoryNext]_memoryVars PROVE IndexInv'
  OBVIOUS
<1>1. CASE \E s \in Scopes : Recall(s)
  <2>1. /\ phase = "idle" /\ phase' = "ensure"
        /\ UNCHANGED <<ids, index, idsFile, indexFile, db, disk, embedder>>
    BY <1>1 DEF Recall, tables, indexVars
  <2> QED
    BY <2>1 DEF IndexInv, InMemory, OpenTransaction, Trusted, Fits, Comparable, OneModel
<1>2. CASE UNCHANGED memoryVars
  BY <1>2 DEF memoryVars, tables, indexVars, IndexInv, InMemory, OpenTransaction, Trusted,
              Fits, Comparable, OneModel
<1> QED
  BY <1>1, <1>2, WriteKeepsIndex, IngestKeepsIndex, SearchKeepsIndex, EnsureKeepsIndex,
     RestartKeepsIndex DEF MemoryNext

\* The index holds vectors of one model and its ids are theirs, whatever a crash
\* did between the two files and whichever model the process is started with,
\* unless that crash also took a record (store.py:123-128, vector_index.py:47-55).
THEOREM IndexAnswersToIds == MemorySpec => []IndexIsOfIds
<1>1. IndexInv => IndexIsOfIds
  BY DEF IndexInv, OneModel, OpenTransaction, InMemory, Fits, IndexIsOfIds
<1> QED
  BY <1>1, IndexStarts, IndexStep, Invariance, PTL DEF MemorySpec

=============================================================================
