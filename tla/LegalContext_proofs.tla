------------------------- MODULE LegalContext_proofs -------------------------
(***************************************************************************)
(* Proofs about LegalContext, for every set of publish calls and actions:  *)
(* what holds of the documents of a tenant however publish calls overlap,  *)
(* and what holds of the bindings where they come one after another.       *)
(***************************************************************************)
EXTENDS LegalContext, TLAPS

\* A call that has read and not yet written knows no document, or one it read.
\* A row stands under the id of a call that has published.
CallsInv ==
  /\ \A p \in Publishers : existing[p] # None => existing[p].version >= 1
  /\ \A r \in rows : publisher[r.id] = "published" /\ r.version >= 1

(***************************************************************************)
(* The row the tenant's context lives in.  Of two calls that found no row, *)
(* the second is turned away by the version the first one took, unless the *)
(* first row has moved past version 1 meanwhile: then a second row comes   *)
(* to stand beside it.  It stays at version 1, below the first, so nobody  *)
(* reads it and every later document goes into the first row.              *)
(***************************************************************************)
IsMain(m) ==
  /\ \A r \in rows \ {m} : r.id # m.id /\ r.version = 1 /\ m.version > 1
  /\ \A p \in Publishers :
       Publishing(p) /\ existing[p] # None =>
         existing[p].id = m.id /\ existing[p].contextId = m.contextId

MainInv ==
  IF rows = {} THEN \A p \in Publishers : Publishing(p) => existing[p] = None
  ELSE \E m \in rows : IsMain(m)

\* Calls that come one after another keep a single row, and whoever is about to
\* write has read what it says now.  A binding is to that row's document or to
\* a document of an earlier version.
SerialInv ==
  ~overlap =>
    /\ \A p, q \in Publishers : Publishing(p) /\ Publishing(q) => p = q
    /\ \A r, s \in rows : r = s
    /\ \A p \in Publishers :
         Publishing(p) => IF rows = {} THEN existing[p] = None
                          ELSE existing[p] \in rows
    /\ \A a \in Actions :
         binding[a] # None =>
           \E r \in rows : \/ binding[a].version < r.version
                           \/ binding[a].version = r.version /\ binding[a].hash = r.hash

IInv == TypeOK /\ CallsInv /\ MainInv /\ SerialInv /\ VersionNamesOneDocument

-----------------------------------------------------------------------------

LEMMA InitEstablishes == Init => IInv
BY DEF Init, IInv, TypeOK, CallsInv, MainInv, SerialInv, VersionNamesOneDocument,
       Publishing

\* A row that is read is the main row: it is there, and no other can be Latest.
LEMMA LatestIsMain ==
  ASSUME TypeOK, CallsInv, NEW m \in rows, IsMain(m), NEW r \in Latest
  PROVE  r = m
<1>1. r \in rows /\ m.version <= r.version /\ m.version \in Nat
  BY DEF Latest, TypeOK, Stored
<1>2. QED
  BY <1>1 DEF IsMain

LEMMA ReadKeepsInv ==
  ASSUME IInv, NEW p \in Publishers, ReadExisting(p), overlap' = overlap
  PROVE  IInv'
<1> USE DEF IInv, Publishing
<1>1. PICK e \in IF rows = {} THEN {None} ELSE Latest :
        existing' = [existing EXCEPT ![p] = e]
  BY DEF ReadExisting
<1>2. /\ publisher[p] = "idle" /\ publisher' = [publisher EXCEPT ![p] = "read"]
      /\ UNCHANGED <<rows, action, binding>>
      /\ overlap \/ \A q \in Publishers : ~Publishing(q)
  BY DEF ReadExisting
<1>3. e # None => e \in rows /\ e \in Latest
  BY <1>1 DEF Latest
<1>4. rows # {} => e \in rows /\ e # None
  BY <1>1, LegalAssumption DEF Latest, TypeOK
<1>5. TypeOK'
  BY <1>1, <1>2, <1>3 DEF TypeOK
<1>6. CallsInv'
  BY <1>1, <1>2, <1>3 DEF CallsInv, TypeOK
<1>7. MainInv'
  <2>1. CASE rows = {}
    BY <1>1, <1>2, <2>1 DEF MainInv, TypeOK
  <2>2. CASE rows # {}
    <3>1. PICK m \in rows : IsMain(m)
      BY <2>2 DEF MainInv
    <3>2. e = m
      BY <1>3, <1>4, <2>2, <3>1, LatestIsMain
    <3>3. IsMain(m)'
      BY <1>1, <1>2, <3>1, <3>2 DEF IsMain, TypeOK
    <3>4. QED
      BY <1>2, <2>2, <3>1, <3>3 DEF MainInv
  <2>3. QED
    BY <2>1, <2>2
<1>8. SerialInv' /\ VersionNamesOneDocument'
  BY <1>1, <1>2, <1>4 DEF SerialInv, VersionNamesOneDocument, TypeOK
<1>9. QED
  BY <1>5, <1>6, <1>7, <1>8

\* What a publish call writes, and that its row becomes or leaves the main row.
LEMMA UpsertKeepsMain ==
  ASSUME TypeOK, CallsInv, MainInv, NEW p \in Publishers, Upsert(p),
         overlap' = overlap
  PROVE  /\ (TypeOK /\ CallsInv /\ MainInv)'
         /\ \A old \in Latest, new \in Latest' : new.contextId = old.contextId
<1> USE DEF Publishing
<1> DEFINE e == existing[p]
           w == NewRow(p, e)
<1>1. /\ publisher[p] = "read" /\ UniqueVersion(w)
      /\ rows' = {r \in rows : r.id # w.id} \cup {w}
      /\ publisher' = [publisher EXCEPT ![p] = "published"]
      /\ UNCHANGED <<existing, action, binding>>
  BY DEF Upsert
<1>2. /\ w \in Stored /\ w.version >= 1 /\ publisher'[w.id] = "published"
      /\ e = None => w.id = p /\ w.contextId = p /\ w.version = 1
      /\ e # None => /\ w.id = e.id /\ w.contextId = e.contextId
                     /\ w.version = e.version + 1 /\ w.version > 1
  <2>1. CASE e = None
    BY <1>1, <2>1
       DEF NewRow, NextVersion, ContextIdFor, Stored, TypeOK
  <2>2. CASE e # None
    <3>1. e \in Stored /\ e.version >= 1
      BY <2>2 DEF TypeOK, CallsInv
    <3>2. PICK m \in rows : IsMain(m)
      BY <1>1, <2>2 DEF MainInv
    <3>3. publisher[e.id] = "published"
      BY <1>1, <2>2, <3>2 DEF IsMain, CallsInv
    <3>4. QED
      BY <1>1, <2>2, <3>1, <3>3
         DEF NewRow, NextVersion, ContextIdFor, Stored, TypeOK
  <2>3. QED
    BY <2>1, <2>2
<1> HIDE DEF w
<1>3. PICK n \in Stored :
        /\ UniqueVersion(n) /\ rows' = {r \in rows : r.id # n.id} \cup {n}
        /\ n.version >= 1 /\ publisher'[n.id] = "published"
        /\ e = None => n.id = p /\ n.contextId = p /\ n.version = 1
        /\ e # None => n.id = e.id /\ n.contextId = e.contextId /\ n.version > 1
  BY <1>1, <1>2
<1>4. \A r \in rows' : r \in Stored /\ r.version \in Nat /\ r.version >= 1
  BY <1>3 DEF TypeOK, CallsInv, Stored
<1>5. (TypeOK /\ CallsInv)'
  <2>1. \A r \in rows : publisher'[r.id] = "published"
    BY <1>1 DEF TypeOK, CallsInv, Stored
  <2>2. CallsInv'
    BY <1>1, <1>3, <1>4, <2>1 DEF CallsInv
  <2>3. rows' \subseteq Stored
    BY <1>4
  <2>4. publisher' \in [Publishers -> {"idle", "read", "published", "threw"}]
    BY <1>1 DEF TypeOK
  <2>5. QED
    BY <1>1, <2>2, <2>3, <2>4, LegalAssumption DEF TypeOK, Upsert
<1>6. n \in rows' /\ rows' # {}
  BY <1>3
<1>7. \A q \in Publishers : Publishing(q)' => q # p /\ Publishing(q)
  BY <1>1 DEF TypeOK
<1>8. CASE rows = {}
  <2>1. e = None /\ rows' = {n}
    BY <1>1, <1>3, <1>8 DEF MainInv
  <2>2. IsMain(n)'
    BY <1>1, <1>7, <1>8, <2>1 DEF IsMain, MainInv
  <2>3. MainInv'
    BY <1>6, <2>2 DEF MainInv
  <2>4. QED
    BY <1>5, <1>8, <2>3 DEF Latest
<1>9. CASE rows # {}
  <2>1. PICK m \in rows : IsMain(m)
    BY <1>9 DEF MainInv
  <2>2. \A old \in Latest : old = m
    BY <2>1, LatestIsMain
  <2>3. PICK k \in rows' : IsMain(k)' /\ k.contextId = m.contextId
    <3>1. CASE e = None
      <4>1. \A r \in rows : r.id # n.id /\ r.version # 1
        BY <1>1, <1>3, <3>1 DEF UniqueVersion, CallsInv
      <4>2. /\ rows' = {m, n} /\ n.version = 1 /\ n.id # m.id
            /\ m.version \in Nat /\ m.version > 1
        BY <1>3, <2>1, <3>1, <4>1 DEF IsMain, CallsInv, TypeOK, Stored
      <4>3. IsMain(m)'
        BY <1>1, <1>7, <2>1, <4>2 DEF IsMain
      <4>4. QED
        BY <4>2, <4>3
    <3>2. CASE e # None
      <4>1. n.id = m.id /\ n.contextId = m.contextId /\ n.version > 1
        BY <1>1, <1>3, <2>1, <3>2 DEF IsMain
      <4>2. \A r \in rows' \ {n} : r \in rows \ {m} /\ r.id # n.id
        BY <1>3, <4>1
      <4>3. IsMain(n)'
        BY <1>1, <1>7, <2>1, <4>1, <4>2 DEF IsMain
      <4>4. QED
        BY <1>6, <4>1, <4>3
    <3>3. QED
      BY <3>1, <3>2
  <2>4. \A new \in Latest' : new = k
    <3>1. SUFFICES ASSUME NEW r \in rows', \A q \in rows' : q.version <= r.version
                   PROVE  r = k
      BY DEF Latest
    <3>2. k.version <= r.version /\ k.version \in Nat /\ r.version \in Nat
      BY <1>4, <2>3, <3>1
    <3>3. QED
      BY <2>3, <3>2 DEF IsMain
  <2>5. MainInv'
    BY <1>6, <2>3 DEF MainInv
  <2>6. QED
    BY <1>5, <2>2, <2>3, <2>4, <2>5
<1>10. QED
  BY <1>8, <1>9

\* Where publish calls do not overlap, the row a call writes replaces the only
\* row, which is the one it read, by the next version of it.
LEMMA UpsertKeepsSerial ==
  ASSUME TypeOK, MainInv, CallsInv, SerialInv, VersionNamesOneDocument,
         NEW p \in Publishers, Upsert(p), overlap' = overlap
  PROVE  SerialInv' /\ VersionNamesOneDocument'
<1> USE DEF Publishing
<1> SUFFICES ASSUME ~overlap
             PROVE  SerialInv' /\ VersionNamesOneDocument'
  BY DEF SerialInv, VersionNamesOneDocument
<1> DEFINE e == existing[p]
           n == NewRow(p, e)
<1>1. /\ publisher[p] = "read"
      /\ rows' = {r \in rows : r.id # n.id} \cup {n}
      /\ publisher' = [publisher EXCEPT ![p] = "published"]
      /\ UNCHANGED <<existing, action, binding>>
  BY DEF Upsert
<1>2. rows' = {n} /\ (rows # {} => e \in rows /\ n.version = e.version + 1)
  <2>1. CASE rows = {}
    BY <1>1, <2>1
  <2>2. CASE rows # {}
    <3>1. rows = {e} /\ e # None
      BY <1>1, <2>2, LegalAssumption DEF SerialInv, TypeOK
    <3>2. n.id = e.id /\ n.version = e.version + 1
      BY <3>1 DEF NewRow, NextVersion
    <3> HIDE DEF n, e
    <3>3. QED
      BY <1>1, <3>1, <3>2
  <2>3. QED
    BY <2>1, <2>2
<1> HIDE DEF n
<1>3. \A q \in Publishers : ~Publishing(q)'
  BY <1>1 DEF SerialInv, TypeOK
<1>4. ASSUME NEW a \in Actions, binding[a] # None
      PROVE  binding[a].version < n.version
  <2>1. rows # {} /\ \A r \in rows : r = e /\ r.version \in Nat
    BY <1>2, <1>4 DEF SerialInv, TypeOK, Stored
  <2>2. binding[a].version <= e.version /\ binding[a].version \in Nat
    BY <1>4, <2>1 DEF SerialInv, TypeOK, Binding
  <2>3. e.version \in Nat /\ n.version = e.version + 1
    BY <1>2, <2>1
  <2> HIDE DEF e
  <2>4. QED
    BY <2>2, <2>3
<1>5. SerialInv'
  BY <1>1, <1>2, <1>3, <1>4 DEF SerialInv
<1>6. VersionNamesOneDocument'
  BY <1>1 DEF VersionNamesOneDocument
<1>7. QED
  BY <1>5, <1>6

\* The steps of an action, which write no document.
LEMMA ActionKeepsInv ==
  ASSUME IInv, NEW a \in Actions, overlap' = overlap,
         NoContext(a) \/ Bind(a) \/ BindRefused(a) \/ RecordBinding(a)
  PROVE  IInv'
<1> USE DEF IInv, Publishing
<1>1. UNCHANGED <<rows, publisher, existing>>
  BY DEF NoContext, Bind, BindRefused, RecordBinding
<1>2. (CallsInv /\ MainInv)'
  BY <1>1 DEF CallsInv, MainInv, IsMain
<1>3. CASE Bind(a)
  <2>1. PICK r \in Latest :
          binding' = [binding EXCEPT ![a] =
                        [contextId |-> r.contextId, version |-> r.version,
                         hash |-> r.hash, consents |-> Consents(a)]]
    BY <1>3 DEF Bind
  <2>2. r \in rows /\ r \in Stored
    BY DEF Latest, TypeOK
  <2>3. /\ \A b \in Actions \ {a} : binding'[b] = binding[b]
        /\ binding'[a].version = r.version /\ binding'[a].hash = r.hash
    BY <2>1 DEF TypeOK
  <2>4. TypeOK'
    <3>1. Consents(a) \subseteq Requirements \cup {"payroll-payout-contractors-only"}
      BY LegalAssumption DEF Consents, SatisfiedConsents, Requirements, Kinds
    <3>2. binding' \in [Actions -> Binding \cup {None}]
      BY <2>1, <2>2, <3>1 DEF TypeOK, Binding, Stored
    <3>3. QED
      BY <1>1, <1>3, <3>2 DEF Bind, TypeOK
  <2>5. SerialInv'
    BY <1>1, <2>2, <2>3 DEF SerialInv
  <2>6. VersionNamesOneDocument'
    <3>1. ASSUME NEW b \in Actions \ {a}, ~overlap, binding[b] # None,
                 binding[b].version = r.version
          PROVE  binding[b].hash = r.hash
      BY <2>2, <3>1 DEF SerialInv, TypeOK, Stored
    <3>2. QED
      BY <2>3, <3>1 DEF VersionNamesOneDocument
  <2>7. QED
    BY <1>2, <2>4, <2>5, <2>6
<1>4. CASE NoContext(a) \/ BindRefused(a) \/ RecordBinding(a)
  <2>1. binding' = binding /\ TypeOK'
    BY <1>4 DEF NoContext, BindRefused, RecordBinding, TypeOK
  <2>2. QED
    BY <1>1, <1>2, <2>1 DEF SerialInv, VersionNamesOneDocument
<1>5. QED
  BY <1>3, <1>4

\* Every reachable state satisfies the inductive invariant.
THEOREM InvariantHolds == Spec => []IInv
<1>1. IInv /\ [Next]_vars => IInv'
  <2> SUFFICES ASSUME IInv, [Next]_vars
               PROVE  IInv'
    OBVIOUS
  <2>1. ASSUME NEW p \in Publishers, ReadExisting(p), overlap' = overlap
        PROVE  IInv'
    BY <2>1, ReadKeepsInv
  <2>2. ASSUME NEW p \in Publishers, Upsert(p), overlap' = overlap
        PROVE  IInv'
    BY <2>2, UpsertKeepsMain, UpsertKeepsSerial DEF IInv
  <2>3. ASSUME NEW p \in Publishers, UpsertRefused(p), overlap' = overlap
        PROVE  IInv'
    BY <2>3 DEF UpsertRefused, IInv, TypeOK, CallsInv, MainInv, IsMain, SerialInv,
                VersionNamesOneDocument, Publishing
  <2>4. ASSUME NEW a \in Actions, overlap' = overlap,
               NoContext(a) \/ Bind(a) \/ BindRefused(a) \/ RecordBinding(a)
        PROVE  IInv'
    BY <2>4, ActionKeepsInv
  <2>5. CASE UNCHANGED vars
    BY <2>5 DEF vars, IInv, TypeOK, CallsInv, MainInv, IsMain, SerialInv,
                VersionNamesOneDocument, Publishing
  <2>6. QED
    BY <2>1, <2>2, <2>3, <2>4, <2>5 DEF Next
<1>2. QED
  BY <1>1, InitEstablishes, PTL DEF Spec

\* Two actions bound to one version of a context were bound to the same terms,
\* as long as publish calls come one after another.
THEOREM VersionNamesOneDocumentHolds == Spec => []VersionNamesOneDocument
<1>1. IInv => VersionNamesOneDocument
  BY DEF IInv
<1>2. QED
  BY <1>1, InvariantHolds, PTL

\* The current document never changes its context id, however many publish
\* calls race and however late a loser writes.
THEOREM ContextIdStableHolds == Spec => ContextIdStable
<1> DEFINE Stable == \A old \in Latest, new \in Latest' : new.contextId = old.contextId
<1>1. ASSUME IInv, Next
      PROVE  Stable
  <2>1. ASSUME NEW p \in Publishers, Upsert(p), overlap' = overlap
        PROVE  Stable
    BY <1>1, <2>1, UpsertKeepsMain DEF IInv
  <2>2. CASE rows' = rows
    <3>1. Latest' = Latest
      BY <2>2 DEF Latest
    <3>2. CASE rows = {}
      BY <3>1, <3>2 DEF Latest
    <3>3. CASE rows # {}
      <4>1. PICK m \in rows : IsMain(m)
        BY <1>1, <3>3 DEF IInv, MainInv
      <4>2. \A r \in Latest : r = m
        BY <1>1, <4>1, LatestIsMain DEF IInv
      <4>3. QED
        BY <3>1, <4>2
    <3>4. QED
      BY <3>2, <3>3
  <2>3. QED
    BY <1>1, <2>1, <2>2
       DEF Next, ReadExisting, UpsertRefused, NoContext, Bind, BindRefused,
           RecordBinding
<1>2. ASSUME IInv, UNCHANGED vars
      PROVE  [Stable]_vars
  BY <1>2
<1>3. IInv /\ [Next]_vars => [Stable]_vars
  BY <1>1, <1>2
<1>4. QED
  BY <1>3, InvariantHolds, PTL DEF Spec, ContextIdStable
=============================================================================
