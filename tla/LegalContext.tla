---------------------------- MODULE LegalContext ----------------------------
(***************************************************************************)
(* The legal contexts of one tenant (LegalContextService, the table        *)
(* legal_contexts and packages/shared/src/lcp): publish is a read and a    *)
(* later write, so publishers interleave, and every agentic action binds   *)
(* the document that is current when it starts and records that binding    *)
(* when it is done.                                                        *)
(*                                                                         *)
(* Every document carries its publishedAt, so no two publish calls produce *)
(* the same one: a document, and so its hash, is named by the call that    *)
(* built it.                                                               *)
(***************************************************************************)
EXTENDS Integers, FiniteSets

CONSTANTS
  Publishers,   \* calls of publish
  Actions,      \* agentic actions
  Kind,         \* what each action is: a function to Kinds
  Overlaps,     \* whether publish calls may overlap: the cases considered
  None          \* no row, no document, no binding

Kinds == {"rebalance", "yield", "executeRun", "prepareRun"}

\* context_id is a random UUID drawn by the first publish: that call's name.
Document == [contextId : Publishers, version : Nat, hash : Publishers]
Stored == [id : Publishers, contextId : Publishers, version : Nat, hash : Publishers]

ASSUME LegalAssumption ==
  /\ Kind \in [Actions -> Kinds]
  /\ Overlaps \subseteq BOOLEAN
  /\ None \notin Publishers \cup Stored

\* What the callers of bindForAction pass as satisfiedConsents.
SatisfiedConsents(a) ==
  CASE Kind[a] \in {"rebalance", "yield"} -> {"treasury-management"}
    [] Kind[a] = "executeRun" -> {"treasury-management", "payroll-execution"}
    [] Kind[a] = "prepareRun" ->
         {"payroll-execution", "payroll-payout-contractors-only"}

\* The consent requirements buildLegalContext puts in every document, all of
\* them required.
Requirements == {"treasury-management", "payroll-execution"}

VARIABLES
  overlap,    \* the case this behaviour is about
  rows,       \* legal_contexts, by primary key: the call that drew the id
  publisher,  \* where each publish call is
  existing,   \* the row each publish call read
  action,     \* where each action is
  binding     \* what each action is bound to, from bindForAction on

vars == <<overlap, rows, publisher, existing, action, binding>>

Binding == [contextId : Publishers, version : Nat, hash : Publishers,
            consents : SUBSET (Requirements \cup {"payroll-payout-contractors-only"})]

Init ==
  /\ overlap \in Overlaps
  /\ rows = {}
  /\ publisher = [p \in Publishers |-> "idle"]
  /\ existing = [p \in Publishers |-> None]
  /\ action = [a \in Actions |-> "idle"]
  /\ binding = [a \in Actions |-> None]

-----------------------------------------------------------------------------
(* Queries and decisions.                                                  *)

\* getLegalContextByTenant: a row of the highest version.  The database is
\* free to pick among equal versions.
Latest == {r \in rows : \A q \in rows : q.version <= r.version}

\* The version and the context id a publish call writes.
NextVersionMutant(e) == IF e = None THEN 1 ELSE e.version
NextVersion(e) == IF e = None THEN 1 ELSE e.version + 1
ContextIdFor(p, e) == IF e = None THEN p ELSE e.contextId

\* The row a publish call writes: on the id of the row it read, or a new one.
NewRow(p, e) ==
  [id |-> IF e = None THEN p ELSE e.id, contextId |-> ContextIdFor(p, e),
   version |-> NextVersion(e), hash |-> p]

\* unique (tenant_id, version), over the rows the upsert does not replace.
UniqueVersionMutant(new) == TRUE
UniqueVersion(new) ==
  \A r \in rows : r.id # new.id => r.version # new.version

\* The consents a binding of action a carries.
Consents(a) == Requirements \cup SatisfiedConsents(a)

\* bindLegalContext refuses a consent the document does not know, and one that
\* leaves a required consent out.
ConsentsHold(consents) ==
  /\ consents \subseteq Requirements
  /\ Requirements \subseteq consents

\* verifyBinding against a stored document.
Verifies(r, b) ==
  b.contextId = r.contextId /\ b.version = r.version /\ b.hash = r.hash

-----------------------------------------------------------------------------
(* publish: POST /legal/publish and the republish scripts.                 *)

Publishing(p) == publisher[p] = "read"

ReadExisting(p) ==
  /\ publisher[p] = "idle"
  /\ overlap \/ \A q \in Publishers : ~Publishing(q)
  /\ publisher' = [publisher EXCEPT ![p] = "read"]
  /\ \E e \in IF rows = {} THEN {None} ELSE Latest :
       existing' = [existing EXCEPT ![p] = e]
  /\ UNCHANGED <<rows, action, binding>>

\* upsert on the primary key: it replaces the row it read.
Upsert(p) ==
  LET new == NewRow(p, existing[p]) IN
  /\ Publishing(p)
  /\ UniqueVersion(new)
  /\ rows' = {r \in rows : r.id # new.id} \cup {new}
  /\ publisher' = [publisher EXCEPT ![p] = "published"]
  /\ UNCHANGED <<existing, action, binding>>

UpsertRefused(p) ==
  /\ Publishing(p)
  /\ ~UniqueVersion(NewRow(p, existing[p]))
  /\ publisher' = [publisher EXCEPT ![p] = "threw"]
  /\ UNCHANGED <<rows, existing, action, binding>>

-----------------------------------------------------------------------------
(* bindForAction, and the record the action leaves.                        *)

NoContext(a) ==
  /\ action[a] = "idle"
  /\ rows = {}
  /\ action' = [action EXCEPT ![a] = "blocked"]
  /\ UNCHANGED <<rows, publisher, existing, binding>>

Bind(a) ==
  /\ action[a] = "idle"
  /\ ConsentsHold(Consents(a))
  /\ \E r \in Latest :
       binding' = [binding EXCEPT ![a] =
                     [contextId |-> r.contextId, version |-> r.version,
                      hash |-> r.hash, consents |-> Consents(a)]]
  /\ action' = [action EXCEPT ![a] = "bound"]
  /\ UNCHANGED <<rows, publisher, existing>>

BindRefused(a) ==
  /\ action[a] = "idle"
  /\ rows # {}
  /\ ~ConsentsHold(Consents(a))
  /\ action' = [action EXCEPT ![a] = "refused"]
  /\ UNCHANGED <<rows, publisher, existing, binding>>

\* The action writes the binding into its run, decision or contract event.
RecordBinding(a) ==
  /\ action[a] = "bound"
  /\ action' = [action EXCEPT ![a] = "recorded"]
  /\ UNCHANGED <<rows, publisher, existing, binding>>

Next ==
  /\ \/ \E p \in Publishers : ReadExisting(p) \/ Upsert(p) \/ UpsertRefused(p)
     \/ \E a \in Actions :
          NoContext(a) \/ Bind(a) \/ BindRefused(a) \/ RecordBinding(a)
  /\ UNCHANGED overlap

Spec == Init /\ [][Next]_vars

-----------------------------------------------------------------------------
(* Properties.                                                             *)

TypeOK ==
  /\ overlap \in Overlaps
  /\ rows \subseteq Stored
  /\ publisher \in [Publishers -> {"idle", "read", "published", "threw"}]
  /\ existing \in [Publishers -> Stored \cup {None}]
  /\ action \in [Actions -> {"idle", "blocked", "bound", "refused", "recorded"}]
  /\ binding \in [Actions -> Binding \cup {None}]

\* A tenant's context id is drawn once and for all, even when its first publish
\* calls race: the unique version constraint turns the loser away, and a loser
\* that comes too late for it stays below the current version.
ContextIdStable ==
  [][\A old \in Latest, new \in Latest' : new.contextId = old.contextId]_vars

\* A context id and a version name one document: two actions bound to the same
\* version of the same context were bound to the same terms.  It holds for
\* publish calls that come one after another.
VersionNamesOneDocument ==
  \A a, b \in Actions :
    /\ ~overlap
    /\ binding[a] # None /\ binding[b] # None
    /\ binding[a].contextId = binding[b].contextId
    /\ binding[a].version = binding[b].version
    => binding[a].hash = binding[b].hash

\* A recorded binding still verifies against a stored document (lines 41-43 of
\* legalContextService.ts; the comment on legal_contexts in 0001_init.sql).
HistoryVerifiable ==
  \A a \in Actions :
    action[a] = "recorded" => \E r \in rows : Verifies(r, binding[a])

\* No tenant that has published its context is refused a self-custody payout
\* for want of a consent.
PayoutCanBind == \A a \in Actions : Kind[a] = "prepareRun" => action[a] # "refused"
=============================================================================
