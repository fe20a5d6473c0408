-------------------------- MODULE Dashboard_proofs --------------------------
(***************************************************************************)
(* Proofs about Dashboard and WalletSignIn, for any number of browsers,    *)
(* wallets, tenants and loads, every site, and any lifetime of the         *)
(* snapshot: whose data the caches hold, how old an answer can be, and who *)
(* a wallet is.                                                            *)
(***************************************************************************)
EXTENDS Dashboard, TLAPS

(***************************************************************************)
(* The sign-in.  A wallet has one row because the database refuses a       *)
(* second; a user that verify goes on with is a row, and from the await of *)
(* its answer on a member of the tenant it joins; whatever a session names *)
(* stays, since nothing is deleted.                                        *)
(***************************************************************************)
UsersInv == \A u, v \in users : u.wallet = v.wallet => u = v
FoundInv ==
  \A t \in Tabs :
    /\ found[t] # None => found[t] \in users
    /\ step[t] \in {"member", "answer"} => found[t] # None
    /\ step[t] = "answer" /\ demo # None => <<demo, found[t]>> \in members
Known(s) == s # None => s.user \in users /\ <<s.tenant, s.user>> \in members
SessionInv == \A t \in Tabs : Known(session[t]) /\ Known(stored[t])

SignInInv == SignInTypeOK /\ UsersInv /\ FoundInv /\ SessionInv

\* What a browser or the API does for one tab.
TabStep(t) ==
  \/ SignInStep(t) \/ SignedIn(t) \/ SignOut(t) \/ ExpireToken(t) \/ Restore(t)

\* A sign-in starts from users of their own wallets and restored sessions.
LEMMA SignInStarts ==
  ASSUME SignInInit, demo \in Tenants \cup {None} PROVE SignInInv
<1>1. users \subseteq User /\ members \subseteq Tenants \X User
  BY SignInAssumption DEF SignInInit, User
<1>2. session \in [Tabs -> Session \cup {None}]
  BY <1>1 DEF SignInInit, Session
<1>3. SignInTypeOK
  <2>1. step \in [Tabs -> Steps] /\ address \in [Tabs -> Wallets]
    BY SignInAssumption DEF SignInInit, Steps
  <2>2. fresh \in [Tabs -> BOOLEAN] /\ ours \in [Tabs -> BOOLEAN]
    BY DEF SignInInit
  <2>3. valid \in [Tabs -> BOOLEAN] /\ found \in [Tabs -> User \cup {None}]
    BY DEF SignInInit
  <2>4. stored \in [Tabs -> Session \cup {None}]
    BY <1>2 DEF SignInInit
  <2> QED BY <1>1, <1>2, <2>1, <2>2, <2>3, <2>4 DEF SignInTypeOK
<1>4. UsersInv
  BY DEF SignInInit, UsersInv, User
<1>5. FoundInv
  BY DEF SignInInit, FoundInv
<1>6. \A m \in members : m[2] \in users /\ m = <<m[1], m[2]>>
  BY DEF SignInInit
<1>7. SessionInv
  BY <1>6 DEF SignInInit, SessionInv, Known
<1> QED BY <1>3, <1>4, <1>5, <1>7 DEF SignInInv

\* No step of a sign-in breaks its invariant.
LEMMA SignInInductive ==
  ASSUME SignInInv, NEW t \in Tabs, TabStep(t) PROVE SignInInv'
<1> USE DEF SignInInv, SignInTypeOK, UsersInv, FoundInv, SessionInv, Known, Goto, Steps
<1>1. CASE Connect(t)
  BY <1>1 DEF Connect
<1>2. CASE BuildChallenge(t)
  BY <1>2 DEF BuildChallenge
<1>3. CASE ExpireChallenge(t)
  BY <1>3 DEF ExpireChallenge
<1>4. CASE SignMessage(t)
  BY <1>4 DEF SignMessage, Forget
<1>5. CASE Verify(t)
  BY <1>5 DEF Verify, Forget
<1>6. CASE FindUser(t)
  <2>1. CASE step' = [step EXCEPT ![t] = "create"] /\ UNCHANGED found
    BY <1>6, <2>1 DEF FindUser
  <2>2. CASE \E u \in users : /\ found' = [found EXCEPT ![t] = u]
                             /\ step' = [step EXCEPT ![t] = "member"]
    <3>1. PICK u \in users : /\ found' = [found EXCEPT ![t] = u]
                             /\ step' = [step EXCEPT ![t] = "member"]
      BY <2>2
    <3>2. u \in User /\ u # None
      BY SignInAssumption
    <3> QED BY <1>6, <3>1, <3>2 DEF FindUser
  <2> QED BY <1>6, <2>1, <2>2 DEF FindUser
<1>7. CASE CreateUser(t)
  <2> DEFINE new == [wallet |-> address[t], id |-> t]
  <2>1. new \in User /\ new # None
    BY SignInAssumption DEF User, Ids
  <2>2. users' = users \cup {new} /\ found' = [found EXCEPT ![t] = new]
        /\ step' = [step EXCEPT ![t] = "member"]
    BY <1>7 DEF CreateUser
  <2>3. UNCHANGED <<demo, members, address, ours, fresh, session, stored, valid>>
    BY <1>7 DEF CreateUser
  <2>4. SignInTypeOK'
    BY <2>1, <2>2, <2>3
  <2>5. \A u \in users : u.wallet # new.wallet
    BY <1>7 DEF CreateUser, FreeAddress
  <2>6. UsersInv'
    BY <2>2, <2>5
  <2>7. FoundInv' /\ SessionInv'
    BY <2>1, <2>2, <2>3
  <2> QED BY <2>4, <2>6, <2>7
<1>8. CASE CreateRefused(t)
  BY <1>8 DEF CreateRefused
<1>9. CASE ResolveTenant(t)
  BY <1>9, SignInAssumption DEF ResolveTenant
<1>10. CASE SignedIn(t)
  <2>1. PICK tenant \in TenantsFor(found[t]) :
          /\ session' = [session EXCEPT ![t] = [user |-> found[t], tenant |-> tenant]]
          /\ stored' = [stored EXCEPT ![t] = [user |-> found[t], tenant |-> tenant]]
    BY <1>10 DEF SignedIn
  <2>2. step[t] = "answer" /\ found[t] \in users /\ found[t] \in User
    BY <1>10 DEF SignedIn
  <2>3. <<tenant, found[t]>> \in members
    BY <2>1, <2>2 DEF TenantsFor
  <2>4. [user |-> found[t], tenant |-> tenant] \in Session
    BY <2>2, <2>3 DEF Session
  <2> QED BY <1>10, <2>1, <2>2, <2>3, <2>4 DEF SignedIn
<1>11. CASE SignOut(t)
  BY <1>11 DEF SignOut
<1>12. CASE ExpireToken(t)
  BY <1>12 DEF ExpireToken
<1>13. CASE Restore(t)
  BY <1>13 DEF Restore, Restored, Forget
<1> QED
  BY <1>1, <1>2, <1>3, <1>4, <1>5, <1>6, <1>7, <1>8, <1>9, <1>10, <1>11, <1>12, <1>13
     DEF TabStep, SignInStep

(***************************************************************************)
(* The page and the API.  A value is the tenant's whose session it was     *)
(* asked for with, or the platform's if the endpoint shows that, at every  *)
(* place it passes through; and a stored one was at most MaxRead ticks old *)
(* when its own age was zero, after which both grow together.              *)
(***************************************************************************)
Own(l) == Rightful(KeyOf(load[l].for))
Shared(t) == {t, Platform}
SnapshotOwn == \A t \in Tenants : snapshot[t] # None => snapshot[t].value.of \in Shared(t)
LoadsOwn ==
  \A l \in Loads :
    /\ load[l].value # None => load[l].value.of \in Own(l)
    /\ load[l].at \in {"reading", "read"} => site.cached
OwnInv == CacheIsOwn /\ SnapshotOwn /\ LoadsOwn

AgeInv ==
  /\ \A t \in Tenants : Usable(t) => snapshot[t].value.since <= snapshot[t].age + MaxRead
  /\ \A l \in Loads :
       /\ load[l].at \in {"read", "answered"} => load[l].value # None
       /\ load[l].at = "read" => load[l].value.since <= MaxRead
       /\ load[l].at = "answered" => load[l].value.since <= TTL - 1 + MaxRead

IInv == SignInInv /\ TypeOK /\ OwnInv /\ AgeInv

\* A key stands for a tenant, and so does every load.
LEMMA SubjectIsTenant ==
  ASSUME TypeOK, NEW l \in Loads PROVE About(l) \in Tenants /\ KeyOf(load[l].for) \in Keys
<1>1. site.public \in Tenants
  BY DashboardAssumption DEF TypeOK, Site
<1>2. load[l].for \in Session \cup {None}
  BY DEF TypeOK, LoadState
<1> QED BY <1>1, <1>2 DEF About, Subject, KeyOf, Keys, Session

\* A fresh read is a value about whose data was read.
LEMMA CurrentIsValue ==
  ASSUME TypeOK, NEW o \in Owners
  PROVE  Current(o) \in Value /\ Current(o).of = o /\ Current(o).since = 0 /\ Current(o) # None
<1>1. 0 \in 0 .. Oldest
  BY DashboardAssumption DEF Oldest
<1>2. Current(o) \in Value
  BY <1>1 DEF TypeOK, Current, Value
<1> QED BY <1>2, DashboardAssumption DEF Current, Value, Oldest

\* A value only ages, and by one tick.
LEMMA OlderIsValue ==
  ASSUME NEW v \in Value
  PROVE  /\ Older(v) \in Value /\ Older(v).of = v.of
         /\ Older(v).since <= v.since + 1 /\ Older(v) # None
<1>1. v.since \in 0 .. Oldest /\ Oldest \in Nat
  BY DashboardAssumption DEF Value, Oldest
<1>2. Older(v) \in Value /\ Older(v).of = v.of /\ Older(v).since <= v.since + 1
  BY <1>1 DEF Older, Value
<1> QED BY <1>2, DashboardAssumption DEF Value, Oldest

LEMMA InvariantStarts ==
  ASSUME Init PROVE IInv
<1>1. site \in Site /\ demo \in Tenants \cup {None}
  BY DashboardAssumption DEF Init, Site
<1>2. SignInInv
  BY <1>1, SignInStarts DEF Init
<1>3. TypeOK
  <2>1. site \in Sites /\ SignInTypeOK
    BY <1>2 DEF Init, SignInInv
  <2>2. version \in [Owners -> 0 .. MaxChanges]
    BY DashboardAssumption DEF Init
  <2>3. /\ snapshot \in [Tenants -> [value : Value, age : 0 .. TTL] \cup {None}]
        /\ cache \in [Keys -> Value \cup {None}]
    BY DEF Init
  <2>4. /\ mounted \in BOOLEAN /\ notices \in Nat
        /\ shown \in [value : Value \cup {None}, live : BOOLEAN]
        /\ channel \in [tenant : Tenants \cup {None}, joined : BOOLEAN]
    BY DEF Init, Blank, Closed
  <2>5. Free \in LoadState
    BY DEF Free, Places, LoadState
  <2>6. load \in [Loads -> LoadState]
    BY <2>5 DEF Init
  <2> QED BY <2>1, <2>2, <2>3, <2>4, <2>6 DEF TypeOK
<1>4. OwnInv
  BY DEF Init, OwnInv, CacheIsOwn, SnapshotOwn, LoadsOwn, Free, Keys
<1>5. AgeInv
  BY DEF Init, AgeInv, Usable, Free
<1> QED BY <1>2, <1>3, <1>4, <1>5 DEF IInv

\* A load that starts carries nothing yet.
LEMMA LoadStarts ==
  ASSUME IInv, NEW s \in Session \cup {None}, MayLoad, Load(s), site' = site,
         UNCHANGED <<cache, apiVars>>
  PROVE  OwnInv' /\ AgeInv'
         /\ load' \in [Loads -> LoadState]
<1> DEFINE l == CHOOSE m \in Loads : load[m].at = "free"
<1> DEFINE new == [at |-> "sent", by |-> "page", for |-> s, value |-> None]
<1>1. l \in Loads /\ load' = [load EXCEPT ![l] = new]
  BY DEF MayLoad, Load
<1>2. new \in LoadState
  BY DEF Places, LoadState
<1> HIDE DEF l
<1>3. load' \in [Loads -> LoadState]
  BY <1>1, <1>2 DEF IInv, TypeOK
<1>4. \A m \in Loads : load'[m] = new \/ load'[m] = load[m]
  BY <1>1, <1>2 DEF IInv, TypeOK
<1>5. OwnInv'
  BY <1>4 DEF IInv, OwnInv, CacheIsOwn, SnapshotOwn, LoadsOwn, Own, Shared, Rightful, Subject,
             apiVars
<1>6. AgeInv'
  BY <1>4 DEF IInv, AgeInv, Usable, apiVars
<1> QED BY <1>3, <1>5, <1>6

LEMMA SignInKept ==
  ASSUME SignInInv, UNCHANGED signInVars PROVE SignInInv'
BY DEF SignInInv, SignInTypeOK, UsersInv, FoundInv, SessionInv, Known, signInVars

LEMMA SubscriptionTyped ==
  ASSUME TypeOK, NEW s \in Session \cup {None}, Subscribe(s)
  PROVE  channel' \in [tenant : Tenants \cup {None}, joined : BOOLEAN] /\ notices' \in Nat
<1>1. site.prompt \in BOOLEAN
  BY DashboardAssumption DEF TypeOK, Site
<1> QED BY <1>1 DEF Subscribe, Closed, Session

\* What the page does.
LEMMA PageSteps ==
  ASSUME IInv, Mount \/ Unmount \/ Resession \/ Reload \/ Joined \/ Notify
  PROVE  IInv'
<1> USE DEF IInv
<1>0. session[PageTab] \in Session \cup {None}
  BY DashboardAssumption DEF TypeOK, SignInTypeOK
<1>a. KeyOf(session[PageTab]) \in Keys
  BY <1>0 DEF KeyOf, Keys, Session
<1>1. CASE Mount
  <2>1. Load(session[PageTab]) /\ MayLoad /\ UNCHANGED <<site, cache, apiVars, signInVars>>
    BY <1>1 DEF Mount
  <2>2. SignInInv'
    BY <2>1, SignInKept
  <2>3. OwnInv' /\ AgeInv' /\ load' \in [Loads -> LoadState]
    BY <1>0, <2>1, LoadStarts
  <2>4. shown' \in [value : Value \cup {None}, live : BOOLEAN] /\ mounted' \in BOOLEAN
    BY <1>1, <1>a DEF Mount, TypeOK, Key
  <2>5. channel' \in [tenant : Tenants \cup {None}, joined : BOOLEAN] /\ notices' \in Nat
    BY <1>0, <1>1, SubscriptionTyped DEF Mount
  <2> QED BY <2>1, <2>2, <2>3, <2>4, <2>5 DEF TypeOK, SignInInv, apiVars
<1>2. CASE Unmount
  <2>1. UNCHANGED <<site, apiVars, cache, signInVars>> /\ shown' = Blank /\ mounted' = FALSE
    BY <1>2 DEF Unmount
  <2>2. SignInInv'
    BY <2>1, SignInKept
  <2>3. \A l \in Loads : /\ load'[l] \in LoadState
                         /\ load'[l].at = load[l].at /\ load'[l].for = load[l].for
                         /\ load'[l].value = load[l].value
    BY <1>2 DEF Unmount, TypeOK, LoadState
  <2>4. load' = [l \in Loads |-> load'[l]]
    BY <1>2 DEF Unmount
  <2>5. OwnInv' /\ AgeInv'
    BY <2>1, <2>3 DEF OwnInv, AgeInv, CacheIsOwn, SnapshotOwn, LoadsOwn, Own, Shared, Rightful,
            Subject, Usable, apiVars
  <2>6. channel' \in [tenant : Tenants \cup {None}, joined : BOOLEAN] /\ notices' \in Nat
    BY <1>2, SubscriptionTyped DEF Unmount
  <2> QED BY <2>1, <2>2, <2>3, <2>4, <2>5, <2>6 DEF TypeOK, SignInInv, Blank, apiVars
<1>3. CASE Resession
  <2>1. SignInInv'
    BY <1>3, SignInInductive, DashboardAssumption DEF Resession, TabStep
  <2>2. session'[PageTab] \in Session \cup {None}
    BY <2>1, DashboardAssumption DEF SignInInv, SignInTypeOK
  <2>3. UNCHANGED <<site, apiVars, mounted, shown, cache>>
    BY <1>3 DEF Resession
  <2>4. CASE UNCHANGED load
    <3>1. OwnInv' /\ AgeInv'
      BY <2>3, <2>4 DEF OwnInv, AgeInv, CacheIsOwn, SnapshotOwn, LoadsOwn, Own, Shared, Rightful,
            Subject, Usable, apiVars
    <3>2. channel' \in [tenant : Tenants \cup {None}, joined : BOOLEAN] /\ notices' \in Nat
      BY <1>3, <2>2, SubscriptionTyped DEF Resession, TypeOK
    <3> QED BY <2>1, <2>3, <2>4, <3>1, <3>2 DEF TypeOK, SignInInv, apiVars
  <2>5. CASE MayLoad /\ Load(session'[PageTab])
    <3>1. OwnInv' /\ AgeInv' /\ load' \in [Loads -> LoadState]
      BY <2>2, <2>3, <2>5, LoadStarts
    <3>2. channel' \in [tenant : Tenants \cup {None}, joined : BOOLEAN] /\ notices' \in Nat
      BY <1>3, <2>2, SubscriptionTyped DEF Resession, TypeOK
    <3> QED BY <2>1, <2>3, <3>1, <3>2 DEF TypeOK, SignInInv, apiVars
  <2> QED BY <1>3, <2>4, <2>5 DEF Resession
<1>4. CASE Reload
  <2>1. SignInInv'
    BY <1>4, SignInInductive, DashboardAssumption DEF Reload, TabStep
  <2>2. /\ UNCHANGED <<site, apiVars>> /\ shown' = Blank /\ mounted' = FALSE
        /\ cache' = [k \in Keys |-> None]
    BY <1>4 DEF Reload
  <2>3. \A l \in Loads : /\ load'[l] \in LoadState
                         /\ load'[l].at = load[l].at /\ load'[l].for = load[l].for
                         /\ load'[l].value = load[l].value
    BY <1>4 DEF Reload, TypeOK, LoadState
  <2>4. load' = [l \in Loads |-> load'[l]]
    BY <1>4 DEF Reload
  <2>5. OwnInv' /\ AgeInv'
    BY <2>2, <2>3 DEF OwnInv, AgeInv, CacheIsOwn, SnapshotOwn, LoadsOwn, Own, Shared, Rightful,
            Subject, Usable, apiVars
  <2>6. channel' \in [tenant : Tenants \cup {None}, joined : BOOLEAN] /\ notices' \in Nat
    BY <1>4, SubscriptionTyped DEF Reload
  <2> QED BY <2>1, <2>2, <2>3, <2>4, <2>5, <2>6 DEF TypeOK, SignInInv, Blank, apiVars
<1>5. CASE Joined
  <2>1. /\ UNCHANGED <<site, apiVars, mounted, shown, cache, notices, load, signInVars>>
        /\ channel' = [channel EXCEPT !.joined = TRUE]
    BY <1>5 DEF Joined
  <2>2. SignInInv'
    BY <2>1, SignInKept
  <2>3. OwnInv' /\ AgeInv'
    BY <2>1 DEF OwnInv, AgeInv, CacheIsOwn, SnapshotOwn, LoadsOwn, Own, Shared, Rightful,
            Subject, Usable, apiVars
  <2> QED BY <2>1, <2>2, <2>3 DEF TypeOK, SignInInv, apiVars
<1>6. CASE Notify
  <2>1. /\ UNCHANGED <<site, apiVars, mounted, shown, cache, channel, signInVars>>
        /\ MayLoad /\ Load(session[PageTab]) /\ notices > 0 /\ notices' = notices - 1
    BY <1>6 DEF Notify, Ignored
  <2>2. SignInInv'
    BY <2>1, SignInKept
  <2>3. OwnInv' /\ AgeInv' /\ load' \in [Loads -> LoadState]
    BY <1>0, <2>1, LoadStarts
  <2>4. notices' \in Nat
    BY <2>1 DEF TypeOK
  <2> QED BY <2>1, <2>2, <2>3, <2>4 DEF TypeOK, SignInInv, apiVars
<1> QED BY <1>1, <1>2, <1>3, <1>4, <1>5, <1>6

\* A load that moves on, with None or a value about its tenant.
LEMMA PutKeeps ==
  ASSUME IInv, NEW l \in Loads, NEW place \in Places, NEW value \in Value \cup {None},
         Put(l, place, value), value # None => value.of \in Own(l),
         place \in {"reading", "read"} => site.cached,
         place \in {"read", "answered"} => value # None,
         place = "read" => value.since <= MaxRead,
         place = "answered" => value.since <= TTL - 1 + MaxRead
  PROVE  /\ SignInInv' /\ load' \in [Loads -> LoadState]
         /\ UNCHANGED <<site, version, mounted, shown, cache, channel, notices>>
         /\ LoadsOwn'
         /\ \A m \in Loads :
              /\ load'[m].at \in {"read", "answered"} => load'[m].value # None
              /\ load'[m].at = "read" => load'[m].value.since <= MaxRead
              /\ load'[m].at = "answered" => load'[m].value.since <= TTL - 1 + MaxRead
<1> USE DEF IInv
<1>1. /\ UNCHANGED <<site, version, mounted, shown, cache, channel, notices, signInVars>>
      /\ load' = [load EXCEPT ![l].at = place, ![l].value = value]
  BY DEF Put
<1>2. load[l] \in LoadState /\ load \in [Loads -> LoadState]
  BY DEF TypeOK
<1> DEFINE new == [load[l] EXCEPT !.at = place, !.value = value]
<1>3. new \in LoadState /\ new.at = place /\ new.value = value /\ new.for = load[l].for
  BY <1>2 DEF LoadState
<1>5. load' = [load EXCEPT ![l] = new]
  BY <1>1, <1>2 DEF LoadState
<1> HIDE DEF new
<1>6. load' \in [Loads -> LoadState]
  BY <1>2, <1>3, <1>5
<1>7. load'[l] = new /\ \A m \in Loads \ {l} : load'[m] = load[m]
  BY <1>2, <1>5
<1>4. \A m \in Loads : Own(m)' = Own(m)
  <2>1. \A m \in Loads : load'[m].for = load[m].for
    BY <1>3, <1>7
  <2>2. ASSUME NEW m \in Loads PROVE Own(m)' = Own(m)
    <3>1. site' = site /\ load'[m].for = load[m].for
      BY <1>1, <2>1
    <3> QED BY <3>1 DEF Own, Rightful, Subject
  <2> QED BY <2>2
<1>8. SignInInv'
  BY <1>1, SignInKept
<1>9. LoadsOwn'
  <2>1. /\ load'[l].value # None => load'[l].value.of \in Own(l)
        /\ load'[l].at \in {"reading", "read"} => site.cached
    BY <1>3, <1>7
  <2>2. ASSUME NEW m \in Loads \ {l}
        PROVE  /\ load'[m].value # None => load'[m].value.of \in Own(m)
               /\ load'[m].at \in {"reading", "read"} => site.cached
    BY <1>7 DEF OwnInv, LoadsOwn
  <2> QED BY <1>1, <1>4, <2>1, <2>2 DEF LoadsOwn
<1>10. \A m \in Loads :
         /\ load'[m].at \in {"read", "answered"} => load'[m].value # None
         /\ load'[m].at = "read" => load'[m].value.since <= MaxRead
         /\ load'[m].at = "answered" => load'[m].value.since <= TTL - 1 + MaxRead
  BY <1>3, <1>7 DEF AgeInv
<1> QED BY <1>1, <1>6, <1>8, <1>9, <1>10

\* What the API and the answers do.
LEMMA LoadSteps ==
  ASSUME IInv, NEW l \in Loads, LoadStep(l) PROVE IInv'
<1> USE DEF IInv
<1>0. About(l) \in Tenants /\ KeyOf(load[l].for) \in Keys
  BY SubjectIsTenant
<1>v. load[l] \in LoadState /\ (load[l].value # None => load[l].value \in Value)
  BY DEF TypeOK, LoadState
<1>c. \A o \in {Platform, About(l)} :
        Current(o) \in Value /\ Current(o).of = o /\ Current(o).since = 0 /\ Current(o) # None
  BY <1>0, CurrentIsValue DEF Owners
<1>m. About(l) \in Own(l) /\ Own(l) \subseteq Shared(About(l))
      /\ (site.cached => Own(l) = Shared(About(l)))
  BY DEF Own, Rightful, About, Shared
<1>n. TTL \in Nat /\ TTL >= 1 /\ MaxRead \in Nat
  BY DashboardAssumption
<1>1. CASE Refuse(l)
  <2>1. Put(l, "failed", None) /\ UNCHANGED snapshot
    BY <1>1 DEF Refuse
  <2> QED BY <2>1, PutKeeps DEF Places, TypeOK, SignInInv, OwnInv, SnapshotOwn, Shared, CacheIsOwn, AgeInv,
             Usable, Rightful, Subject
<1>2. CASE Arrive(l)
  <2>0. UNCHANGED snapshot
    BY <1>2 DEF Arrive
  <2>1. CASE Put(l, "answered", Current(About(l)))
    BY <1>c, <1>m, <1>n, <2>0, <2>1, PutKeeps
       DEF Places, TypeOK, SignInInv, OwnInv, SnapshotOwn, Shared, CacheIsOwn, AgeInv, Usable, Rightful, Subject
  <2>2. CASE site.cached /\ Usable(About(l)) /\ Put(l, "answered", snapshot[About(l)].value)
    <3> DEFINE value == snapshot[About(l)].value
    <3>1. /\ value \in Value /\ value # None /\ value.of \in Own(l)
          /\ snapshot[About(l)].age \in 0 .. TTL /\ snapshot[About(l)].age < TTL
          /\ value.since <= snapshot[About(l)].age + MaxRead
      BY <1>0, <1>m, <2>2, DashboardAssumption
         DEF TypeOK, Usable, OwnInv, SnapshotOwn, AgeInv, Value, Oldest
    <3>2. value.since \in Nat
      BY <3>1, <1>n DEF Value, Oldest
    <3>3. value.since <= TTL - 1 + MaxRead
      BY <3>1, <3>2, <1>n
    <3>4. Put(l, "answered", value)
      BY <2>2
    <3> HIDE DEF value
    <3> QED BY <2>0, <3>1, <3>3, <3>4, PutKeeps
            DEF Places, TypeOK, SignInInv, OwnInv, SnapshotOwn, Shared, CacheIsOwn, AgeInv, Usable, Rightful, Subject
  <2>3. CASE site.cached /\ Put(l, "reading", None)
    BY <2>0, <2>3, PutKeeps
       DEF Places, TypeOK, SignInInv, OwnInv, SnapshotOwn, Shared, CacheIsOwn, AgeInv, Usable, Rightful, Subject
  <2> QED BY <1>2, <2>1, <2>2, <2>3 DEF Arrive
<1>3. CASE ReadChain(l)
  <2>1. PICK o \in Shared(About(l)) : Put(l, "read", Current(o))
    BY <1>3 DEF ReadChain, Shared
  <2>2. site.cached /\ UNCHANGED snapshot
    BY <1>3 DEF ReadChain, OwnInv, LoadsOwn
  <2>3. o \in Own(l) /\ Current(o) \in Value /\ Current(o).of = o
        /\ Current(o).since = 0 /\ Current(o) # None
    BY <1>c, <1>m, <2>2 DEF Shared
  <2> QED BY <1>n, <2>1, <2>2, <2>3, PutKeeps
          DEF Places, TypeOK, SignInInv, OwnInv, SnapshotOwn, Shared, CacheIsOwn, AgeInv, Usable, Rightful, Subject
<1>4. CASE Store(l)
  <2> DEFINE value == load[l].value
  <2>1. /\ value \in Value /\ value # None /\ value.of \in Own(l) /\ value.since <= MaxRead
    BY <1>4, <1>v DEF Store, OwnInv, LoadsOwn, AgeInv
  <2>2. value.since \in Nat
    BY <2>1, <1>n DEF Value, Oldest
  <2>3. value.since <= TTL - 1 + MaxRead
    BY <2>1, <2>2, <1>n
  <2>4. Put(l, "answered", value)
        /\ snapshot' = [snapshot EXCEPT ![About(l)] = [value |-> value, age |-> 0]]
    BY <1>4 DEF Store
  <2> HIDE DEF value
  <2>5. /\ SignInInv' /\ load' \in [Loads -> LoadState]
        /\ UNCHANGED <<site, version, mounted, shown, cache, channel, notices>>
        /\ LoadsOwn'
        /\ \A m \in Loads :
              /\ load'[m].at \in {"read", "answered"} => load'[m].value # None
              /\ load'[m].at = "read" => load'[m].value.since <= MaxRead
              /\ load'[m].at = "answered" => load'[m].value.since <= TTL - 1 + MaxRead
    BY <2>1, <2>3, <2>4, PutKeeps DEF Places
  <2>6. /\ snapshot' \in [Tenants -> [value : Value, age : 0 .. TTL] \cup {None}]
        /\ snapshot'[About(l)] = [value |-> value, age |-> 0]
        /\ \A t \in Tenants \ {About(l)} : snapshot'[t] = snapshot[t]
    BY <1>0, <1>n, <2>1, <2>4 DEF TypeOK
  <2>7. OwnInv'
    <3>1. value.of \in Shared(About(l))
      BY <1>m, <2>1
    <3>2. SnapshotOwn'
      BY <2>6, <3>1 DEF OwnInv, SnapshotOwn, Shared
    <3>3. CacheIsOwn'
      BY <2>5 DEF OwnInv, CacheIsOwn, Rightful, Subject
    <3> QED BY <2>5, <3>2, <3>3 DEF OwnInv
  <2>8. AgeInv'
    <3>1. value.since <= 0 + MaxRead
      BY <2>1, <2>2, <1>n
    <3> QED BY <2>5, <2>6, <3>1 DEF AgeInv, Usable
  <2> QED BY <2>5, <2>6, <2>7, <2>8 DEF TypeOK, SignInInv
<1>5. CASE Answer(l)
  <2> DEFINE value == [load[l].value EXCEPT !.since = 0]
  <2>1. load[l].value \in Value /\ load[l].value.of \in Own(l)
    BY <1>5, <1>v DEF Answer, OwnInv, LoadsOwn, AgeInv
  <2>2. value \in Value /\ value.of \in Own(l)
    BY <2>1, <1>n DEF Value, Oldest
  <2>3. /\ UNCHANGED <<site, apiVars, mounted, channel, notices, signInVars>>
        /\ load' = [load EXCEPT ![l] = Free]
        /\ cache' = IF load[l].by = "gone" THEN cache
                    ELSE [cache EXCEPT ![KeyOf(load[l].for)] = value]
        /\ shown' = IF load[l].by = "page" THEN [value |-> value, live |-> TRUE] ELSE shown
    BY <1>5 DEF Answer, Ended, CacheKey
  <2> HIDE DEF value
  <2>4. SignInInv' /\ \A m \in Loads : load'[m] = load[m] \/ load'[m] = Free
    BY <2>3, SignInKept DEF TypeOK
  <2>5. Free \in LoadState /\ load' \in [Loads -> LoadState]
    BY <2>3 DEF TypeOK, Free, LoadState, Places
  <2>6. cache' \in [Keys -> Value \cup {None}] /\ shown' \in [value : Value \cup {None}, live : BOOLEAN]
    BY <2>2, <2>3 DEF TypeOK
  <2>7. \A k \in Keys : cache'[k] # None => cache'[k].of \in Rightful(k)
    BY <2>2, <2>3 DEF TypeOK, OwnInv, CacheIsOwn, Own
  <2>8. OwnInv'
    BY <2>3, <2>4, <2>7 DEF OwnInv, CacheIsOwn, SnapshotOwn, LoadsOwn, Shared, Rightful, Subject, Own,
                        Free, apiVars
  <2>9. AgeInv'
    BY <2>3, <2>4 DEF AgeInv, Usable, Free, apiVars
  <2> QED BY <2>3, <2>4, <2>5, <2>6, <2>8, <2>9 DEF TypeOK, SignInInv, apiVars
<1>6. CASE Fail(l)
  <2>1. /\ UNCHANGED <<site, apiVars, mounted, channel, notices, signInVars, cache>>
        /\ load' = [load EXCEPT ![l] = Free]
        /\ shown' = IF load[l].by = "page"
                    THEN [shown EXCEPT !.live = cache[KeyOf(load[l].for)] # None] ELSE shown
    BY <1>6 DEF Fail, Ended
  <2>2. SignInInv' /\ \A m \in Loads : load'[m] = load[m] \/ load'[m] = Free
    BY <2>1, SignInKept DEF TypeOK
  <2>3. load' \in [Loads -> LoadState]
    BY <2>1 DEF TypeOK, Free, LoadState, Places
  <2>4. shown' \in [value : Value \cup {None}, live : BOOLEAN]
    BY <2>1 DEF TypeOK
  <2>5. OwnInv'
    BY <2>1, <2>2 DEF OwnInv, CacheIsOwn, SnapshotOwn, LoadsOwn, Shared, Rightful, Subject, Own,
                        Free, apiVars
  <2>6. AgeInv'
    BY <2>1, <2>2 DEF AgeInv, Usable, Free, apiVars
  <2> QED BY <2>1, <2>2, <2>3, <2>4, <2>5, <2>6 DEF TypeOK, SignInInv, apiVars
<1> QED BY <1>1, <1>2, <1>3, <1>4, <1>5, <1>6 DEF LoadStep

\* What goes on elsewhere: other browsers, time, and the tenants' data.
LEMMA OtherSteps ==
  ASSUME IInv, (\E o \in Owners : Change(o)) \/ Tick \/ Elsewhere PROVE IInv'
<1> USE DEF IInv
<1>n. TTL \in Nat /\ TTL >= 1 /\ MaxRead \in Nat
  BY DashboardAssumption
<1>1. ASSUME NEW o \in Owners, Change(o) PROVE IInv'
  <2>1. /\ UNCHANGED <<site, snapshot, mounted, shown, cache, channel, load, signInVars>>
        /\ version[o] < MaxChanges /\ version' = [version EXCEPT ![o] = @ + 1]
        /\ notices' = notices + 1 \/ notices' = notices
    BY <1>1 DEF Change
  <2>2. version' \in [Owners -> 0 .. MaxChanges] /\ notices' \in Nat
    BY <2>1, DashboardAssumption DEF TypeOK
  <2>3. SignInInv'
    BY <2>1, SignInKept
  <2>4. OwnInv' /\ AgeInv'
    BY <2>1 DEF OwnInv, AgeInv, CacheIsOwn, SnapshotOwn, LoadsOwn, Own, Shared, Rightful,
            Subject, Usable
  <2> QED BY <2>1, <2>2, <2>3, <2>4 DEF TypeOK, SignInInv
<1>2. CASE Tick
  <2>1. UNCHANGED <<site, version, mounted, shown, cache, channel, notices, signInVars>>
    BY <1>2 DEF Tick
  <2>2. SignInInv'
    BY <2>1, SignInKept
  <2>3. \A t \in Tenants :
          /\ snapshot[t] = None => snapshot'[t] = None
          /\ snapshot[t] # None =>
               snapshot'[t] = [value |-> Older(snapshot[t].value),
                               age |-> IF snapshot[t].age < TTL THEN snapshot[t].age + 1 ELSE TTL]
    BY <1>2 DEF Tick
  <2>4. ASSUME NEW t \in Tenants, snapshot[t] # None
        PROVE  /\ snapshot'[t] \in [value : Value, age : 0 .. TTL]
               /\ snapshot'[t].value.of = snapshot[t].value.of
               /\ Usable(t)' => snapshot'[t].value.since <= snapshot'[t].age + MaxRead
    <3> DEFINE v == snapshot[t].value
    <3>1. v \in Value /\ snapshot[t].age \in 0 .. TTL
      BY <2>4 DEF TypeOK
    <3>2. Older(v) \in Value /\ Older(v).of = v.of /\ Older(v).since <= v.since + 1
      BY <3>1, OlderIsValue
    <3>3. v.since \in Nat /\ Older(v).since \in Nat
      BY <3>1, <3>2, <1>n DEF Value, Oldest
    <3>4. snapshot[t].age < TTL => v.since <= snapshot[t].age + MaxRead
      BY <2>4 DEF AgeInv, Usable
    <3>a. snapshot'[t] = [value |-> Older(v),
                          age |-> IF snapshot[t].age < TTL THEN snapshot[t].age + 1 ELSE TTL]
      BY <2>3, <2>4
    <3> HIDE DEF v
    <3>5. /\ snapshot'[t].value = Older(v)
          /\ snapshot'[t].age = IF snapshot[t].age < TTL THEN snapshot[t].age + 1 ELSE TTL
          /\ snapshot'[t] = [value |-> snapshot'[t].value, age |-> snapshot'[t].age]
      BY <3>a
    <3>6. snapshot'[t].age \in 0 .. TTL
      BY <3>1, <3>5, <1>n
    <3>7. snapshot'[t].age < TTL => Older(v).since <= snapshot'[t].age + MaxRead
      BY <3>1, <3>2, <3>3, <3>4, <3>5, <1>n
    <3>8. snapshot'[t].value.of = snapshot[t].value.of
      BY <3>2, <3>5 DEF v
    <3> QED BY <3>2, <3>5, <3>6, <3>7, <3>8 DEF Usable
  <2>5. snapshot' \in [Tenants -> [value : Value, age : 0 .. TTL] \cup {None}]
    <3>1. \A t \in Tenants : snapshot'[t] \in [value : Value, age : 0 .. TTL] \cup {None}
      BY <2>3, <2>4
    <3>2. snapshot' = [t \in Tenants |-> snapshot'[t]]
      BY <1>2 DEF Tick
    <3> QED BY <3>1, <3>2
  <2>6. ASSUME NEW l \in Loads
        PROVE  /\ load'[l] \in LoadState
               /\ load'[l].at = load[l].at /\ load'[l].for = load[l].for
               /\ load'[l].value # None <=> load[l].value # None
               /\ load[l].value # None => load'[l].value.of = load[l].value.of
               /\ load[l].at # "read" => load'[l] = load[l]
               /\ load[l].at = "read" => load'[l].value.since <= MaxRead
    <3>1. load[l] \in LoadState
      BY DEF TypeOK
    <3>2. CASE load[l].at # "read"
      <4>1. load'[l] = load[l]
        BY <1>2, <3>2 DEF Tick
      <4> QED BY <3>1, <3>2, <4>1
    <3>3. CASE load[l].at = "read"
      <4> DEFINE v == load[l].value
      <4>1. v # None /\ v \in Value
        BY <3>1, <3>3 DEF AgeInv, LoadState
      <4>2. /\ Older(v) \in Value /\ Older(v).of = v.of /\ Older(v).since <= v.since + 1
            /\ Older(v) # None
        BY <4>1, OlderIsValue
      <4>3. v.since < MaxRead /\ v.since \in Nat /\ Older(v).since \in Nat
        BY <1>2, <3>3, <4>1, <4>2, <1>n DEF Tick, Value, Oldest
      <4>4. load'[l] = [load[l] EXCEPT !.value = Older(v)]
        BY <1>2, <3>1, <3>3 DEF Tick, LoadState
      <4> HIDE DEF v
      <4>5. /\ load'[l] \in LoadState /\ load'[l].value = Older(v)
            /\ load'[l].at = load[l].at /\ load'[l].for = load[l].for
        BY <3>1, <4>2, <4>4 DEF LoadState
      <4>6. Older(v).since <= MaxRead
        BY <4>2, <4>3, <1>n
      <4> QED BY <3>3, <4>1, <4>2, <4>5, <4>6 DEF v
    <3> QED BY <3>2, <3>3
  <2>7. load' \in [Loads -> LoadState]
    <3>1. load' = [l \in Loads |-> load'[l]]
      BY <1>2 DEF Tick
    <3> QED BY <2>6, <3>1
  <2>8. OwnInv'
    <3>1. \A l \in Loads : Own(l)' = Own(l)
      BY <2>1, <2>6 DEF Own, Rightful, Subject
    <3>2. LoadsOwn'
      BY <2>1, <2>6, <3>1 DEF OwnInv, LoadsOwn
    <3>3. CacheIsOwn'
      BY <2>1 DEF OwnInv, CacheIsOwn, Rightful, Subject
    <3>4. SnapshotOwn'
      BY <2>3, <2>4 DEF OwnInv, SnapshotOwn, Shared
    <3> QED BY <3>2, <3>3, <3>4 DEF OwnInv
  <2>9. AgeInv'
    <3>1. \A t \in Tenants : Usable(t)' => snapshot'[t].value.since <= snapshot'[t].age + MaxRead
      BY <2>3, <2>4 DEF Usable
    <3> QED BY <2>6, <3>1 DEF AgeInv
  <2> QED BY <2>1, <2>2, <2>5, <2>7, <2>8, <2>9 DEF TypeOK, SignInInv
<1>3. CASE Elsewhere
  <2>1. UNCHANGED <<site, apiVars, pageVars>>
    BY <1>3 DEF Elsewhere
  <2>2. \E t \in Tabs : TabStep(t)
    BY <1>3, DashboardAssumption DEF Elsewhere, TabStep, TypeOK, Site
  <2>3. SignInInv'
    BY <2>2, SignInInductive
  <2>4. OwnInv' /\ AgeInv'
    BY <2>1 DEF OwnInv, AgeInv, CacheIsOwn, SnapshotOwn, LoadsOwn, Own, Shared, Rightful,
            Subject, Usable, apiVars, pageVars
  <2> QED BY <2>1, <2>3, <2>4 DEF TypeOK, SignInInv, apiVars, pageVars
<1> QED BY <1>1, <1>2, <1>3

\* The invariant of the dashboard, its API's cache and the sign-in behind it.
THEOREM InvariantHolds == Spec => []IInv
<1>1. Init => IInv
  BY InvariantStarts
<1>2. IInv /\ [Next]_vars => IInv'
  <2> SUFFICES ASSUME IInv, [Next]_vars PROVE IInv'
    OBVIOUS
  <2>1. CASE Next
    BY <2>1, PageSteps, LoadSteps, OtherSteps DEF Next
  <2>2. CASE UNCHANGED vars
    <3>1. SignInInv'
      BY <2>2, SignInKept DEF vars, IInv
    <3>2. OwnInv' /\ AgeInv'
      BY <2>2 DEF vars, apiVars, pageVars, IInv, OwnInv, AgeInv, CacheIsOwn, SnapshotOwn,
                  LoadsOwn, Own, Shared, Rightful, Subject, Usable
    <3> QED BY <2>2, <3>1, <3>2 DEF vars, apiVars, pageVars, IInv, TypeOK, SignInInv
  <2> QED BY <2>1, <2>2
<1> QED BY <1>1, <1>2, PTL DEF Spec

\* The page's cache never holds another tenant's data (useLiveData.ts, lines 72 and
\* 88), only the platform's where every tenant is shown that.
THEOREM CacheIsOwnAlways == Spec => []CacheIsOwn
<1>1. IInv => CacheIsOwn
  BY DEF IInv, OwnInv
<1> QED BY <1>1, InvariantHolds, PTL

\* No answer of the API is older than its cache's lifetime and one read allow.
THEOREM AnswersAreRecentAlways == Spec => []AnswersAreRecent
<1>1. IInv => AnswersAreRecent
  BY DEF IInv, AgeInv, AnswersAreRecent
<1> QED BY <1>1, InvariantHolds, PTL

\* A wallet is one user, however many browsers it signs in from at once.
THEOREM OneIdentityPerWalletHolds == Spec => []OneIdentityPerWallet
<1>1. IInv => OneIdentityPerWallet
  BY DEF IInv, SignInInv, UsersInv, SessionInv, Known, OneIdentityPerWallet
<1> QED BY <1>1, InvariantHolds, PTL


(***************************************************************************)
(* What a page shows.  While requests succeed and the session changes only *)
(* at rest, every load of the page asks with the session it has now, and   *)
(* is never refused; a page that has none under way shows what the last    *)
(* one answered.                                                           *)
(***************************************************************************)
Calm == site.events \cap {"fail", "expire"} = {} /\ site.patient

TokenInv == session[PageTab] # None => valid[PageTab]
AskedInv ==
  \A l \in Loads : load[l].by = "page" => load[l].for = session[PageTab] /\ load[l].at # "failed"
ShownInv ==
  mounted => \/ \E l \in Loads : load[l].by = "page"
             \/ shown.live /\ shown.value.of \in Rightful(Key)

PageInv == Calm => TokenInv /\ AskedInv /\ ShownInv

\* load() takes a free load and leaves the others alone.
LEMMA LoadIsOfThePage ==
  ASSUME TypeOK, NEW s, MayLoad, Load(s)
  PROVE  \E l \in Loads :
           /\ load'[l] = [at |-> "sent", by |-> "page", for |-> s, value |-> None]
           /\ \A m \in Loads \ {l} : load'[m] = load[m]
<1> DEFINE l == CHOOSE m \in Loads : load[m].at = "free"
<1> DEFINE new == [at |-> "sent", by |-> "page", for |-> s, value |-> None]
<1>1. l \in Loads /\ load' = [load EXCEPT ![l] = new]
  BY DEF MayLoad, Load
<1> HIDE DEF l
<1> QED BY <1>1 DEF TypeOK

\* So a page that loads, with the session it has from now on, has a load.
LEMMA LoadingPage ==
  ASSUME TypeOK, PageInv, MayLoad, Load(session'[PageTab]), TokenInv', site' = site,
         session' # session => \A l \in Loads : load[l].by # "page"
  PROVE  PageInv'
<1>1. PICK l \in Loads :
        /\ load'[l] = [at |-> "sent", by |-> "page", for |-> session'[PageTab], value |-> None]
        /\ \A m \in Loads \ {l} : load'[m] = load[m]
  BY LoadIsOfThePage
<1>2. ShownInv'
  BY <1>1 DEF ShownInv
<1>3. Calm' => Calm
  BY DEF Calm
<1>4. Calm => AskedInv'
  BY <1>1 DEF PageInv, AskedInv
<1> QED BY <1>2, <1>3, <1>4 DEF PageInv

\* A load of the page is refused only for a reason a calm site excludes.
LEMMA PageLoadsAreAccepted ==
  ASSUME IInv, PageInv, Calm, NEW l \in Loads, load[l].by = "page"
  PROVE  Accepted(l)
<1>1. load[l].for = session[PageTab] /\ TokenInv
  BY DEF PageInv, AskedInv
<1>2. Known(session[PageTab])
  BY DashboardAssumption DEF IInv, SignInInv, SessionInv
<1> QED BY <1>1, <1>2 DEF Accepted, Known, TokenInv

LEMMA PageStepsKeepPage ==
  ASSUME IInv, PageInv, Mount \/ Unmount \/ Resession \/ Reload \/ Joined \/ Notify
  PROVE  PageInv'
<1>0. TypeOK /\ session \in [Tabs -> Session \cup {None}] /\ PageTab \in Tabs
  BY DashboardAssumption DEF IInv, TypeOK, SignInTypeOK
<1>1. CASE Mount
  <2>1. /\ MayLoad /\ Load(session'[PageTab]) /\ site' = site
        /\ session' = session /\ valid' = valid
    BY <1>1 DEF Mount, signInVars
  <2>2. Calm => TokenInv'
    BY <2>1 DEF PageInv, TokenInv
  <2> QED BY <1>0, <2>1, <2>2, LoadingPage DEF PageInv, Calm
<1>2. CASE Unmount
  <2>1. /\ mounted' = FALSE /\ site' = site /\ session' = session /\ valid' = valid
        /\ \A l \in Loads : load'[l].by # "page"
    BY <1>0, <1>2 DEF Unmount, signInVars, TypeOK, LoadState
  <2> QED BY <2>1 DEF PageInv, Calm, TokenInv, AskedInv, ShownInv
<1>3. CASE Resession
  <2>1. site' = site /\ mounted' = mounted /\ shown' = shown
    BY <1>3 DEF Resession
  <2>2. TokenInv'
    <3>1. valid \in [Tabs -> BOOLEAN]
      BY DEF IInv, TypeOK, SignInTypeOK
    <3>2. CASE SignedIn(PageTab)
      BY <1>0, <3>1, <3>2 DEF SignedIn, TokenInv
    <3>3. CASE SignOut(PageTab)
      BY <1>0, <3>1, <3>3 DEF SignOut, TokenInv
    <3> QED BY <1>3, <3>2, <3>3 DEF Resession
  <2>3. Calm => \A l \in Loads : load[l].by # "page"
    BY <1>3 DEF Resession, Calm, AtRest
  <2>4. CASE mounted
    <3>1. MayLoad /\ Load(session'[PageTab])
      BY <1>3, <2>4 DEF Resession, LoadsAgain
    <3>2. Calm => PageInv'
      BY <1>0, <2>1, <2>2, <2>3, <3>1, LoadingPage
    <3> QED BY <2>1, <3>2 DEF PageInv, Calm
  <2>5. CASE ~mounted
    <3>1. load' = load
      BY <1>3, <2>5 DEF Resession
    <3> QED BY <2>1, <2>2, <2>3, <2>5, <3>1 DEF PageInv, Calm, AskedInv, ShownInv
  <2> QED BY <2>4, <2>5
<1>4. CASE Reload
  <2>1. /\ mounted' = FALSE /\ site' = site
        /\ \A l \in Loads : load'[l].by # "page"
    BY <1>0, <1>4 DEF Reload, TypeOK, LoadState
  <2>2. TokenInv'
    BY <1>0, <1>4 DEF Reload, Restore, Restored, TokenInv
  <2> QED BY <2>1, <2>2 DEF PageInv, AskedInv, ShownInv
<1>5. CASE Joined
  BY <1>5 DEF Joined, signInVars, PageInv, Calm, TokenInv, AskedInv, ShownInv, Rightful, Subject, Key
<1>6. CASE Notify
  <2>1. /\ MayLoad /\ Load(session'[PageTab]) /\ site' = site
        /\ session' = session /\ valid' = valid
    BY <1>6 DEF Notify, Ignored, signInVars
  <2>2. Calm => TokenInv'
    BY <2>1 DEF PageInv, TokenInv
  <2> QED BY <1>0, <2>1, <2>2, LoadingPage DEF PageInv, Calm
<1> QED BY <1>1, <1>2, <1>3, <1>4, <1>5, <1>6

LEMMA LoadStepsKeepPage ==
  ASSUME IInv, PageInv, NEW l \in Loads, LoadStep(l) PROVE PageInv'
<1>0. TypeOK /\ load \in [Loads -> LoadState]
  BY DEF IInv, TypeOK
\* A load that goes on within the API.
<1>1. ASSUME NEW place, NEW value, Put(l, place, value),
             Calm /\ load[l].by = "page" => place # "failed"
      PROVE  PageInv'
  <2>1. /\ UNCHANGED <<site, mounted, shown, session, valid>>
        /\ load' = [load EXCEPT ![l].at = place, ![l].value = value]
    BY <1>1 DEF Put, signInVars
  <2>2. /\ load'[l].at = place /\ load'[l].by = load[l].by /\ load'[l].for = load[l].for
        /\ \A m \in Loads \ {l} : load'[m] = load[m]
    BY <1>0, <2>1 DEF LoadState
  <2>3. Calm => AskedInv'
    BY <1>1, <2>1, <2>2 DEF PageInv, AskedInv
  <2>4. Calm => ShownInv'
    BY <2>1, <2>2 DEF PageInv, ShownInv, Rightful, Subject, Key
  <2> QED BY <2>1, <2>3, <2>4 DEF PageInv, Calm, TokenInv
\* A load that ends.
<1>2. ASSUME Ended(l),
             load[l].by # "page" => shown' = shown,
             Calm /\ load[l].by = "page" => shown'.live /\ shown'.value.of \in Rightful(Key)
      PROVE  PageInv'
  <2>1. /\ UNCHANGED <<site, mounted, session, valid>>
        /\ load' = [load EXCEPT ![l] = Free]
    BY <1>2 DEF Ended, signInVars
  <2>2. load'[l].by = "gone" /\ \A m \in Loads \ {l} : load'[m] = load[m]
    BY <1>0, <2>1 DEF Free
  <2>3. Calm => AskedInv'
    BY <2>1, <2>2 DEF PageInv, AskedInv
  <2>4. Rightful(Key)' = Rightful(Key)
    BY <2>1 DEF Rightful, Subject, Key
  <2>5. Calm => ShownInv'
    <3>1. CASE load[l].by = "page"
      BY <1>2, <2>4, <3>1 DEF ShownInv
    <3>2. CASE load[l].by # "page"
      BY <1>2, <2>1, <2>2, <2>4, <3>2 DEF PageInv, ShownInv
    <3> QED BY <3>1, <3>2
  <2> QED BY <2>1, <2>3, <2>5 DEF PageInv, Calm, TokenInv
<1>3. CASE Refuse(l)
  <2>1. Calm => load[l].by # "page"
    <3> SUFFICES ASSUME Calm, load[l].by = "page" PROVE FALSE
      OBVIOUS
    <3>1. load[l].for = session[PageTab]
      BY DEF PageInv, AskedInv
    <3> QED BY <1>3, <3>1, PageLoadsAreAccepted DEF Refuse, Calm
  <2> QED BY <1>1, <1>3, <2>1 DEF Refuse
<1>4. CASE Arrive(l)
  BY <1>1, <1>4 DEF Arrive
<1>5. CASE ReadChain(l)
  BY <1>1, <1>5 DEF ReadChain
<1>6. CASE Store(l)
  BY <1>1, <1>6 DEF Store
<1>7. CASE Answer(l)
  <2> DEFINE value == [load[l].value EXCEPT !.since = 0]
  <2>1. load[l].value \in Value /\ load[l].value.of \in Own(l)
    BY <1>0, <1>7 DEF Answer, IInv, OwnInv, LoadsOwn, AgeInv, LoadState
  <2>2. value.of \in Own(l)
    BY <2>1 DEF Value
  <2>3. Ended(l) /\ shown' = IF load[l].by = "page" THEN [value |-> value, live |-> TRUE] ELSE shown
    BY <1>7 DEF Answer
  <2> HIDE DEF value
  <2>4. Calm /\ load[l].by = "page" => Own(l) = Rightful(Key)
    BY DEF PageInv, AskedInv, Own, Key
  <2> QED BY <1>2, <2>2, <2>3, <2>4
<1>8. CASE Fail(l)
  <2>1. Calm => load[l].by # "page"
    BY <1>8 DEF Fail, PageInv, AskedInv
  <2>2. Ended(l) /\ (load[l].by # "page" => shown' = shown)
    BY <1>8 DEF Fail
  <2> QED BY <1>2, <2>1, <2>2
<1> QED BY <1>3, <1>4, <1>5, <1>6, <1>7, <1>8 DEF LoadStep

LEMMA OtherStepsKeepPage ==
  ASSUME IInv, PageInv, (\E o \in Owners : Change(o)) \/ Tick \/ Elsewhere
  PROVE  PageInv'
<1>0. load \in [Loads -> LoadState] /\ PageTab \in Tabs
  BY DashboardAssumption DEF IInv, TypeOK
<1>1. ASSUME NEW o \in Owners, Change(o) PROVE PageInv'
  BY <1>1 DEF Change, signInVars, PageInv, Calm, TokenInv, AskedInv, ShownInv, Rightful, Subject, Key
<1>2. CASE Tick
  <2>1. UNCHANGED <<site, mounted, shown, session, valid>>
    BY <1>2 DEF Tick, signInVars
  <2>2. \A l \in Loads : /\ load'[l].at = load[l].at /\ load'[l].by = load[l].by
                         /\ load'[l].for = load[l].for
    BY <1>0, <1>2 DEF Tick, LoadState
  <2> QED BY <2>1, <2>2 DEF PageInv, Calm, TokenInv, AskedInv, ShownInv, Rightful, Subject, Key
<1>3. CASE Elsewhere
  <2>1. UNCHANGED <<site, mounted, shown, load>>
    BY <1>3 DEF Elsewhere, pageVars
  <2>2. session \in [Tabs -> Session \cup {None}] /\ valid \in [Tabs -> BOOLEAN]
    BY DEF IInv, TypeOK, SignInTypeOK
  <2>3. Calm => session'[PageTab] = session[PageTab] /\ valid'[PageTab] = valid[PageTab]
    <3>1. ASSUME NEW t \in site.tabs, SignInStep(t) PROVE session' = session /\ valid' = valid
      BY <3>1 DEF SignInStep, Connect, BuildChallenge, ExpireChallenge, SignMessage, Verify,
                  FindUser, CreateUser, CreateRefused, ResolveTenant
    <3>2. ASSUME NEW t \in site.tabs \ {PageTab}, SignedIn(t) \/ SignOut(t)
          PROVE  session'[PageTab] = session[PageTab] /\ valid'[PageTab] = valid[PageTab]
      BY <2>2, <3>2, <1>0 DEF SignedIn, SignOut
    <3> QED BY <1>3, <3>1, <3>2 DEF Elsewhere, Calm
  <2> QED BY <2>1, <2>3 DEF PageInv, Calm, TokenInv, AskedInv, ShownInv, Rightful, Subject, Key
<1> QED BY <1>1, <1>2, <1>3

\* A page at rest shows its session's data, if every request succeeds and the session
\* changes only while the page is at rest.
THEOREM SettledPageIsOwnHolds == Spec => []SettledPageIsOwn
<1>1. Init => PageInv
  <2> SUFFICES ASSUME Init PROVE PageInv
    OBVIOUS
  <2>1. valid[PageTab] = (session[PageTab] # None)
    BY DashboardAssumption DEF Init, SignInInit
  <2>2. mounted = FALSE /\ \A l \in Loads : load[l].by = "gone"
    BY DEF Init, Free
  <2> QED BY <2>1, <2>2 DEF PageInv, TokenInv, AskedInv, ShownInv
<1>2. IInv /\ PageInv /\ [Next]_vars => PageInv'
  <2> SUFFICES ASSUME IInv, PageInv, [Next]_vars PROVE PageInv'
    OBVIOUS
  <2>1. CASE Next
    BY <2>1, PageStepsKeepPage, LoadStepsKeepPage, OtherStepsKeepPage DEF Next
  <2>2. CASE UNCHANGED vars
    BY <2>2 DEF vars, apiVars, pageVars, signInVars, PageInv, Calm, TokenInv, AskedInv,
                ShownInv, Rightful, Subject, Key
  <2> QED BY <2>1, <2>2
<1>3. PageInv => SettledPageIsOwn
  BY DEF PageInv, Calm, ShownInv, SettledPageIsOwn, AtRest
<1> QED BY <1>1, <1>2, <1>3, InvariantHolds, PTL DEF Spec
=============================================================================
