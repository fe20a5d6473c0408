------------------------------ MODULE Dashboard ------------------------------
(***************************************************************************)
(* A page of the dashboard: the hook useLiveData with its module-level     *)
(* cache, one endpoint of the API behind it, the API's short-lived cache   *)
(* of on-chain positions where the endpoint has one, and the Realtime      *)
(* channel that makes the page load again.  Whose data the page asks for   *)
(* is the session of WalletSignIn.  Answers arrive whenever they like, to  *)
(* a page that may meanwhile have gone, or have another session.           *)
(*                                                                         *)
(* The positions GET /treasury answers with are read from one wallet, the  *)
(* platform's, for every tenant (treasuryService.ts, lines 136 and         *)
(* 161-165), and from the tenant's rows only when that shows nothing.      *)
(***************************************************************************)
EXTENDS WalletSignIn, Sequences, SequencesExt

CONSTANTS
  PageTab,      \* the browser whose page is modelled
  Loads,        \* calls of load()
  Public,       \* the key of a page without a session
  Platform,     \* the owner of the wallet that is shown as every tenant's treasury
  MaxChanges,   \* bound: changes of each owner's data
  TTL,          \* ONCHAIN_TTL_MS, in ticks
  MaxRead,      \* bound: ticks a read of the chain takes
  Sites         \* the deployments and users considered: see Site

Events == {"signOut", "leave", "reload", "expire", "fail"}

\* Whose data there is to be read.
Owners == Tenants \cup {Platform}

\* The tenant new wallets join and the one shown in public; who signs in, and who
\* starts with a session; whose data changes; whether there is a page, and whether its endpoint is GET
\* /treasury, with the API's cache; whether the channel has joined by the time the
\* page loads, answers keep their order, and users wait for a page before they
\* change its session; and what else happens.
Site ==
  [demo : Tenants \cup {None}, public : Tenants, tabs : SUBSET Tabs,
   restored : SUBSET Tabs, changing : SUBSET Owners, page : BOOLEAN, cached : BOOLEAN, prompt : BOOLEAN,
   ordered : BOOLEAN, patient : BOOLEAN, events : SUBSET Events]

ASSUME DashboardAssumption ==
  /\ Sites \subseteq Site
  /\ PageTab \in Tabs /\ Public \notin Tenants /\ Platform \notin Tenants
  /\ MaxChanges \in Nat /\ TTL \in Nat \ {0} /\ MaxRead \in Nat
  /\ None \notin [of : Owners, version : 0 .. MaxChanges, since : 0 .. TTL + MaxRead]

VARIABLES
  site,
  version,   \* each owner's data, as the number of its changes
  snapshot,  \* the API's onchainCache
  mounted,   \* whether the page is on
  shown,     \* its state: a value, or None for the placeholder, and the badge
  cache,     \* liveCache
  channel,   \* the Realtime channel: its tenant or None, and whether it has joined
  notices,   \* notifications not yet delivered
  load,      \* each load: where it is, the page it belongs to, its session, its value
  queue      \* the loads in flight, in the order they were sent

pageVars == <<mounted, shown, cache, channel, notices, load, queue>>
apiVars == <<version, snapshot>>
vars == <<site, apiVars, pageVars, signInVars>>

Keys == Tenants \cup {Public}
Oldest == TTL + MaxRead

\* "since": the ticks since the data was read.
Value == [of : Owners, version : 0 .. MaxChanges, since : 0 .. Oldest]
Places == {"free", "sent", "reading", "read", "answered", "failed"}
LoadState == [at : Places, by : {"page", "old", "gone"},
              for : Session \cup {None}, value : Value \cup {None}]
Closed == [tenant |-> None, joined |-> FALSE]
Blank == [value |-> None, live |-> FALSE]
Free == [at |-> "free", by |-> "gone", for |-> None, value |-> None]

\* The cache key of a session, and the tenant whose data a key stands for.
KeyOf(s) == IF s = None THEN Public ELSE s.tenant
Subject(key) == IF key = Public THEN site.public ELSE key

\* Whose data may be stored under a key: only GET /treasury shows the platform's.
Rightful(key) == {Subject(key)} \cup (IF site.cached THEN {Platform} ELSE {})

Key == KeyOf(session[PageTab])
About(l) == Subject(KeyOf(load[l].for))

Init ==
  /\ SignInInit
  /\ site \in Sites /\ demo = site.demo
  /\ \A t \in Tabs : session[t] # None => t \in site.restored
  /\ version = [o \in Owners |-> 0]
  /\ snapshot = [t \in Tenants |-> None]
  /\ mounted = FALSE
  /\ shown = Blank
  /\ cache = [k \in Keys |-> None]
  /\ channel = Closed
  /\ notices = 0
  /\ load = [l \in Loads |-> Free]
  /\ queue = <<>>

-----------------------------------------------------------------------------
(* Decisions, with the mutant forms that show which property needs them.   *)

\* The key the closure of a load stores its answer under ...
CacheKeyMutant(l) == Key
CacheKey(l) == KeyOf(load[l].for)

\* ... that every change of session makes the page load ...
LoadsAgainMutant(s) == s # None
LoadsAgain(s) == TRUE

\* ... and every notification too, loading already or not.
IgnoredMutant == queue # <<>>
Ignored == FALSE

\* A cached snapshot is used until TTL after it was stored.
UsableMutant(t) == snapshot[t] # None
Usable(t) == snapshot[t] # None /\ snapshot[t].age < TTL

\* The token of a load's session is good, and the tenant one of the user's.
Accepted(l) ==
  LET s == load[l].for IN
    s # None => /\ s = session[PageTab] => valid[PageTab]
                /\ <<s.tenant, s.user>> \in members

\* Nothing of the page is under way.
AtRest == (\A l \in Loads : load[l].by # "page") /\ notices = 0

\* load(), with the session of its closure.
MayLoad == \E l \in Loads : load[l].at = "free"
Load(s) ==
  LET l == CHOOSE m \in Loads : load[m].at = "free" IN
    /\ load' = [load EXCEPT ![l] = [at |-> "sent", by |-> "page", for |-> s, value |-> None]]
    /\ queue' = Append(queue, l)

Subscribe(s) ==
  /\ channel' = IF s = None THEN Closed ELSE [tenant |-> s.tenant, joined |-> site.prompt]
  /\ notices' = 0

-----------------------------------------------------------------------------
(* The page.                                                               *)

\* A component that mounts starts from the cache, loads and subscribes.
Mount ==
  /\ site.page /\ ~mounted /\ MayLoad
  /\ mounted' = TRUE
  /\ shown' = [value |-> cache[Key], live |-> cache[Key] # None]
  /\ Load(session[PageTab]) /\ Subscribe(session[PageTab])
  /\ UNCHANGED <<site, apiVars, cache, signInVars>>

\* What its loads still answer goes to the cache alone.
Unmount ==
  /\ "leave" \in site.events /\ mounted
  /\ mounted' = FALSE
  /\ load' = [l \in Loads |-> [load[l] EXCEPT !.by = IF @ = "page" THEN "old" ELSE @]]
  /\ shown' = Blank
  /\ Subscribe(None)
  /\ UNCHANGED <<site, apiVars, cache, queue, signInVars>>

\* Another session: the same component, with its state, another key.
Resession ==
  /\ site.patient => AtRest
  /\ SignedIn(PageTab) \/ ("signOut" \in site.events /\ SignOut(PageTab))
  /\ IF mounted
     THEN /\ MayLoad
          /\ IF LoadsAgain(session'[PageTab]) THEN Load(session'[PageTab])
                                              ELSE UNCHANGED <<load, queue>>
          /\ Subscribe(session'[PageTab])
     ELSE UNCHANGED <<load, queue, channel, notices>>
  /\ UNCHANGED <<site, apiVars, mounted, shown, cache>>

Reload ==
  /\ "reload" \in site.events
  /\ Restore(PageTab)
  /\ mounted' = FALSE
  /\ shown' = Blank
  /\ cache' = [k \in Keys |-> None]
  /\ load' = [l \in Loads |-> [load[l] EXCEPT !.by = "gone"]]
  /\ Subscribe(None)
  /\ UNCHANGED <<site, apiVars, queue>>

Joined ==
  /\ channel.tenant # None /\ ~channel.joined
  /\ channel' = [channel EXCEPT !.joined = TRUE]
  /\ UNCHANGED <<site, apiVars, mounted, shown, cache, notices, load, queue, signInVars>>

Notify ==
  /\ notices > 0 /\ MayLoad
  /\ notices' = notices - 1
  /\ IF Ignored THEN UNCHANGED <<load, queue>> ELSE Load(session[PageTab])
  /\ UNCHANGED <<site, apiVars, mounted, shown, cache, channel, signInVars>>

-----------------------------------------------------------------------------
(* The API: snapshot() where the endpoint has it, a plain read otherwise.  *)

Put(l, place, value) ==
  /\ load' = [load EXCEPT ![l].at = place, ![l].value = value]
  /\ UNCHANGED <<site, version, mounted, shown, cache, channel, notices, queue, signInVars>>

Current(o) == [of |-> o, version |-> version[o], since |-> 0]

Refuse(l) ==
  /\ load[l].at = "sent"
  /\ \/ ~Accepted(l)
     \/ "expire" \in site.events /\ load[l].for \notin {None, session[PageTab]}
     \/ "fail" \in site.events
  /\ Put(l, "failed", None)
  /\ UNCHANGED snapshot

\* Answers keep their order only if the requests do.
Arrive(l) ==
  /\ load[l].at = "sent" /\ Accepted(l)
  /\ site.ordered => Head(SelectSeq(queue, LAMBDA m : load[m].at = "sent")) = l
  /\ \/ ~site.cached /\ Put(l, "answered", Current(About(l)))
     \/ site.cached /\ Usable(About(l)) /\ Put(l, "answered", snapshot[About(l)].value)
     \/ site.cached /\ ~Usable(About(l)) /\ Put(l, "reading", None)
  /\ UNCHANGED snapshot

\* The platform's wallet and its positions, or what the tenant has in the database
\* if nothing could be read of them, or nothing is in them.
ReadChain(l) ==
  /\ load[l].at = "reading"
  /\ \E o \in {Platform, About(l)} : Put(l, "read", Current(o))
  /\ UNCHANGED snapshot

\* Stored when the read has ended, with that time.
Store(l) ==
  /\ load[l].at = "read"
  /\ snapshot' = [snapshot EXCEPT ![About(l)] = [value |-> load[l].value, age |-> 0]]
  /\ Put(l, "answered", load[l].value)

-----------------------------------------------------------------------------
(* The answers.                                                            *)

Ended(l) ==
  /\ site.ordered => Head(queue) = l
  /\ load' = [load EXCEPT ![l] = Free]
  /\ queue' = Remove(queue, l)
  /\ UNCHANGED <<site, apiVars, mounted, channel, notices, signInVars>>

Answer(l) ==
  /\ load[l].at = "answered"
  /\ LET value == [load[l].value EXCEPT !.since = 0] IN
       /\ cache' = IF load[l].by = "gone" THEN cache
                   ELSE [cache EXCEPT ![CacheKey(l)] = value]
       /\ shown' = IF load[l].by = "page" THEN [value |-> value, live |-> TRUE] ELSE shown
  /\ Ended(l)

\* The data stays, and the badge is the cache's.
Fail(l) ==
  /\ load[l].at = "failed"
  /\ shown' = IF load[l].by = "page"
              THEN [shown EXCEPT !.live = cache[KeyOf(load[l].for)] # None] ELSE shown
  /\ Ended(l)
  /\ UNCHANGED cache

LoadStep(l) ==
  Refuse(l) \/ Arrive(l) \/ ReadChain(l) \/ Store(l) \/ Answer(l) \/ Fail(l)

-----------------------------------------------------------------------------
(* What goes on elsewhere.                                                 *)

\* Data changes; a channel that has joined hears of its tenant's, if its token is
\* still good.  Of what happens on the ledger nobody is told.
Change(o) ==
  /\ o \in site.changing /\ version[o] < MaxChanges
  /\ version' = [version EXCEPT ![o] = @ + 1]
  /\ \/ channel = [tenant |-> o, joined |-> TRUE] /\ notices' = notices + 1
     \/ /\ channel = [tenant |-> o, joined |-> TRUE] => ~valid[PageTab]
        /\ UNCHANGED notices
  /\ UNCHANGED <<site, snapshot, mounted, shown, cache, channel, load, queue, signInVars>>

Older(v) == [v EXCEPT !.since = IF @ < Oldest THEN @ + 1 ELSE @]

\* Until a snapshot is too old to be used its exact age matters, and while a value is
\* between its read and its answer that of the value.
Tick ==
  /\ site.cached
  /\ \A l \in Loads : load[l].at = "read" => load[l].value.since < MaxRead
  /\ snapshot' = [t \in Tenants |->
       IF snapshot[t] = None THEN None
       ELSE [value |-> Older(snapshot[t].value),
             age |-> IF snapshot[t].age < TTL THEN snapshot[t].age + 1 ELSE TTL]]
  /\ load' = [l \in Loads |-> IF load[l].at = "read"
                              THEN [load[l] EXCEPT !.value = Older(@)] ELSE load[l]]
  /\ UNCHANGED <<site, version, mounted, shown, cache, channel, notices, queue, signInVars>>

Elsewhere ==
  /\ \/ \E t \in site.tabs : SignInStep(t)
     \/ \E t \in site.tabs \ {PageTab} : SignedIn(t) \/ SignOut(t)
     \/ "expire" \in site.events /\ ExpireToken(PageTab)
  /\ UNCHANGED <<site, apiVars, pageVars>>

Next ==
  \/ Mount \/ Unmount \/ Resession \/ Reload \/ Joined \/ Notify
  \/ \E l \in Loads : LoadStep(l)
  \/ \E o \in Owners : Change(o)
  \/ Tick \/ Elsewhere

Spec == Init /\ [][Next]_vars

\* React mounts the page, runs its callbacks, and every request is answered.
FairSpec ==
  /\ Spec
  /\ WF_vars(Mount) /\ WF_vars(Notify)
  /\ \A l \in Loads : WF_vars(LoadStep(l))

-----------------------------------------------------------------------------
(* Properties.                                                             *)

TypeOK ==
  /\ SignInTypeOK
  /\ site \in Sites
  /\ version \in [Owners -> 0 .. MaxChanges]
  /\ snapshot \in [Tenants -> [value : Value, age : 0 .. TTL] \cup {None}]
  /\ mounted \in BOOLEAN
  /\ shown \in [value : Value \cup {None}, live : BOOLEAN]
  /\ cache \in [Keys -> Value \cup {None}]
  /\ channel \in [tenant : Tenants \cup {None}, joined : BOOLEAN]
  /\ notices \in Nat
  /\ load \in [Loads -> LoadState]

\* The page's cache never holds another tenant's data, though answers arrive after
\* the session has changed (useLiveData.ts, lines 72 and 88).  Of the treasury page
\* it says that no tenant's rows get under another's key: what is mostly there is
\* the platform's wallet, the same under every key (treasuryService.ts, line 136).
CacheIsOwn == \A k \in Keys : cache[k] # None => cache[k].of \in Rightful(k)

\* As long as every request succeeds and the session changes only while the page is
\* at rest, a page at rest says "live" and shows the data of its session: the
\* component keeps its state when the key changes (useLiveData.ts, lines 53-107).
SettledPageIsOwn ==
  site.events \cap {"fail", "expire"} = {} /\ site.patient =>
    (mounted /\ AtRest => shown.live /\ shown.value.of \in Rightful(Key))

\* The same of a user who does not wait.
EveryPageIsOwn ==
  site.events \cap {"fail", "expire"} = {} =>
    (mounted /\ AtRest /\ shown.live => shown.value.of \in Rightful(Key))

\* What the API answers was read at most TTL - 1 ticks and the longest read before,
\* however many reads overlap and whichever stores last: the cache's clock starts at
\* the end of the read, not at its beginning (treasuryService.ts, lines 132-134 and
\* 198).
AnswersAreRecent ==
  \A l \in Loads : load[l].at = "answered" => load[l].value.since <= TTL - 1 + MaxRead

\* A page that shows a tenant's data and is never left shows its last version in the
\* end, if its channel joins before it loads and requests keep their order, on an
\* endpoint without the API's cache (useLiveData.ts, lines 101-120).
Undisturbed ==
  /\ site.page /\ ~site.cached /\ site.prompt /\ site.ordered
  /\ site.tabs = {} /\ site.events = {} /\ session[PageTab] # None
UpToDate ==
  /\ shown.value # None /\ shown.value.of \in Rightful(Key)
  /\ shown.value = Current(shown.value.of)
EventuallyShows == Undisturbed => <>[]UpToDate

\* The same without the conditions on the channel, the order and the cache.
Watched ==
  /\ site.page /\ site.tabs = {} /\ site.events = {} /\ session[PageTab] # None
LiveWithoutPolling == Watched => <>[]UpToDate
=============================================================================
