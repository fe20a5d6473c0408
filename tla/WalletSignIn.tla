---------------------------- MODULE WalletSignIn ----------------------------
(***************************************************************************)
(* Sign In With Stellar: connect() and signOut() of the web app's          *)
(* AuthProvider, WalletAuthService behind it, and the users and            *)
(* memberships it finds or creates.  The challenge is stateless: whatever  *)
(* verify needs comes back with it, so that the API remembers nothing of a *)
(* sign-in between its two requests.  Tabs are browser profiles: each has  *)
(* a storage of its own, and one wallet may sign in from several at once.  *)
(***************************************************************************)
EXTENDS Naturals, FiniteSets

CONSTANTS
  Tabs,      \* browsers
  Wallets,   \* Stellar accounts
  Tenants,
  Home,      \* each wallet's membership from before, or None
  Earlier,   \* the id of the users created before
  None

Ids == {Earlier} \cup Tabs
User == [wallet : Wallets, id : Ids]
Session == [user : User, tenant : Tenants]

\* A wallet that is a member of a tenant has a user.
ASSUME SignInAssumption ==
  /\ Wallets # {}
  /\ Home \in [Wallets -> Tenants \cup {None}]
  /\ Earlier \notin Tabs
  /\ None \notin Tenants \cup User \cup Session

VARIABLES
  demo,      \* AUTH_DEMO_TENANT_ID, or None
  users,     \* public.users with a wallet address
  members,   \* public.tenant_users, as pairs of a tenant and a user
  step,      \* each tab: the await its connect is at
  address,   \* ... the wallet it was opened for
  ours,      \* ... whether the key of that wallet signed the message
  fresh,     \* ... whether the challenge is younger than five minutes
  found,     \* ... the user verify goes on with
  session,   \* AuthProvider's session
  stored,    \* localStorage
  valid      \* whether the token of the stored session is unexpired

signInVars == <<demo, users, members, step, address, ours, fresh, found,
                session, stored, valid>>

Steps == {"out", "challenge", "sign", "verify", "find", "create", "member", "answer"}

\* Each tab starts with the session it restores.
SignInInit ==
  /\ users = {u \in User : u.id = Earlier /\ Home[u.wallet] # None}
  /\ members = {<<Home[u.wallet], u>> : u \in users}
  /\ step = [t \in Tabs |-> "out"]
  /\ address \in [Tabs -> {CHOOSE w \in Wallets : TRUE}]
  /\ fresh = [t \in Tabs |-> FALSE]
  /\ ours = fresh
  /\ found = [t \in Tabs |-> None]
  /\ session \in [Tabs -> {[user |-> m[2], tenant |-> m[1]] : m \in members} \cup {None}]
  /\ stored = session
  /\ valid = [t \in Tabs |-> session[t] # None]

\* users.wallet_address is unique.
FreeAddressMutant(w) == TRUE
FreeAddress(w) == \A u \in users : u.wallet # w

\* What AUTH_DEMO_TENANT_ID, or the first membership, makes of a user.
TenantsFor(u) ==
  IF demo # None THEN {demo} ELSE {m[1] : m \in {p \in members : p[2] = u}}

Goto(t, place) == step' = [step EXCEPT ![t] = place]

\* A challenge, and what was signed, live as long as their request.
Forget(t) ==
  /\ fresh' = [fresh EXCEPT ![t] = FALSE]
  /\ ours' = [ours EXCEPT ![t] = FALSE]

-----------------------------------------------------------------------------
(* connect(), whose button is there while the tab has no session, and off  *)
(* while it is at work.                                                    *)

Connect(t) ==
  /\ step[t] = "out" /\ session[t] = None
  /\ \E w \in Wallets : address' = [address EXCEPT ![t] = w]
  /\ Goto(t, "challenge")
  /\ UNCHANGED <<demo, users, members, ours, fresh, found, session, stored, valid>>

BuildChallenge(t) ==
  /\ step[t] = "challenge"
  /\ fresh' = [fresh EXCEPT ![t] = TRUE]
  /\ Goto(t, "sign")
  /\ UNCHANGED <<demo, users, members, address, ours, found, session, stored, valid>>

ExpireChallenge(t) ==
  /\ step[t] \in {"sign", "verify"} /\ fresh[t]
  /\ fresh' = [fresh EXCEPT ![t] = FALSE]
  /\ UNCHANGED <<demo, users, members, step, address, ours, found, session, stored,
                 valid>>

\* The extension signs with whatever account is active in it, or refuses.
SignMessage(t) ==
  /\ step[t] = "sign"
  /\ \/ /\ \E b \in BOOLEAN : ours' = [ours EXCEPT ![t] = b]
        /\ Goto(t, "verify") /\ UNCHANGED fresh
     \/ Goto(t, "out") /\ Forget(t)
  /\ UNCHANGED <<demo, users, members, address, found, session, stored, valid>>

\* verify, up to its first await: the message is spent.
Verify(t) ==
  /\ step[t] = "verify"
  /\ Goto(t, IF fresh[t] /\ ours[t] THEN "find" ELSE "out")
  /\ Forget(t)
  /\ UNCHANGED <<demo, users, members, address, found, session, stored, valid>>

FindUser(t) ==
  /\ step[t] = "find"
  /\ LET rows == {u \in users : u.wallet = address[t]} IN
       IF rows = {} THEN Goto(t, "create") /\ UNCHANGED found
       ELSE \E u \in rows : found' = [found EXCEPT ![t] = u] /\ Goto(t, "member")
  /\ UNCHANGED <<demo, users, members, address, ours, fresh, session, stored, valid>>

CreateUser(t) ==
  /\ step[t] = "create"
  /\ FreeAddress(address[t])
  /\ LET u == [wallet |-> address[t], id |-> t] IN
       /\ users' = users \cup {u}
       /\ found' = [found EXCEPT ![t] = u]
  /\ Goto(t, "member")
  /\ UNCHANGED <<demo, members, address, ours, fresh, session, stored, valid>>

CreateRefused(t) ==
  /\ step[t] = "create"
  /\ ~FreeAddress(address[t])
  /\ Goto(t, "out")
  /\ UNCHANGED <<demo, users, members, address, ours, fresh, found, session, stored,
                 valid>>

\* ensureMembership, or firstMembershipForUser; the token is minted at once.
ResolveTenant(t) ==
  /\ step[t] = "member"
  /\ IF TenantsFor(found[t]) = {} THEN Goto(t, "out") /\ UNCHANGED members
     ELSE /\ Goto(t, "answer")
          /\ members' = members \cup
               (IF demo # None THEN {<<demo, found[t]>>} ELSE {})
  /\ UNCHANGED <<demo, users, address, ours, fresh, found, session, stored, valid>>

\* The answer arrives: stored, and the session of the page.
SignedIn(t) ==
  /\ step[t] = "answer"
  /\ \E tenant \in TenantsFor(found[t]) :
       LET s == [user |-> found[t], tenant |-> tenant] IN
         /\ session' = [session EXCEPT ![t] = s]
         /\ stored' = [stored EXCEPT ![t] = s]
  /\ valid' = [valid EXCEPT ![t] = TRUE]
  /\ found' = [found EXCEPT ![t] = None]
  /\ Goto(t, "out")
  /\ UNCHANGED <<demo, users, members, address, ours, fresh>>

SignOut(t) ==
  /\ session[t] # None
  /\ session' = [session EXCEPT ![t] = None]
  /\ stored' = [stored EXCEPT ![t] = None]
  /\ UNCHANGED <<demo, users, members, step, address, ours, fresh, found, valid>>

\* AUTH_SESSION_TTL_SECONDS go by; the open page does not notice.
ExpireToken(t) ==
  /\ valid[t] /\ stored[t] # None
  /\ valid' = [valid EXCEPT ![t] = FALSE]
  /\ UNCHANGED <<demo, users, members, step, address, ours, fresh, found, session,
                 stored>>

\* The page is loaded again: what was under way is gone, the stored session is
\* restored unless it has expired.
Restored(t) == IF valid[t] THEN stored[t] ELSE None
Restore(t) ==
  /\ Goto(t, "out")
  /\ session' = [session EXCEPT ![t] = Restored(t)]
  /\ stored' = [stored EXCEPT ![t] = Restored(t)]
  /\ found' = [found EXCEPT ![t] = None]
  /\ Forget(t)
  /\ UNCHANGED <<demo, users, members, address, valid>>

\* What the tab's page does not see.
SignInStep(t) ==
  \/ Connect(t) \/ BuildChallenge(t) \/ ExpireChallenge(t) \/ SignMessage(t)
  \/ Verify(t) \/ FindUser(t) \/ CreateUser(t) \/ CreateRefused(t)
  \/ ResolveTenant(t)

-----------------------------------------------------------------------------
SignInTypeOK ==
  /\ demo \in Tenants \cup {None}
  /\ users \subseteq User
  /\ members \subseteq Tenants \X User
  /\ step \in [Tabs -> Steps]
  /\ address \in [Tabs -> Wallets]
  /\ fresh \in [Tabs -> BOOLEAN] /\ ours \in [Tabs -> BOOLEAN] /\ valid \in [Tabs -> BOOLEAN]
  /\ found \in [Tabs -> User \cup {None}]
  /\ session \in [Tabs -> Session \cup {None}]
  /\ stored \in [Tabs -> Session \cup {None}]

\* However many browsers a wallet signs in from at once, its sessions are of one
\* user, whose row and membership exist: the API looks for the user, and inserts
\* one several awaits later (walletAuthService.ts, lines 95-110).
OneIdentityPerWallet ==
  \A a, b \in Tabs :
    session[a] # None /\ session[b] # None =>
      /\ <<session[a].tenant, session[a].user>> \in members
      /\ session[a].user \in users
      /\ session[a].user.wallet = session[b].user.wallet
           => session[a].user = session[b].user
=============================================================================
