---------------------------- MODULE MCDashboard ----------------------------
(* Instances of Dashboard for TLC.                                          *)
EXTENDS Dashboard

CONSTANTS tab1, tab2, w1, w2, acme, rival

\* One wallet has a workspace of its own, the other is new; the tenant shown in
\* public is the one new wallets join, where there is one.
MCHome == (w1 :> rival) @@ (w2 :> None)

SignIns(joining, tabs) ==
  [demo |-> joining, public |-> acme, tabs |-> tabs, restored |-> {},
   changing |-> {}, page |-> FALSE, cached |-> FALSE, prompt |-> FALSE,
   ordered |-> FALSE, patient |-> FALSE, events |-> {"signOut"}]

PageOf(tabs, patient, events) ==
  [SignIns(None, tabs) EXCEPT !.page = TRUE, !.patient = patient, !.events = events]

\* A page that starts with a session, and data that changes meanwhile.
Watching(changing, cached, prompt, events) ==
  [PageOf({}, FALSE, events) EXCEPT
     !.restored = {tab1}, !.changing = changing, !.cached = cached,
     !.prompt = prompt, !.ordered = prompt]

\* Two browsers that sign in at once, with and without a tenant to join; users who
\* wait for the page and users who do not; the treasury page with the API's cache;
\* and a page left alone.
MCSites ==
  {SignIns(acme, Tabs), SignIns(None, Tabs),
   PageOf({tab1}, TRUE, {"signOut", "leave", "reload"}),
   PageOf({tab1}, FALSE, {"signOut", "expire", "fail"}),
   Watching({rival}, TRUE, FALSE, {"signOut", "leave"}),
   Watching({Platform}, TRUE, FALSE, {"reload", "fail"}),
   Watching({rival}, FALSE, TRUE, {})}

\* What the conditions are for: users who do not wait, and the API's cache.
MCHasty == {PageOf({tab1}, FALSE, {"signOut"})}
MCWatchers == {Watching({rival, Platform}, TRUE, TRUE, {})}
=============================================================================
