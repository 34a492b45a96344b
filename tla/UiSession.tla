------------------------------ MODULE UiSession ------------------------------
(***************************************************************************)
(* The session of one browser tab (ui/packages/shared/src/store/auth.ts,   *)
(* api/client.ts, api/auth.ts, and App.tsx, Login.tsx, SsoCallback.tsx and *)
(* TopBar.tsx of an application): the cookie, the store that is kept in    *)
(* localStorage, the queries that resolve the session after a load, the    *)
(* login and the logout, and the calls of the pages, any of which may find *)
(* that the session has ended and clear the store.                         *)
(*                                                                         *)
(* An answer is worked off without interruption, its effects included;     *)
(* between a request, the moment the gateway judges it and the answer      *)
(* everything else may happen.  The gateway is external but for what       *)
(* src/src/admin/auth.rs says of tokens: they carry the version of their   *)
(* user, and a logout bumps it.                                            *)
(***************************************************************************)
EXTENDS Integers, FiniteSets

CONSTANTS
  Users,
  Welcome,      \* the users the application lets in after a login
  Calls,        \* requests the pages can have in flight
  MaxSessions,  \* bound on the sessions the gateway makes
  MaxLoads,     \* bound on the times the page is loaded again
  MaxFaults     \* bound on the requests that fail

Nobody == "nobody"

ASSUME SessionAssumption ==
  /\ Nobody \notin Users
  /\ Welcome \subseteq Users
  /\ MaxSessions \in Nat /\ MaxLoads \in Nat /\ MaxFaults \in Nat

VARIABLES
  owner,    \* owner[n]: the user of session n, Nobody if it was not made yet
  live,     \* the sessions the gateway accepts
  cookie,   \* the session of the cookie, 0 if there is none
  store,    \* useAuth, and what becomes of a logout in the page it shows
  boot,     \* SessionBootstrapper and SsoCallback
  login,    \* the session made for a login whose answer is on its way, 0 if there is none
  logout,   \* the logout under way, one at a time
  call,     \* call[c]: a request of a page
  cache,    \* the users whose data the query cache holds
  latch,    \* _clearingAuth
  loads, faults

server == <<owner, live>>
vars == <<owner, live, cookie, store, boot, login, logout, call, cache, latch, loads, faults>>

Sessions == 1..MaxSessions

UserOf(n) == IF n = 0 THEN Nobody ELSE owner[n]

\* perms: the user whose permissions these are; leaving: the TopBar that is shown waits
\* for the answer of its logout, and goes with the session; stripped (history): a logout
\* that no TopBar waited for has taken the cookie away under this session
Cleared ==
  [user |-> Nobody, perms |-> Nobody, authed |-> FALSE, resolved |-> TRUE,
   leaving |-> FALSE, stripped |-> FALSE]

\* The requests for /auth/session, /me and /me/permissions, with the result that was
\* last rendered; sso: the page is SsoCallback, which asks for /me at once
Loading(sso) ==
  [probe |-> "asked", me |-> IF sso THEN "asked" ELSE "off", perms |-> "off", sso |-> sso]

\* as: the session it is sent with; cached: its answer is for the cache
NoCall == [at |-> "none", as |-> 0, cached |-> FALSE]
NoLogout == [at |-> "none", as |-> 0]

Init ==
  /\ owner = [n \in Sessions |-> Nobody]
  /\ live = {} /\ cookie = 0
  /\ store = [Cleared EXCEPT !.resolved = FALSE]
  /\ boot = Loading(FALSE)
  /\ login = 0 /\ logout = NoLogout
  /\ call = [c \in Calls |-> NoCall]
  /\ cache = {} /\ latch = FALSE
  /\ loads = 0 /\ faults = 0

-----------------------------------------------------------------------------
(* The store and the cache *)

(* A definition named Mutant... is a plausible bug of the definition that follows  *)
(* it.  No specification uses it: the properties are tested against it.            *)

Lost(state) == IF state = "asked" THEN "lost" ELSE state

\* What queryClient.clear() does to the requests of SessionBootstrapper: those in
\* flight are dropped, and asked again only when it is rendered again, which a change
\* of isSessionResolved does and nothing else here.
Dropped(b) ==
  IF store.resolved
    THEN [b EXCEPT !.probe = Lost(@), !.me = Lost(@), !.perms = Lost(@)]
    ELSE [b EXCEPT !.probe = "asked", !.me = Lost(@)]

\* what the next user may still see
MutantClearCache(b, calls) == boot' = Dropped(b) /\ call' = calls /\ UNCHANGED cache

\* queryClient.clear(), with b and calls for boot and call: what a request of a page
\* brings later is not for this cache any more.
ClearCache(b, calls) ==
  /\ boot' = Dropped(b)
  /\ call' = [c \in Calls |-> [calls[c] EXCEPT !.cached = FALSE]]
  /\ cache' = {}

\* clear()
Clear(b, calls) == store' = Cleared /\ ClearCache(b, calls)

\* api() has met a 401 and raises an error.  The first of several clears the store.
Unauthorized(b, calls) ==
  /\ latch' = TRUE
  /\ IF latch THEN boot' = b /\ call' = calls /\ UNCHANGED <<store, cache>>
     ELSE Clear(b, calls)

Faulty == faults < MaxFaults /\ faults' = faults + 1

-----------------------------------------------------------------------------
(* The page is loaded *)

\* partialize: what localStorage keeps
Kept == [Cleared EXCEPT !.user = store.user, !.perms = store.perms, !.resolved = FALSE]

\* The page is opened or reloaded; a login under way may still set the cookie.
Load ==
  /\ loads < MaxLoads
  /\ loads' = loads + 1
  /\ cookie' \in {cookie} \cup ({login} \ {0})
  /\ store' = Kept /\ boot' = Loading(FALSE)
  /\ login' = 0 /\ logout' = NoLogout
  /\ call' = [c \in Calls |-> NoCall]
  /\ cache' = {} /\ latch' = FALSE
  /\ UNCHANGED <<server, faults>>

\* The identity provider sends the browser back with a new session.
SsoReturn(n, u) ==
  /\ loads < MaxLoads
  /\ loads' = loads + 1
  /\ owner[n] = Nobody /\ \A m \in 1..(n - 1) : owner[m] # Nobody
  /\ owner' = [owner EXCEPT ![n] = u] /\ live' = live \cup {n}
  /\ cookie' = n
  /\ store' = Kept /\ boot' = Loading(TRUE)
  /\ login' = 0 /\ logout' = NoLogout
  /\ call' = [c \in Calls |-> NoCall]
  /\ cache' = {} /\ latch' = FALSE
  /\ UNCHANGED faults

\* SessionBootstrapper is rendered: `enabled` of its queries.
Rendered(b, resolved) ==
  LET authed == b.probe = "authed" IN
  [b EXCEPT !.me = IF authed /\ ~resolved /\ @ = "off" THEN "asked" ELSE @,
            !.perms = IF authed /\ resolved /\ @ = "off" THEN "asked" ELSE @]

\* the anonymous session is not resolved
MutantProbed(answer) == boot' = Rendered([boot EXCEPT !.probe = answer], store.resolved)
                        /\ UNCHANGED <<store, call, cache>>

\* The probe's answer is rendered, and its effect follows.
Probed(answer) ==
  LET b == Rendered([boot EXCEPT !.probe = answer], store.resolved) IN
  IF answer = "anonymous" /\ ~store.resolved
    THEN Clear(b, call)
    ELSE boot' = b /\ UNCHANGED <<store, call, cache>>

\* auth_session takes a database that does not answer for a session that is not there.
ProbeAnswer ==
  /\ boot.probe = "asked"
  /\ \/ Probed(IF cookie \in live THEN "authed" ELSE "anonymous") /\ UNCHANGED faults
     \/ Faulty /\ Probed("anonymous")
     \/ Faulty /\ Probed("failed")
  /\ UNCHANGED <<server, cookie, login, logout, latch, loads>>

\* The button of the error page, which lies over everything else.
Retry ==
  /\ boot.probe = "failed"
  /\ boot' = [boot EXCEPT !.probe = "asked"]
  /\ UNCHANGED <<server, cookie, store, login, logout, call, cache, latch, loads, faults>>

\* /me: setCurrentSession, or an error that only SsoCallback handles.
MeAnswer ==
  LET b == [boot EXCEPT !.me = "ended"] IN
  /\ boot.me = "asked"
  /\ \/ /\ cookie \in live
        /\ store' = [store EXCEPT !.user = UserOf(cookie), !.authed = TRUE, !.resolved = TRUE]
        /\ boot' = Rendered(b, TRUE)
        /\ UNCHANGED <<call, cache, faults>>
     \/ /\ cookie \notin live
        /\ IF boot.sso THEN Clear(b, call) ELSE boot' = b /\ UNCHANGED <<store, call, cache>>
        /\ UNCHANGED faults
     \/ Faulty /\ boot' = b /\ UNCHANGED <<store, call, cache>>
  /\ UNCHANGED <<server, cookie, login, logout, latch, loads>>

\* AdminRoute shows the pages, with their TopBar, or the door; while there are no
\* permissions the role decides.
Admitted(s) == (IF s.perms = Nobody THEN s.user ELSE s.perms) \in Welcome

\* /me/permissions.  They may put the door in the place of the TopBar.
PermsAnswer ==
  LET b == [boot EXCEPT !.perms = "ended"]
      s == [store EXCEPT !.perms = UserOf(cookie)]
  IN
  /\ boot.perms = "asked"
  /\ \/ /\ cookie \in live
        /\ store' = [s EXCEPT !.leaving = @ /\ Admitted(s)]
        /\ boot' = [boot EXCEPT !.perms = "done"]
        /\ UNCHANGED <<call, cache, latch, faults>>
     \/ cookie \notin live /\ Unauthorized(b, call) /\ UNCHANGED faults
     \/ Faulty /\ boot' = b /\ UNCHANGED <<store, call, cache, latch>>
  /\ UNCHANGED <<server, cookie, login, logout, loads>>

-----------------------------------------------------------------------------
(* Login and logout *)

\* What the login page asks for before it shows its form.
AtLogin == store.resolved /\ ~store.authed /\ boot.probe # "failed"

\* The gateway accepts a password.
LoginServed(n, u) ==
  /\ AtLogin /\ login = 0
  /\ owner[n] = Nobody /\ \A m \in 1..(n - 1) : owner[m] # Nobody
  /\ owner' = [owner EXCEPT ![n] = u] /\ live' = live \cup {n}
  /\ login' = n
  /\ UNCHANGED <<cookie, store, boot, logout, call, cache, latch, loads, faults>>

\* setSession, which leaves the permissions as they are; the admin application then
\* shows the door to users without the role, whose cookie stays.
LoginAnswer ==
  /\ login # 0
  /\ login' = 0 /\ cookie' = login
  /\ IF UserOf(login) \in Welcome
       THEN /\ store' = [store EXCEPT !.user = UserOf(login), !.authed = TRUE,
                                    !.resolved = TRUE, !.stripped = FALSE]
            /\ ClearCache(boot, call)
       ELSE Clear(boot, call)
  /\ UNCHANGED <<server, logout, latch, loads, faults>>

\* The answer of the gateway is lost.
LoginLost ==
  /\ login # 0
  /\ Faulty
  /\ login' = 0
  /\ UNCHANGED <<server, cookie, store, boot, logout, call, cache, latch, loads>>

\* The button of the TopBar.
LogoutSent ==
  /\ store.authed /\ Admitted(store) /\ boot.probe # "failed"
  /\ logout.at = "none"
  /\ logout' = [at |-> "sent", as |-> cookie]
  /\ store' = [store EXCEPT !.leaving = TRUE]
  /\ UNCHANGED <<server, cookie, boot, login, call, cache, latch, loads, faults>>

\* admin_logout: the version of the user is bumped, so all of its sessions end.
LogoutServed ==
  /\ logout.at = "sent"
  /\ IF logout.as \in live
       THEN /\ live' = {n \in live : owner[n] # owner[logout.as]}
            /\ logout' = [logout EXCEPT !.at = "done"]
       ELSE /\ logout' = [logout EXCEPT !.at = "refused"]
            /\ UNCHANGED live
  /\ UNCHANGED <<owner, cookie, store, boot, login, call, cache, latch, loads, faults>>

\* The answer takes away the cookie of whoever is logged in.
Strips == store.authed /\ logout.at = "done"

\* the store is left to the next 401
MutantLogoutAnswer ==
  /\ logout.at \in {"done", "refused"}
  /\ logout' = NoLogout
  /\ cookie' = IF logout.at = "done" THEN 0 ELSE cookie
  /\ store' = [store EXCEPT !.leaving = FALSE, !.stripped = @ \/ (Strips /\ ~store.leaving)]
  /\ UNCHANGED <<server, boot, call, cache, login, latch, loads, faults>>

\* The answer takes the cookie away.  The TopBar that asked clears the store, also if it
\* is a 401; when that TopBar is gone its callbacks are not called.
LogoutAnswer ==
  /\ logout.at \in {"done", "refused"}
  /\ logout' = NoLogout
  /\ cookie' = IF logout.at = "done" THEN 0 ELSE cookie
  /\ IF store.leaving
       THEN Clear(boot, call)
       ELSE /\ store' = [store EXCEPT !.stripped = @ \/ Strips]
            /\ UNCHANGED <<boot, call, cache>>
  /\ UNCHANGED <<server, login, latch, loads, faults>>

\* A message is shown, and everything stays.
LogoutLost ==
  /\ logout.at # "none"
  /\ Faulty
  /\ logout' = NoLogout
  /\ store' = [store EXCEPT !.leaving = FALSE]
  /\ UNCHANGED <<server, cookie, boot, login, call, cache, latch, loads>>

\* A session expires, or its user is suspended or logged out elsewhere.
Expire(n) ==
  /\ n \in live
  /\ \/ live' = live \ {n}
     \/ live' = {m \in live : owner[m] # owner[n]}
  /\ UNCHANGED <<owner, cookie, store, boot, login, logout, call, cache, latch, loads, faults>>

-----------------------------------------------------------------------------
(* The calls of the pages *)

\* A page asks for data, once or again and again.
Send(c) ==
  /\ store.authed
  /\ call[c].at = "none"
  /\ call' = [call EXCEPT ![c] = [at |-> "sent", as |-> cookie, cached |-> TRUE]]
  /\ UNCHANGED <<server, cookie, store, boot, login, logout, cache, latch, loads, faults>>

\* require_session
Judge(c) ==
  /\ call[c].at = "sent"
  /\ call' = [call EXCEPT ![c].at = IF call[c].as \in live THEN "ok" ELSE "refused"]
  /\ UNCHANGED <<server, cookie, store, boot, login, logout, cache, latch, loads, faults>>

\* A request is not given up when the store is cleared: its 401 may come after the
\* next login.
Deliver(c) ==
  LET calls == [call EXCEPT ![c] = NoCall] IN
  /\ \/ /\ call[c].at = "ok"
        /\ cache' = IF call[c].cached THEN cache \cup {UserOf(call[c].as)} ELSE cache
        /\ call' = calls
        /\ UNCHANGED <<store, boot, latch>>
     \/ call[c].at = "refused" /\ Unauthorized(boot, calls)
  /\ UNCHANGED <<server, cookie, login, logout, loads, faults>>

Fail(c) ==
  /\ call[c].at # "none"
  /\ Faulty
  /\ call' = [call EXCEPT ![c] = NoCall]
  /\ UNCHANGED <<server, cookie, store, boot, login, logout, cache, latch, loads>>

\* the timer is not set
MutantReleaseLatch == FALSE /\ UNCHANGED vars

\* Three seconds after the store was cleared.
ReleaseLatch ==
  /\ latch
  /\ latch' = FALSE
  /\ UNCHANGED <<server, cookie, store, boot, login, logout, call, cache, loads, faults>>

-----------------------------------------------------------------------------
(* Specification *)

LoadStep ==
  \/ Load \/ ProbeAnswer \/ Retry \/ MeAnswer \/ PermsAnswer
  \/ \E n \in Sessions, u \in Users : SsoReturn(n, u)

SessionStep ==
  \/ \E n \in Sessions : Expire(n) \/ \E u \in Users : LoginServed(n, u)
  \/ LoginAnswer \/ LoginLost
  \/ LogoutSent \/ LogoutServed \/ LogoutAnswer \/ LogoutLost

CallStep == ReleaseLatch \/ \E c \in Calls : Send(c) \/ Judge(c) \/ Deliver(c) \/ Fail(c)

Next == LoadStep \/ SessionStep \/ CallStep

Spec == Init /\ [][Next]_vars

\* Requests are answered, the timer runs, and some page polls.
FairSpec ==
  /\ Spec
  /\ WF_vars(ProbeAnswer) /\ WF_vars(MeAnswer) /\ WF_vars(ReleaseLatch)
  /\ \A c \in Calls : WF_vars(Send(c)) /\ WF_vars(Judge(c)) /\ WF_vars(Deliver(c))

-----------------------------------------------------------------------------
(* Properties *)

Store ==
  [user: Users \cup {Nobody}, perms: Users \cup {Nobody}, authed: BOOLEAN, resolved: BOOLEAN,
   leaving: BOOLEAN, stripped: BOOLEAN]

Boot ==
  [probe: {"asked", "lost", "failed", "anonymous", "authed"}, me: {"off", "asked", "lost", "ended"},
   perms: {"off", "asked", "lost", "ended", "done"}, sso: BOOLEAN]

Call == [at: {"none", "sent", "ok", "refused"}, as: 0..MaxSessions, cached: BOOLEAN]

\* A session that is authenticated is resolved and has a user; a TopBar shows one.
TypeOK ==
  /\ owner \in [Sessions -> Users \cup {Nobody}]
  /\ live \subseteq {n \in Sessions : owner[n] # Nobody}
  /\ cookie \in 0..MaxSessions /\ login \in 0..MaxSessions
  /\ store \in Store /\ boot \in Boot
  /\ store.authed => store.resolved /\ store.user # Nobody
  /\ store.leaving \/ store.stripped => store.authed
  /\ logout \in [at: {"none", "sent", "done", "refused"}, as: 0..MaxSessions]
  /\ call \in [Calls -> Call]
  /\ cache \subseteq Users
  /\ latch \in BOOLEAN /\ loads \in Nat /\ faults \in Nat

\* The user the application shows is the one the gateway acts for, whatever logouts,
\* logins and errors of earlier sessions are still under way; a logout that outlived its
\* TopBar may leave the gateway with nobody to act for, but with nobody else.
IdentityMatchesCookie ==
  store.authed => UserOf(cookie) = IF store.stripped THEN Nobody ELSE store.user

\* Nobody sees another user's data: the cache holds that of the user who is logged in,
\* and nothing when nobody is, though requests of earlier sessions come in late.
CacheOfUser == cache \subseteq IF store.authed THEN {store.user} ELSE {}

\* A page that is loaded comes to know whether somebody is logged in, unless a request
\* failed: the probe, after which a button is shown, or /me, after which there is none.
PageResolves ==
  ~store.resolved ~> store.resolved \/ boot.probe = "failed" \/ boot.me = "ended"

\* A session that has ended does not go unnoticed: the 401 that is ignored because one
\* has just been handled is not the last.
DeadSessionNoticed ==
  store.authed /\ cookie \notin live ~> ~store.authed \/ cookie \in live
=============================================================================
