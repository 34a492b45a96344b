--------------------------- MODULE UiSessionProofs ---------------------------
(***************************************************************************)
(* Proofs about UiSession for any number of users, sessions, loads and     *)
(* calls: the store follows the cookie, and the query cache the store.     *)
(***************************************************************************)
EXTENDS UiSession, TLAPS

\* A request whose answer is for the cache was sent by the user who is logged in: what
\* ClearCache must see to, and what makes CacheOfUser inductive.
\* (It may have been sent without a cookie.)
CallsOfUser ==
  \A c \in Calls :
    call[c].at # "none" /\ call[c].cached
      => store.authed /\ UserOf(call[c].as) \in {store.user, Nobody}

\* The gateway answers nobody.
Answered == \A c \in Calls : call[c].at = "ok" => UserOf(call[c].as) # Nobody

\* The inductive invariant.
IInv == TypeOK /\ IdentityMatchesCookie /\ CacheOfUser /\ CallsOfUser /\ Answered

USE SessionAssumption

-----------------------------------------------------------------------------
(* The boot record stays one *)

LEMMA LoadingBoot == ASSUME NEW sso \in BOOLEAN PROVE Loading(sso) \in Boot
BY DEF Loading, Boot

LEMMA DroppedBoot == ASSUME NEW b \in Boot PROVE Dropped(b) \in Boot
<1>1. /\ Lost(b.probe) \in {"asked", "lost", "failed", "anonymous", "authed"}
      /\ Lost(b.me) \in {"off", "asked", "lost", "ended"}
      /\ Lost(b.perms) \in {"off", "asked", "lost", "ended", "done"}
  BY DEF Lost, Boot
<1> QED
  BY <1>1 DEF Dropped, Boot

LEMMA RenderedBoot ==
  ASSUME NEW b \in Boot, NEW resolved \in BOOLEAN PROVE Rendered(b, resolved) \in Boot
BY DEF Rendered, Boot

-----------------------------------------------------------------------------
(* Clearing *)

LEMMA ClearedStore ==
  /\ Cleared \in Store /\ ~Cleared.authed /\ ~Cleared.leaving /\ ~Cleared.stripped
  /\ LET s == [Cleared EXCEPT !.resolved = FALSE] IN
     s \in Store /\ ~s.authed /\ ~s.leaving /\ ~s.stripped
BY DEF Cleared, Store

\* After ClearCache no request brings anything into the cache.
LEMMA ClearCacheKeeps ==
  ASSUME NEW b \in Boot, NEW calls \in [Calls -> Call], ClearCache(b, calls)
  PROVE  /\ boot' \in Boot
         /\ call' \in [Calls -> Call] /\ \A c \in Calls : ~call'[c].cached
         /\ \A c \in Calls : call'[c].at = calls[c].at /\ call'[c].as = calls[c].as
         /\ cache' = {}
<1>1. boot' \in Boot
  BY DroppedBoot DEF ClearCache
<1>2. ASSUME NEW c \in Calls
      PROVE  LET d == [calls[c] EXCEPT !.cached = FALSE] IN
             d \in Call /\ ~d.cached /\ d.at = calls[c].at /\ d.as = calls[c].as
  BY DEF Call
<1> QED
  BY <1>1, <1>2 DEF ClearCache

\* clear() keeps the invariant, whatever becomes of the cookie.
LEMMA ClearKeeps ==
  ASSUME IInv, NEW b \in Boot, NEW calls \in [Calls -> Call], Clear(b, calls),
         \A c \in Calls : calls[c] = call[c] \/ calls[c].at = "none",
         UNCHANGED server, cookie' \in 0..MaxSessions, login' \in 0..MaxSessions,
         logout' \in [at: {"none", "sent", "done", "refused"}, as: 0..MaxSessions],
         latch' \in BOOLEAN, loads' \in Nat, faults' \in Nat
  PROVE  IInv'
<1>1. /\ boot' \in Boot /\ call' \in [Calls -> Call] /\ \A c \in Calls : ~call'[c].cached
      /\ \A c \in Calls : call'[c].at = calls[c].at /\ call'[c].as = calls[c].as
      /\ cache' = {}
  BY ClearCacheKeeps DEF Clear
<1>2. store' \in Store /\ ~store'.authed /\ ~store'.leaving /\ ~store'.stripped
  BY ClearedStore DEF Clear
<1>3. Answered'
  BY <1>1 DEF IInv, Answered, UserOf, server
<1> QED
  BY <1>1, <1>2, <1>3
  DEF IInv, TypeOK, IdentityMatchesCookie, CacheOfUser, CallsOfUser, server

\* A step of boot alone keeps it too.
LEMMA BootKeeps ==
  ASSUME IInv, boot' \in Boot,
         UNCHANGED <<owner, live, cookie, store, login, call, cache>>,
         logout' \in [at: {"none", "sent", "done", "refused"}, as: 0..MaxSessions],
         latch' \in BOOLEAN, loads' \in Nat, faults' \in Nat
  PROVE  IInv'
BY DEF IInv, TypeOK, IdentityMatchesCookie, CacheOfUser, CallsOfUser, Answered, UserOf

\* setSession, setCurrentSession and the loads of a page put a user or nobody there.
LEMMA StoreFields ==
  ASSUME store \in Store
  PROVE  /\ Kept \in Store /\ ~Kept.authed /\ ~Kept.leaving /\ ~Kept.stripped
         /\ \A u \in Users \cup {Nobody} :
              LET s == [store EXCEPT !.user = u, !.authed = TRUE, !.resolved = TRUE] IN
              /\ s \in Store /\ s.user = u /\ s.authed /\ s.resolved
              /\ s.stripped = store.stripped
         /\ \A u \in Users \cup {Nobody} :
              LET s == [store EXCEPT !.user = u, !.authed = TRUE, !.resolved = TRUE,
                                     !.stripped = FALSE] IN
              s \in Store /\ s.user = u /\ s.authed /\ s.resolved /\ ~s.stripped
<1>1. Kept \in Store /\ ~Kept.authed /\ ~Kept.leaving /\ ~Kept.stripped
  BY DEF Kept, Cleared, Store
<1>2. ASSUME NEW u \in Users \cup {Nobody}
      PROVE  LET s == [store EXCEPT !.user = u, !.authed = TRUE, !.resolved = TRUE] IN
             /\ s \in Store /\ s.user = u /\ s.authed /\ s.resolved
             /\ s.stripped = store.stripped
  BY DEF Store
<1>4. ASSUME NEW u \in Users \cup {Nobody}
      PROVE  LET s == [store EXCEPT !.user = u, !.authed = TRUE, !.resolved = TRUE,
                                    !.stripped = FALSE] IN
             s \in Store /\ s.user = u /\ s.authed /\ s.resolved /\ ~s.stripped
  BY DEF Store
<1> QED
  BY <1>1, <1>2, <1>4

\* setPermissions, and what becomes of TopBar with it.
LEMMA PermsField ==
  ASSUME store \in Store, NEW u \in Users \cup {Nobody}, NEW left \in BOOLEAN
  PROVE  LET s == [[store EXCEPT !.perms = u] EXCEPT !.leaving = @ /\ left] IN
         /\ s \in Store /\ s.user = store.user /\ s.authed = store.authed
         /\ s.resolved = store.resolved /\ s.stripped = store.stripped
         /\ s.leaving => store.leaving
<1> DEFINE p == [store EXCEPT !.perms = u]
           l == p.leaving /\ left
           s == [p EXCEPT !.leaving = l]
<1>1. /\ p \in Store /\ p.user = store.user /\ p.authed = store.authed
      /\ p.resolved = store.resolved /\ p.stripped = store.stripped
      /\ p.leaving = store.leaving
  BY DEF Store
<1>2. l \in BOOLEAN /\ (l => p.leaving)
  OBVIOUS
<1> HIDE DEF p, l
<1>3. /\ s \in Store /\ s.user = p.user /\ s.authed = p.authed
      /\ s.resolved = p.resolved /\ s.stripped = p.stripped
      /\ s.leaving = l
  BY <1>1, <1>2 DEF Store
<1>4. s = [[store EXCEPT !.perms = u] EXCEPT !.leaving = @ /\ left]
  BY DEF p, l
<1> QED
  BY <1>1, <1>2, <1>3, <1>4

\* The store but for what becomes of the logout.
Marked(leaving, stripped) ==
  /\ store' \in Store /\ store'.leaving = leaving /\ store'.stripped = stripped
  /\ store'.user = store.user /\ store'.authed = store.authed
  /\ store'.resolved = store.resolved

\* A logout changes nothing else, and the cookie goes only with the mark that says so.
LEMMA MarkKeeps ==
  ASSUME IInv, NEW leaving \in BOOLEAN, NEW stripped \in BOOLEAN, Marked(leaving, stripped),
         leaving \/ stripped => store.authed,
         cookie' \in 0..MaxSessions,
         store.authed => UserOf(cookie') = IF stripped THEN Nobody ELSE store.user,
         UNCHANGED <<owner, live, boot, login, call, cache>>,
         logout' \in [at: {"none", "sent", "done", "refused"}, as: 0..MaxSessions],
         latch' \in BOOLEAN, loads' \in Nat, faults' \in Nat
  PROVE  IInv'
<1>1. TypeOK'
  BY DEF IInv, TypeOK, Marked
<1>2. IdentityMatchesCookie'
  BY DEF IdentityMatchesCookie, Marked, UserOf
<1>3. CacheOfUser' /\ CallsOfUser' /\ Answered'
  BY DEF IInv, CacheOfUser, CallsOfUser, Answered, Marked, UserOf
<1> QED
  BY <1>1, <1>2, <1>3 DEF IInv

LEMMA NoCallIs == NoCall \in Call /\ ~NoCall.cached /\ NoCall.at = "none"
BY DEF NoCall, Call

-----------------------------------------------------------------------------
(* The invariant is kept *)

LEMMA InitIInv == Init => IInv
<1> SUFFICES ASSUME Init PROVE IInv
  OBVIOUS
<1>1. LET s == [Cleared EXCEPT !.resolved = FALSE] IN
      s \in Store /\ ~s.authed /\ ~s.leaving /\ ~s.stripped
  BY ClearedStore
<1>2. boot \in Boot /\ call \in [Calls -> Call] /\ \A c \in Calls : call[c].at = "none"
  BY LoadingBoot, NoCallIs DEF Init
<1>3. logout \in [at: {"none", "sent", "done", "refused"}, as: 0..MaxSessions]
  BY DEF Init, NoLogout
<1>4. store \in Store /\ ~store.authed /\ ~store.leaving /\ ~store.stripped
  BY <1>1 DEF Init
<1>5. /\ owner \in [Sessions -> Users \cup {Nobody}]
      /\ live = {} /\ cookie = 0 /\ login = 0 /\ cache = {} /\ latch = FALSE
      /\ loads = 0 /\ faults = 0
  BY DEF Init
<1>6. TypeOK
  <2>1. /\ logout \in [at: {"none", "sent", "done", "refused"}, as: 0..MaxSessions]
        /\ call \in [Calls -> Call]
    BY <1>2, <1>3
  <2>2. /\ live \subseteq {n \in Sessions : owner[n] # Nobody} /\ cache \subseteq Users
        /\ cookie \in 0..MaxSessions /\ login \in 0..MaxSessions
    BY <1>5
  <2>3. latch \in BOOLEAN /\ loads \in Nat /\ faults \in Nat
    BY <1>5
  <2> QED
    BY <1>2, <1>4, <1>5, <2>1, <2>2, <2>3 DEF TypeOK
<1> QED
  BY <1>2, <1>4, <1>5, <1>6 DEF IInv, IdentityMatchesCookie, CacheOfUser, CallsOfUser, Answered

\* A document that is loaded starts without requests and with an empty cache.
LEMMA LoadKeeps ==
  ASSUME IInv,
         store' = Kept, boot' \in Boot, call' = [c \in Calls |-> NoCall], cache' = {},
         owner' \in [Sessions -> Users \cup {Nobody}],
         live' \subseteq {n \in Sessions : owner'[n] # Nobody},
         cookie' \in 0..MaxSessions, login' = 0, logout' = NoLogout,
         latch' = FALSE, loads' \in Nat, faults' \in Nat
  PROVE  IInv'
<1>1. store' \in Store /\ ~store'.authed /\ ~store'.leaving /\ ~store'.stripped
  BY StoreFields DEF IInv, TypeOK
<1>2. call' \in [Calls -> Call] /\ \A c \in Calls : call'[c].at = "none"
  BY NoCallIs
<1>3. logout' \in [at: {"none", "sent", "done", "refused"}, as: 0..MaxSessions]
  BY DEF NoLogout
<1>4. TypeOK'
  <2>1. cache' \subseteq Users /\ latch' \in BOOLEAN
    OBVIOUS
  <2>2. login' \in 0..MaxSessions
    BY SessionAssumption
  <2> QED
    BY <1>1, <1>2, <1>3, <2>1, <2>2 DEF TypeOK
<1> QED
  BY <1>1, <1>2, <1>4 DEF IInv, IdentityMatchesCookie, CacheOfUser, CallsOfUser, Answered

LEMMA LoadStepKeeps == ASSUME IInv, LoadStep PROVE IInv'
<1>0. /\ owner \in [Sessions -> Users \cup {Nobody}]
      /\ live \subseteq {n \in Sessions : owner[n] # Nobody}
      /\ cookie \in 0..MaxSessions /\ login \in 0..MaxSessions
      /\ store \in Store /\ boot \in Boot /\ call \in [Calls -> Call]
      /\ logout \in [at: {"none", "sent", "done", "refused"}, as: 0..MaxSessions]
      /\ latch \in BOOLEAN /\ loads \in Nat /\ faults \in Nat
  BY DEF IInv, TypeOK
<1>1. CASE Load
  <2>1. /\ cookie' \in {cookie} \cup {login} /\ loads' = loads + 1
        /\ UNCHANGED <<owner, live, faults>>
    BY <1>1 DEF Load, server
  <2>2. cookie' \in 0..MaxSessions /\ loads' \in Nat /\ faults' \in Nat
    BY <1>0, <2>1
  <2>3. /\ store' = Kept /\ boot' = Loading(FALSE) /\ call' = [c \in Calls |-> NoCall]
        /\ cache' = {} /\ login' = 0 /\ logout' = NoLogout /\ latch' = FALSE
    BY <1>1 DEF Load
  <2>4. boot' \in Boot
    BY <2>3, LoadingBoot
  <2> QED
    BY <1>0, <2>1, <2>2, <2>3, <2>4, LoadKeeps
<1>2. ASSUME NEW n \in Sessions, NEW u \in Users, SsoReturn(n, u) PROVE IInv'
  <2>1. /\ owner' \in [Sessions -> Users \cup {Nobody}]
        /\ live' \subseteq {m \in Sessions : owner'[m] # Nobody}
    BY <1>0, <1>2 DEF SsoReturn
  <2>2. cookie' \in 0..MaxSessions /\ loads' \in Nat /\ faults' \in Nat
    BY <1>0, <1>2 DEF SsoReturn, Sessions
  <2> QED
    BY <1>2, <2>1, <2>2, LoadKeeps, LoadingBoot DEF SsoReturn
<1>3. CASE ProbeAnswer
  <2>1. PICK answer \in {"authed", "anonymous", "failed"} : Probed(answer)
    BY <1>3 DEF ProbeAnswer
  <2>2. faults' \in Nat
    BY <1>0, <1>3 DEF ProbeAnswer, Faulty
  <2> DEFINE b == Rendered([boot EXCEPT !.probe = answer], store.resolved)
  <2>3. b \in Boot
    <3>1. [boot EXCEPT !.probe = answer] \in Boot
      BY <1>0 DEF Boot
    <3>2. store.resolved \in BOOLEAN
      BY <1>0 DEF Store
    <3> QED
      BY <3>1, <3>2, RenderedBoot
  <2>4. \/ Clear(b, call)
        \/ boot' = b /\ UNCHANGED <<store, call, cache>>
    BY <2>1 DEF Probed
  <2>5. UNCHANGED <<owner, live, cookie, login, logout, latch, loads>>
    BY <1>3 DEF ProbeAnswer, server
  <2> HIDE DEF b
  <2>6. CASE Clear(b, call)
    BY <1>0, <2>2, <2>3, <2>5, <2>6, ClearKeeps DEF server
  <2>7. CASE boot' = b /\ UNCHANGED <<store, call, cache>>
    BY <1>0, <2>2, <2>3, <2>5, <2>7, BootKeeps
  <2> QED
    BY <2>4, <2>6, <2>7
<1>4. CASE Retry
  <2>1. boot' \in Boot
    BY <1>0, <1>4 DEF Retry, Boot
  <2> QED
    BY <1>0, <1>4, <2>1, BootKeeps DEF Retry, server
<1>5. CASE MeAnswer
  <2> DEFINE b == [boot EXCEPT !.me = "ended"]
  <2>1. b \in Boot
    BY <1>0 DEF Boot
  <2>2. UNCHANGED <<owner, live, cookie, login, logout, latch, loads>> /\ faults' \in Nat
    <3>1. UNCHANGED <<owner, live, cookie, login, logout, latch, loads>>
      BY <1>5 DEF MeAnswer, server
    <3>2. faults' = faults \/ faults' = faults + 1
      BY <1>5 DEF MeAnswer, Faulty
    <3> QED
      BY <1>0, <3>1, <3>2
  <2>3. \/ /\ cookie \in live
           /\ store' = [store EXCEPT !.user = UserOf(cookie), !.authed = TRUE, !.resolved = TRUE]
           /\ boot' = Rendered(b, TRUE)
           /\ UNCHANGED <<call, cache>>
        \/ Clear(b, call)
        \/ boot' = b /\ UNCHANGED <<store, call, cache>>
    BY <1>5 DEF MeAnswer
  <2> HIDE DEF b
  <2>4. CASE /\ cookie \in live
             /\ store' = [store EXCEPT !.user = UserOf(cookie), !.authed = TRUE, !.resolved = TRUE]
             /\ boot' = Rendered(b, TRUE)
             /\ UNCHANGED <<call, cache>>
    <3>1. cookie # 0 /\ UserOf(cookie) = owner[cookie] /\ UserOf(cookie) \in Users
      BY <1>0, <2>4 DEF UserOf, Sessions
    <3>0. ~store.stripped
      BY <3>1, SessionAssumption DEF IInv, TypeOK, IdentityMatchesCookie
    <3>2. /\ store' \in Store /\ store'.user = UserOf(cookie) /\ store'.authed
          /\ store'.resolved /\ ~store'.stripped
      BY <1>0, <2>4, <3>0, <3>1, StoreFields
    <3>3. boot' \in Boot
      BY <2>1, <2>4, RenderedBoot
    <3>4. store.authed => store.user = store'.user
      BY <3>0, <3>2 DEF IInv, IdentityMatchesCookie
    <3>5. CacheOfUser' /\ CallsOfUser' /\ Answered'
      BY <2>2, <2>4, <3>2, <3>4 DEF IInv, CacheOfUser, CallsOfUser, Answered, UserOf
    <3>6. IdentityMatchesCookie'
      BY <2>2, <3>2 DEF IdentityMatchesCookie, UserOf
    <3>7. TypeOK'
      BY <2>2, <2>4, <3>1, <3>2, <3>3 DEF IInv, TypeOK
    <3> QED
      BY <3>5, <3>6, <3>7 DEF IInv
  <2>5. CASE Clear(b, call)
    BY <1>0, <2>1, <2>2, <2>5, ClearKeeps DEF server
  <2>6. CASE boot' = b /\ UNCHANGED <<store, call, cache>>
    BY <1>0, <2>1, <2>2, <2>6, BootKeeps
  <2> QED
    BY <2>3, <2>4, <2>5, <2>6
<1>6. CASE PermsAnswer
  <2> DEFINE b == [boot EXCEPT !.perms = "ended"]
             p == [store EXCEPT !.perms = UserOf(cookie)]
  <2>1. b \in Boot /\ [boot EXCEPT !.perms = "done"] \in Boot
    BY <1>0 DEF Boot
  <2>2. UNCHANGED <<owner, live, cookie, login, logout, loads>> /\ faults' \in Nat
        /\ latch' \in BOOLEAN
    <3>1. UNCHANGED <<owner, live, cookie, login, logout, loads>>
      BY <1>6 DEF PermsAnswer, server
    <3>2. faults' = faults \/ faults' = faults + 1
      BY <1>6 DEF PermsAnswer, Faulty
    <3>3. latch' = latch \/ latch' = TRUE
      <4>1. CASE UNCHANGED latch
        BY <4>1
      <4>2. CASE Unauthorized(b, call)
        BY <4>2 DEF Unauthorized
      <4> QED
        BY <1>6, <4>1, <4>2 DEF PermsAnswer
    <3>4. faults' \in Nat
      BY <1>0, <3>2
    <3>5. latch' \in BOOLEAN
      BY <1>0, <3>3
    <3> QED
      BY <3>1, <3>4, <3>5
  <2>3. \/ /\ cookie \in live
           /\ store' = [p EXCEPT !.leaving = @ /\ Admitted(p)]
           /\ boot' = [boot EXCEPT !.perms = "done"]
           /\ UNCHANGED <<call, cache>>
        \/ Clear(b, call)
        \/ boot' = b /\ UNCHANGED <<store, call, cache>>
    BY <1>6 DEF PermsAnswer, Unauthorized
  <2> HIDE DEF b, p
  <2>4. CASE /\ cookie \in live
             /\ store' = [p EXCEPT !.leaving = @ /\ Admitted(p)]
             /\ boot' = [boot EXCEPT !.perms = "done"]
             /\ UNCHANGED <<call, cache>>
    <3>1. UserOf(cookie) \in Users \cup {Nobody} /\ Admitted(p) \in BOOLEAN
      BY <1>0, <2>4 DEF UserOf, Sessions, Admitted
    <3> DEFINE left == Admitted(p)
    <3>s. /\ left \in BOOLEAN
          /\ store' = [[store EXCEPT !.perms = UserOf(cookie)] EXCEPT !.leaving = @ /\ left]
      BY <2>4, <3>1 DEF p
    <3> HIDE DEF left
    <3> DEFINE new == [[store EXCEPT !.perms = UserOf(cookie)] EXCEPT !.leaving = @ /\ left]
    <3>t. /\ new \in Store /\ new.user = store.user /\ new.authed = store.authed
          /\ new.resolved = store.resolved /\ new.stripped = store.stripped
          /\ new.leaving => store.leaving
      BY <1>0, <3>1, <3>s, PermsField
    <3> HIDE DEF new
    <3>2. /\ store' \in Store /\ store'.user = store.user /\ store'.authed = store.authed
          /\ store'.resolved = store.resolved /\ store'.stripped = store.stripped
          /\ store'.leaving => store.leaving
      BY <3>s, <3>t DEF new
    <3>3. TypeOK'
      BY <2>1, <2>2, <2>4, <3>2 DEF IInv, TypeOK
    <3> QED
      BY <2>2, <2>4, <3>2, <3>3
      DEF IInv, IdentityMatchesCookie, CacheOfUser, CallsOfUser, Answered, UserOf
  <2>5. CASE Clear(b, call)
    BY <1>0, <2>1, <2>2, <2>5, ClearKeeps DEF server
  <2>6. CASE boot' = b /\ UNCHANGED <<store, call, cache>>
    BY <1>0, <2>1, <2>2, <2>6, BootKeeps
  <2> QED
    BY <2>3, <2>4, <2>5, <2>6
<1> QED
  BY <1>1, <1>2, <1>3, <1>4, <1>5, <1>6 DEF LoadStep

LEMMA SessionStepKeeps == ASSUME IInv, SessionStep PROVE IInv'
<1>0. /\ owner \in [Sessions -> Users \cup {Nobody}]
      /\ live \subseteq {n \in Sessions : owner[n] # Nobody}
      /\ cookie \in 0..MaxSessions /\ login \in 0..MaxSessions
      /\ store \in Store /\ boot \in Boot /\ call \in [Calls -> Call]
      /\ logout \in [at: {"none", "sent", "done", "refused"}, as: 0..MaxSessions]
      /\ latch \in BOOLEAN /\ loads \in Nat /\ faults \in Nat
  BY DEF IInv, TypeOK
<1>1. ASSUME NEW n \in Sessions, Expire(n) PROVE IInv'
  <2>1. live' \subseteq live /\ UNCHANGED <<owner, cookie, store, boot, login, logout, call,
                                            cache, latch, loads, faults>>
    BY <1>1 DEF Expire
  <2> QED
    BY <1>0, <2>1
    DEF IInv, TypeOK, IdentityMatchesCookie, CacheOfUser, CallsOfUser, Answered, UserOf
<1>2. ASSUME NEW n \in Sessions, NEW u \in Users, LoginServed(n, u) PROVE IInv'
  <2>1. /\ owner[n] = Nobody /\ owner' = [owner EXCEPT ![n] = u] /\ live' = live \cup {n}
        /\ login' = n /\ ~store.authed
        /\ UNCHANGED <<cookie, store, boot, logout, call, cache, latch, loads, faults>>
    BY <1>2 DEF LoginServed, AtLogin
  <2>2. /\ owner' \in [Sessions -> Users \cup {Nobody}]
        /\ live' \subseteq {m \in Sessions : owner'[m] # Nobody}
        /\ login' \in 0..MaxSessions
    BY <1>0, <2>1 DEF Sessions
  <2>3. TypeOK'
    BY <1>0, <2>1, <2>2 DEF IInv, TypeOK
  <2>4. ASSUME NEW m \in 0..MaxSessions, UserOf(m) # Nobody PROVE m # 0 /\ owner'[m] = owner[m]
    <3>1. m # 0 /\ m \in Sessions /\ owner[m] # Nobody
      BY <2>4, SessionAssumption DEF UserOf, Sessions
    <3>2. m # n
      BY <2>1, <3>1
    <3> QED
      BY <1>0, <2>1, <3>1, <3>2
  <2>5. IdentityMatchesCookie' /\ CallsOfUser' /\ CacheOfUser'
    BY <2>1 DEF IInv, IdentityMatchesCookie, CacheOfUser, CallsOfUser
  <2>6. Answered'
    <3> SUFFICES ASSUME NEW c \in Calls, call[c].at = "ok" PROVE UserOf(call[c].as)' # Nobody
      BY <2>1 DEF Answered, UserOf
    <3>1. UserOf(call[c].as) # Nobody /\ call[c].as \in 0..MaxSessions
      BY <1>0 DEF IInv, Answered, Call
    <3>2. call[c].as # 0 /\ owner'[call[c].as] = owner[call[c].as]
      BY <2>4, <3>1
    <3> QED
      BY <2>1, <3>1, <3>2 DEF UserOf
  <2> QED
    BY <2>3, <2>5, <2>6 DEF IInv
<1>3. CASE LoginAnswer
  <2>1. login' = 0 /\ cookie' = login /\ UNCHANGED <<owner, live, logout, latch, loads, faults>>
    BY <1>3 DEF LoginAnswer, server
  <2>2. login' \in 0..MaxSessions /\ cookie' \in 0..MaxSessions
    BY <1>0, <2>1, SessionAssumption
  <2>3. CASE UserOf(login) \in Welcome
    <3>1. /\ store' = [store EXCEPT !.user = UserOf(login), !.authed = TRUE,
                                    !.resolved = TRUE, !.stripped = FALSE]
          /\ ClearCache(boot, call)
      BY <1>3, <2>3 DEF LoginAnswer
    <3>2. UserOf(login) \in Users
      BY <2>3, SessionAssumption
    <3>3. /\ store' \in Store /\ store'.user = UserOf(login) /\ store'.authed
          /\ store'.resolved /\ ~store'.stripped
      BY <1>0, <3>1, <3>2, StoreFields
    <3>4. /\ boot' \in Boot /\ call' \in [Calls -> Call] /\ \A c \in Calls : ~call'[c].cached
          /\ \A c \in Calls : call'[c].at = call[c].at /\ call'[c].as = call[c].as
          /\ cache' = {}
      BY <1>0, <3>1, ClearCacheKeeps
    <3>5. UserOf(cookie)' = UserOf(login)
      BY <2>1 DEF UserOf
    <3>6. TypeOK'
      <4>1. cache' \subseteq Users
        BY <3>4
      <4>2. store'.user # Nobody
        BY <3>2, <3>3, SessionAssumption
      <4>3. UNCHANGED <<owner, live, logout, latch, loads, faults>>
        BY <2>1
      <4> QED
        BY <2>2, <3>3, <3>4, <4>1, <4>2, <4>3 DEF IInv, TypeOK
    <3>7. Answered'
      BY <2>1, <3>4 DEF IInv, Answered, UserOf
    <3> QED
      BY <3>3, <3>4, <3>5, <3>6, <3>7 DEF IInv, IdentityMatchesCookie, CacheOfUser, CallsOfUser
  <2>4. CASE UserOf(login) \notin Welcome
    <3>1. Clear(boot, call)
      BY <1>3, <2>4 DEF LoginAnswer
    <3> QED
      BY <1>0, <2>1, <2>2, <3>1, ClearKeeps DEF server
  <2> QED
    BY <2>3, <2>4
<1>4. CASE LoginLost
  <2>1. login' = 0 /\ faults' = faults + 1
        /\ UNCHANGED <<owner, live, cookie, store, boot, logout, call, cache, latch, loads>>
    BY <1>4 DEF LoginLost, Faulty, server
  <2>2. login' \in 0..MaxSessions /\ faults' \in Nat
    BY <1>0, <2>1, SessionAssumption
  <2> QED
    BY <1>0, <2>1, <2>2
    DEF IInv, TypeOK, IdentityMatchesCookie, CacheOfUser, CallsOfUser, Answered, UserOf
<1>5. CASE LogoutSent
  <2>1. logout' \in [at: {"none", "sent", "done", "refused"}, as: 0..MaxSessions]
    BY <1>0, <1>5 DEF LogoutSent
  <2>2. store.authed /\ Marked(TRUE, store.stripped)
    BY <1>0, <1>5 DEF LogoutSent, Marked, Store
  <2>3. UNCHANGED <<owner, live, cookie, boot, login, call, cache, latch, loads, faults>>
    BY <1>5 DEF LogoutSent, server
  <2>4. store.stripped \in BOOLEAN
    BY <1>0 DEF Store
  <2> QED
    BY <1>0, <2>1, <2>2, <2>3, <2>4, MarkKeeps DEF IInv, IdentityMatchesCookie, UserOf
<1>6. CASE LogoutServed
  <2>1. logout' \in [at: {"none", "sent", "done", "refused"}, as: 0..MaxSessions]
    BY <1>0, <1>6 DEF LogoutServed
  <2>2. live' \subseteq live
    BY <1>6 DEF LogoutServed
  <2>3. UNCHANGED <<owner, cookie, store, boot, login, call, cache, latch, loads, faults>>
    BY <1>6 DEF LogoutServed
  <2> QED
    BY <1>0, <2>1, <2>2, <2>3
    DEF IInv, TypeOK, IdentityMatchesCookie, CacheOfUser, CallsOfUser, Answered, UserOf
<1>7. CASE LogoutAnswer
  <2>1. /\ logout' = NoLogout /\ cookie' = IF logout.at = "done" THEN 0 ELSE cookie
        /\ UNCHANGED <<owner, live, login, latch, loads, faults>>
    BY <1>7 DEF LogoutAnswer, server
  <2>2. cookie' \in 0..MaxSessions
    BY <1>0, <2>1, SessionAssumption
  <2>3. logout' \in [at: {"none", "sent", "done", "refused"}, as: 0..MaxSessions]
    BY <2>1, SessionAssumption DEF NoLogout
  <2>4. CASE Clear(boot, call)
    BY <1>0, <2>1, <2>2, <2>3, <2>4, ClearKeeps DEF server
  <2>5. CASE ~store.leaving
    <3>1. /\ store' = [store EXCEPT !.stripped = @ \/ Strips]
          /\ UNCHANGED <<boot, call, cache>>
      BY <1>7, <2>5 DEF LogoutAnswer
    <3> DEFINE st == store.stripped \/ Strips
    <3>2. st \in BOOLEAN /\ store' = [store EXCEPT !.stripped = st]
      BY <3>1
    <3>3. st => store.authed
      BY DEF IInv, TypeOK, Strips
    <3>4. store.authed => UserOf(cookie') = IF st THEN Nobody ELSE store.user
      <4> SUFFICES ASSUME store.authed
                   PROVE  UserOf(cookie') = IF st THEN Nobody ELSE store.user
        OBVIOUS
      <4>1. CASE logout.at = "done"
        BY <2>1, <4>1 DEF UserOf, Strips
      <4>2. CASE logout.at # "done"
        BY <2>1, <4>2 DEF IInv, IdentityMatchesCookie, UserOf, Strips
      <4> QED
        BY <4>1, <4>2
    <3>5. Marked(FALSE, st)
      <4> HIDE DEF st
      <4> QED
        BY <1>0, <2>5, <3>2 DEF Marked, Store
    <3> HIDE DEF st
    <3> QED
      BY <1>0, <2>1, <2>2, <2>3, <3>1, <3>2, <3>3, <3>4, <3>5, MarkKeeps
  <2> QED
    BY <1>7, <2>4, <2>5 DEF LogoutAnswer
<1>8. CASE LogoutLost
  <2>1. logout' \in [at: {"none", "sent", "done", "refused"}, as: 0..MaxSessions]
    BY <1>8, SessionAssumption DEF LogoutLost, NoLogout
  <2>2. faults' \in Nat
    BY <1>0, <1>8 DEF LogoutLost, Faulty
  <2>3. Marked(FALSE, store.stripped)
    BY <1>0, <1>8 DEF LogoutLost, Marked, Store
  <2>4. UNCHANGED <<owner, live, cookie, boot, login, call, cache, latch, loads>>
    BY <1>8 DEF LogoutLost, server
  <2>5. store.stripped \in BOOLEAN /\ (store.stripped => store.authed)
    BY <1>0 DEF IInv, TypeOK, Store
  <2> QED
    BY <1>0, <2>1, <2>2, <2>3, <2>4, <2>5, MarkKeeps DEF IInv, IdentityMatchesCookie, UserOf
<1> QED
  BY <1>1, <1>2, <1>3, <1>4, <1>5, <1>6, <1>7, <1>8 DEF SessionStep

LEMMA CallStepKeeps == ASSUME IInv, CallStep PROVE IInv'
<1>0. /\ owner \in [Sessions -> Users \cup {Nobody}]
      /\ live \subseteq {n \in Sessions : owner[n] # Nobody}
      /\ cookie \in 0..MaxSessions /\ login \in 0..MaxSessions
      /\ store \in Store /\ boot \in Boot /\ call \in [Calls -> Call]
      /\ logout \in [at: {"none", "sent", "done", "refused"}, as: 0..MaxSessions]
      /\ latch \in BOOLEAN /\ loads \in Nat /\ faults \in Nat
  BY DEF IInv, TypeOK
<1>1. CASE ReleaseLatch
  BY <1>0, <1>1, BootKeeps DEF ReleaseLatch, server
<1>2. ASSUME NEW c \in Calls, NEW new, call' = [call EXCEPT ![c] = new], new \in Call,
             new.at # "none" /\ new.cached
               => store.authed /\ UserOf(new.as) \in {store.user, Nobody},
             new.at = "ok" => UserOf(new.as) # Nobody,
             UNCHANGED <<owner, live, cookie, store, boot, login, logout, cache, latch, loads>>,
             faults' \in Nat
      PROVE  IInv'
  <2>1. call' \in [Calls -> Call]
    BY <1>0, <1>2
  <2>2. TypeOK'
    BY <1>0, <1>2, <2>1 DEF IInv, TypeOK
  <2>3. CallsOfUser'
    <3> SUFFICES ASSUME NEW d \in Calls, call'[d].at # "none", call'[d].cached
                 PROVE  store.authed /\ UserOf(call'[d].as) \in {store.user, Nobody}
      BY <1>2 DEF CallsOfUser, UserOf
    <3>1. CASE d = c
      BY <1>0, <1>2, <3>1
    <3>2. CASE d # c
      BY <1>0, <1>2, <3>2 DEF IInv, CallsOfUser
    <3> QED
      BY <3>1, <3>2
  <2>4. Answered'
    <3> SUFFICES ASSUME NEW d \in Calls, call'[d].at = "ok" PROVE UserOf(call'[d].as) # Nobody
      BY <1>2 DEF Answered, UserOf
    <3>1. CASE d = c
      BY <1>0, <1>2, <3>1
    <3>2. CASE d # c
      BY <1>0, <1>2, <3>2 DEF IInv, Answered
    <3> QED
      BY <3>1, <3>2
  <2> QED
    BY <1>2, <2>2, <2>3, <2>4 DEF IInv, IdentityMatchesCookie, CacheOfUser, UserOf
<1>3. ASSUME NEW c \in Calls, Send(c) PROVE IInv'
  <2> DEFINE new == [at |-> "sent", as |-> cookie, cached |-> TRUE]
  <2>1. new \in Call
    BY <1>0 DEF Call
  <2>2. store.authed /\ UserOf(cookie) \in {store.user, Nobody}
    BY <1>3 DEF Send, IInv, IdentityMatchesCookie
  <2>3. /\ call' = [call EXCEPT ![c] = new] /\ faults' \in Nat
        /\ UNCHANGED <<owner, live, cookie, store, boot, login, logout, cache, latch, loads>>
    BY <1>0, <1>3 DEF Send, server
  <2> QED
    BY <1>2, <2>1, <2>2, <2>3
<1>4. ASSUME NEW c \in Calls, Judge(c) PROVE IInv'
  <2> DEFINE at == IF call[c].as \in live THEN "ok" ELSE "refused"
             new == [call[c] EXCEPT !.at = at]
  <2>1. call[c].at = "sent" /\ call[c] \in Call
    BY <1>0, <1>4 DEF Judge
  <2>2. /\ call' = [call EXCEPT ![c] = new] /\ faults' \in Nat
        /\ UNCHANGED <<owner, live, cookie, store, boot, login, logout, cache, latch, loads>>
    BY <1>0, <1>4 DEF Judge, server
  <2>3. at \in {"ok", "refused"}
    OBVIOUS
  <2> HIDE DEF at
  <2>4. new \in Call /\ new.as = call[c].as /\ new.cached = call[c].cached
    BY <2>1, <2>3 DEF Call
  <2>5. call[c].cached => store.authed /\ UserOf(call[c].as) \in {store.user, Nobody}
    BY <2>1 DEF IInv, CallsOfUser
  <2>6. new.at = "ok" => UserOf(new.as) # Nobody
    <3> SUFFICES ASSUME new.at = "ok" PROVE UserOf(new.as) # Nobody
      OBVIOUS
    <3>1. call[c].as \in live
      BY <2>1 DEF at, Call
    <3> QED
      BY <1>0, <2>4, <3>1, SessionAssumption DEF UserOf, Sessions
  <2> HIDE DEF new
  <2> QED
    BY <1>2, <2>2, <2>4, <2>5, <2>6
<1>5. ASSUME NEW c \in Calls, Fail(c) PROVE IInv'
  <2>1. /\ call' = [call EXCEPT ![c] = NoCall] /\ faults' = faults + 1
        /\ UNCHANGED <<owner, live, cookie, store, boot, login, logout, cache, latch, loads>>
    BY <1>5 DEF Fail, Faulty, server
  <2>2. faults' \in Nat
    BY <1>0, <2>1
  <2> QED
    BY <1>2, <2>1, <2>2, NoCallIs
<1>6. ASSUME NEW c \in Calls, Deliver(c) PROVE IInv'
  <2> DEFINE calls == [call EXCEPT ![c] = NoCall]
  <2>0. \A d \in Calls : calls[d] = call[d] \/ calls[d].at = "none"
    BY <1>0, NoCallIs
  <2>1. calls \in [Calls -> Call]
    BY <1>0, NoCallIs
  <2>2. UNCHANGED <<owner, live, cookie, login, logout, loads, faults>>
    BY <1>6 DEF Deliver, server
  <2>3. CASE /\ call[c].at = "ok"
             /\ cache' = IF call[c].cached THEN cache \cup {UserOf(call[c].as)} ELSE cache
             /\ call' = calls
             /\ UNCHANGED <<store, boot, latch>>
    <3>1. call[c].cached => store.authed /\ UserOf(call[c].as) = store.user
      BY <2>3 DEF IInv, CallsOfUser, Answered
    <3>2. store.authed => store.user \in Users
      BY <1>0 DEF IInv, TypeOK, Store
    <3>3. cache' \subseteq Users /\ CacheOfUser'
      BY <2>3, <3>1, <3>2 DEF IInv, TypeOK, CacheOfUser
    <3>4. \A d \in Calls : call'[d] = call[d] \/ call'[d].at = "none"
      BY <1>0, <2>3, NoCallIs
    <3>5. CallsOfUser' /\ Answered'
      BY <2>2, <2>3, <3>4 DEF IInv, CallsOfUser, Answered, UserOf
    <3>6. TypeOK'
      BY <1>0, <2>1, <2>2, <2>3, <3>3 DEF IInv, TypeOK
    <3>7. IdentityMatchesCookie'
      BY <2>2, <2>3 DEF IInv, IdentityMatchesCookie, UserOf
    <3> QED
      BY <3>3, <3>5, <3>6, <3>7 DEF IInv
  <2>4. CASE Unauthorized(boot, calls)
    <3>1. latch' \in BOOLEAN
      BY <2>4 DEF Unauthorized
    <3>2. CASE Clear(boot, calls)
      BY <1>0, <2>0, <2>1, <2>2, <3>1, <3>2, ClearKeeps DEF server
    <3>3. CASE boot' = boot /\ call' = calls /\ UNCHANGED <<store, cache>>
      <4>1. \A d \in Calls : call'[d] = call[d] \/ call'[d].at = "none"
        BY <1>0, <3>3, NoCallIs
      <4>2. TypeOK'
        BY <1>0, <2>1, <2>2, <3>1, <3>3 DEF IInv, TypeOK
      <4> QED
        BY <2>2, <3>3, <4>1, <4>2
        DEF IInv, IdentityMatchesCookie, CacheOfUser, CallsOfUser, Answered, UserOf
    <3> QED
      BY <2>4, <3>2, <3>3 DEF Unauthorized
  <2> QED
    BY <1>6, <2>3, <2>4 DEF Deliver
<1> QED
  BY <1>1, <1>3, <1>4, <1>5, <1>6 DEF CallStep

LEMMA IInvHolds == Spec => []IInv
<1>1. IInv /\ UNCHANGED vars => IInv'
  BY DEF vars, server, IInv, TypeOK, IdentityMatchesCookie, CacheOfUser, CallsOfUser, Answered,
         UserOf
<1>2. IInv /\ [Next]_vars => IInv'
  BY <1>1, LoadStepKeeps, SessionStepKeeps, CallStepKeeps DEF Next
<1> QED
  BY <1>2, InitIInv, PTL DEF Spec

-----------------------------------------------------------------------------
(* The properties *)

\* Types; a session that is authenticated is resolved and has a user.
THEOREM SessionTypeCorrect == Spec => []TypeOK
BY IInvHolds, PTL DEF IInv

\* The user the application shows is the one the gateway acts for.
THEOREM IdentityHolds == Spec => []IdentityMatchesCookie
BY IInvHolds, PTL DEF IInv

\* The query cache never shows one user another's data, however late answers are.
THEOREM CacheOfUserHolds == Spec => []CacheOfUser
BY IInvHolds, PTL DEF IInv

=============================================================================
