--------------------------- MODULE AccountBoundary ---------------------------
(***************************************************************************)
(* One browser tab's account boundary: the identity query "me", the        *)
(* private data cached under it, the private reads and writes on their way *)
(* to the server, and the login and logout that change who is signed in.   *)
(* The session cookie is shared with the browser's other tabs, which sign  *)
(* in and out on their own.  Private data is abstracted to whose it is.    *)
(***************************************************************************)
EXTENDS Naturals

CONSTANTS
  Users,      \* the accounts
  Slots,      \* the requests the tab may have under way at once
  MaxLogins,  \* sessions the server opens
  MaxFaults,  \* lost requests and sessions ended elsewhere
  None,       \* nobody: signed out, or no session
  Unset       \* not read yet

ASSUME BoundaryAssumption ==
  /\ MaxLogins \in Nat \ {0} /\ MaxFaults \in Nat
  /\ None \notin Users /\ Unset \notin Users \cup {None}

VARIABLES
  sessions,  \* the server's live sessions, by token
  issued,    \* how many tokens the server has given out
  cookie,    \* the token the browser holds, 0 is none
  tab,       \* the identity query, the cache generation and the cached data
  calls,     \* the tab's requests, by slot
  held,      \* ownership tokens captured by the private hooks of the tab
  faults,
  hist       \* history: the writes served, by whom begun and to whose data;
             \* since the identity was last asked for, whether the session
             \* changed unseen by the tab, and whether a sign-out of the tab's
             \* own took the cookie of another account on screen

vars == <<sessions, issued, cookie, tab, calls, held, faults, hist>>

Tokens == 1..MaxLogins
Owner(t) == IF t \in Tokens THEN sessions[t] ELSE None
Ownership == [owner: Users \cup {None, Unset}, gen: Nat]
Leaving == {"logout", "signout"}

Call == [kind: {"none", "me", "read", "write", "login"} \cup Leaving,
         st: {"unsent", "sent", "ok", "401", "409", "lost"},
         as: Nat, exp: Users \cup {None, Unset}, own: Ownership,
         prev: Users \cup {Unset}, body: Users \cup {None, Unset}, all: BOOLEAN]

Free == [kind |-> "none", st |-> "unsent", as |-> 0, exp |-> Unset,
         own |-> [owner |-> Unset, gen |-> 0], prev |-> Unset,
         body |-> Unset, all |-> FALSE]

Pending(kinds) == \E s \in Slots : calls[s].kind \in kinds
-----------------------------------------------------------------------------
(* The query cache, react-query's and the tab's own handlers on it.        *)

\* Fault: a read is forgotten, the identity's is not.
cancelPrivateQueries(cs, kinds) ==
  [s \in Slots |-> IF cs[s].kind \in kinds \ {"me"} THEN Free ELSE cs[s]]

\* cancelQueries: the requests of the cancelled queries are forgotten.
cancelQueries(cs, kinds) ==
  [s \in Slots |-> IF cs[s].kind \in kinds THEN Free ELSE cs[s]]

\* The cache of every private query goes at once and the generation moves on.
discardPrivateQueryData(t) == [t EXCEPT !.gen = @ + 1, !.cache = Unset]

\* AuthSessionCacheBoundary's subscription to the identity query: another
\* owner than the one before discards what was cached under that one.
ownerChanges(t, data) == t.data # Unset /\ t.data # data

setMe(t, data) ==
  [(IF ownerChanges(t, data) THEN discardPrivateQueryData(t) ELSE t)
     EXCEPT !.data = data, !.error = FALSE]

setMeCalls(t, cs, data) ==
  IF ownerChanges(t, data) THEN cancelQueries(cs, {"read"}) ELSE cs

\* accountBoundFetch: a private request names the displayed owner.
accountBoundFetch(kind) ==
  [Free EXCEPT !.kind = kind, !.st = "sent", !.as = cookie, !.exp = tab.data]

fetchMe == [Free EXCEPT !.kind = "me", !.st = "sent", !.as = cookie]

\* invalidateQueries on the identity: its read is issued again, in the slot
\* given; a first read still under way is left to finish.
invalidateMe(cs, s) ==
  IF tab.data = Unset /\ \E r \in Slots \ {s} : cs[r].kind = "me"
  THEN [cs EXCEPT ![s] = Free]
  ELSE [cancelQueries(cs, {"me"}) EXCEPT ![s] = fetchMe]

\* Fault: whoever the mutation began under is taken for the one displayed.
isAnyones(own) == TRUE

\* capturePrivateMutationOwnership and its isCurrent.
capturePrivateMutationOwnership == [owner |-> tab.data, gen |-> tab.gen]
isCurrent(own) == own = capturePrivateMutationOwnership

\* RequireAuth: the private pages are on screen.
Mounted == tab.data \in Users /\ ~tab.error

Init ==
  /\ \E u \in Users \cup {None} :
       /\ sessions = [t \in Tokens |-> IF t = 1 THEN u ELSE None]
       /\ issued = IF u = None THEN 0 ELSE 1
       /\ cookie = issued
  /\ tab = [data |-> Unset, error |-> FALSE, check |-> FALSE, gen |-> 0,
            cache |-> Unset]
  /\ \E s \in Slots :
       calls = [r \in Slots |-> IF r = s THEN fetchMe ELSE Free]
  /\ held = {}
  /\ faults = 0
  /\ hist = [writes |-> {}, behind |-> FALSE, taken |-> FALSE]
-----------------------------------------------------------------------------
(* The identity query.                                                     *)

\* The identity is asked for with the cookie as it is.
asked == [hist EXCEPT !.behind = FALSE, !.taken = FALSE]

\* The window is focused once the identity is stale, or Retry is clicked.
Focus(s) ==
  /\ calls[s] = Free /\ ~Pending({"me"})
  /\ calls' = [calls EXCEPT ![s] = fetchMe]
  /\ hist' = asked
  /\ UNCHANGED <<sessions, issued, cookie, tab, held, faults>>

\* source.onerror: the event stream broke, so the identity is read, unless a
\* check is running; a read under way is shared.
EventsError(s) ==
  /\ Mounted /\ ~tab.check /\ calls[s] = Free
  /\ tab' = [tab EXCEPT !.check = TRUE]
  /\ IF Pending({"me"})
     THEN UNCHANGED <<calls, hist>>
     ELSE /\ calls' = [calls EXCEPT ![s] = fetchMe]
          /\ hist' = asked
  /\ UNCHANGED <<sessions, issued, cookie, held, faults>>

\* fetchMe's answer: 401 is "signed out"; a failure keeps the old data and, when
\* the event stream's check waits for it, the identity is read once more.
MeReturns(s) ==
  /\ calls[s].kind = "me"
  /\ \/ /\ calls[s].st \in {"ok", "401"}
        /\ tab' = [setMe(tab, calls[s].body) EXCEPT !.check = FALSE]
        /\ calls' = [setMeCalls(tab, calls, calls[s].body) EXCEPT ![s] = Free]
        /\ UNCHANGED hist
     \/ /\ calls[s].st = "lost"
        /\ tab' = [tab EXCEPT !.error = TRUE, !.check = FALSE]
        /\ calls' = [calls EXCEPT ![s] = IF tab.check THEN fetchMe ELSE Free]
        /\ hist' = IF tab.check THEN asked ELSE hist
  /\ UNCHANGED <<sessions, issued, cookie, held, faults>>

\* The identity is read again because of an answer in slot s.
Reread(s) ==
  /\ calls' = invalidateMe(calls, s)
  /\ hist' = IF calls'[s].kind = "me" THEN asked
             ELSE hist
-----------------------------------------------------------------------------
(* Private reads and writes.                                               *)

Read(s) ==
  /\ Mounted /\ calls[s] = Free /\ ~Pending({"read"})
  /\ calls' = [calls EXCEPT ![s] = accountBoundFetch("read")]
  /\ UNCHANGED <<sessions, issued, cookie, tab, held, faults, hist>>

ReadReturns(s) ==
  /\ calls[s].kind = "read" /\ calls[s].st \notin {"unsent", "sent"}
  /\ tab' = IF calls[s].st = "ok" THEN [tab EXCEPT !.cache = calls[s].body]
            ELSE tab
  /\ IF calls[s].st = "409" THEN Reread(s)
     ELSE calls' = [calls EXCEPT ![s] = Free] /\ UNCHANGED hist
  /\ UNCHANGED <<sessions, issued, cookie, held, faults>>

\* A component with a private mutation mounts: its hook remembers for whom.
Mount ==
  /\ Mounted
  /\ held' = held \cup {capturePrivateMutationOwnership}
  /\ UNCHANGED <<sessions, issued, cookie, tab, calls, faults, hist>>

\* invoke: a hook of the tab, or a callback kept from an old one, starts a
\* mutation; another owner's is rejected.  It then waits for the cancelled
\* reads, or in the queue behind an earlier update of the same item.
invoke(s, own) ==
  /\ own \in held /\ isCurrent(own) /\ calls[s] = Free
  /\ calls' = [calls EXCEPT ![s] = [Free EXCEPT !.kind = "write", !.own = own]]
  /\ UNCHANGED <<sessions, issued, cookie, tab, held, faults, hist>>

\* Fault: the owner is not asserted after the wait.
mutationFnUnasserted(s) ==
  /\ calls[s].kind = "write" /\ calls[s].st = "unsent"
  /\ calls' = [cancelQueries(calls, {"read"}) EXCEPT ![s] =
                 [accountBoundFetch("write") EXCEPT
                    !.own = calls[s].own, !.prev = tab.cache]]
  /\ tab' = [tab EXCEPT !.cache = tab.data]
  /\ UNCHANGED <<sessions, issued, cookie, held, faults, hist>>

\* onMutate and mutationFn after the wait: assertCurrent, then the optimistic
\* write, with the snapshot it may be rolled back to, and the request.
mutationFn(s) ==
  /\ calls[s].kind = "write" /\ calls[s].st = "unsent"
  /\ IF isCurrent(calls[s].own)
     THEN /\ calls' = [cancelQueries(calls, {"read"}) EXCEPT ![s] =
                         [accountBoundFetch("write") EXCEPT
                            !.own = calls[s].own, !.prev = tab.cache]]
          /\ tab' = [tab EXCEPT !.cache = tab.data]
     ELSE calls' = [calls EXCEPT ![s] = Free] /\ UNCHANGED tab
  /\ UNCHANGED <<sessions, issued, cookie, held, faults, hist>>

\* onSuccess stores the row, onError rolls back, both only for the owner they
\* began under; a refused account rereads the identity whoever is displayed.
WriteReturns(s) ==
  /\ calls[s].kind = "write" /\ calls[s].st \notin {"unsent", "sent"}
  /\ tab' = IF ~isCurrent(calls[s].own) THEN tab
            ELSE [tab EXCEPT !.cache = IF calls[s].st = "ok"
                                       THEN calls[s].body ELSE calls[s].prev]
  /\ IF \/ calls[s].st = "409"
        \/ calls[s].st = "401" /\ isCurrent(calls[s].own)
     THEN Reread(s)
     ELSE calls' = [calls EXCEPT ![s] = Free] /\ UNCHANGED hist
  /\ UNCHANGED <<sessions, issued, cookie, held, faults>>
-----------------------------------------------------------------------------
(* Signing in and out.                                                     *)

\* The login form is on screen when nobody is displayed.
login(s, u) ==
  /\ tab.data = None /\ calls[s] = Free /\ ~Pending({"login"})
  /\ calls' = [calls EXCEPT ![s] =
                 [Free EXCEPT !.kind = "login", !.st = "sent", !.body = u]]
  /\ UNCHANGED <<sessions, issued, cookie, tab, held, faults, hist>>

\* useLogin's onSuccess: the cookie has arrived with the answer; everything
\* private goes, the identity's read with it, and the identity is read.
LoginReturns(s) ==
  /\ calls[s].kind = "login" /\ calls[s].st \in {"ok", "lost"}
  /\ \/ /\ calls[s].st = "ok"
        /\ cookie' = calls[s].as
        /\ tab' = discardPrivateQueryData(tab)
        /\ calls' = [cancelQueries(calls, {"me", "read"}) EXCEPT
                       ![s] = [fetchMe EXCEPT !.as = calls[s].as]]
        /\ hist' = asked
     \/ /\ calls[s].st = "lost"
        /\ calls' = [calls EXCEPT ![s] = Free]
        /\ UNCHANGED <<cookie, tab, hist>>
  /\ UNCHANGED <<sessions, issued, held, faults>>

\* useLogout, and the account page's sign-out, sign-out everywhere, new
\* password and deletion, which end every session of the account.
logout(s, kind, all) ==
  /\ tab.data \in Users /\ calls[s] = Free /\ ~Pending(Leaving)
  /\ all => kind = "signout"
  /\ calls' = [calls EXCEPT ![s] =
                 [accountBoundFetch(kind) EXCEPT !.all = all]]
  /\ UNCHANGED <<sessions, issued, cookie, tab, held, faults, hist>>

\* A late logout of one account leaves another one's display alone; its answer
\* takes the browser's cookie all the same.
LogoutReturns(s) ==
  /\ calls[s].kind \in Leaving /\ calls[s].st \notin {"unsent", "sent"}
  /\ \/ /\ calls[s].st = "ok"
        /\ cookie' = 0
        /\ IF tab.data \in Users \ {calls[s].exp}
           THEN /\ calls' = [calls EXCEPT ![s] = Free]
                /\ hist' = [hist EXCEPT !.taken = TRUE]
                /\ UNCHANGED tab
           ELSE /\ tab' = setMe(discardPrivateQueryData(tab), None)
                /\ calls' = [cancelQueries(calls, {"me", "read"}) EXCEPT
                               ![s] = Free]
                /\ UNCHANGED hist
     \/ /\ \/ calls[s].st = "409"
           \/ calls[s].st = "401" /\ calls[s].kind = "signout"
        /\ Reread(s)
        /\ UNCHANGED <<cookie, tab>>
     \/ /\ \/ calls[s].st = "lost"
           \/ calls[s].st = "401" /\ calls[s].kind = "logout"
        /\ calls' = [calls EXCEPT ![s] = Free]
        /\ UNCHANGED <<cookie, tab, hist>>
  /\ UNCHANGED <<sessions, issued, held, faults>>
-----------------------------------------------------------------------------
(* The server and the other tabs.                                          *)

Revoked(dead) == [t \in Tokens |-> IF t \in dead THEN None ELSE sessions[t]]

Answer(s, st, body) ==
  calls' = [calls EXCEPT ![s].st = st, ![s].body = body]

\* GET /v1/me takes no expected account.
ServeMe(s) ==
  /\ calls[s].kind = "me" /\ calls[s].st = "sent"
  /\ Answer(s, IF Owner(calls[s].as) = None THEN "401" ELSE "ok",
            Owner(calls[s].as))
  /\ UNCHANGED <<sessions, issued, cookie, tab, held, faults, hist>>

\* require_expected_user: the session's account is the one the page named.
require_expected_user(s) ==
  CASE Owner(calls[s].as) = None -> "401"
    [] Owner(calls[s].as) # None /\ Owner(calls[s].as) # calls[s].exp -> "409"
    [] OTHER -> "ok"

ServePrivate(s) ==
  LET st == require_expected_user(s)
      who == Owner(calls[s].as)
  IN  /\ calls[s].kind \in {"read", "write"} /\ calls[s].st = "sent"
      /\ Answer(s, st, IF st = "ok" THEN who ELSE Unset)
      /\ hist' = IF st = "ok" /\ calls[s].kind = "write"
                 THEN [hist EXCEPT !.writes = @ \cup
                         {[by |-> calls[s].own.owner, to |-> who]}]
                 ELSE hist
      /\ UNCHANGED <<sessions, issued, cookie, tab, held, faults>>

ServeLogout(s) ==
  LET st == require_expected_user(s)
      who == Owner(calls[s].as)
  IN  /\ calls[s].kind \in Leaving /\ calls[s].st = "sent"
      /\ Answer(s, st, Unset)
      /\ sessions' =
           IF st # "ok" THEN sessions
           ELSE Revoked(IF calls[s].all
                        THEN {t \in Tokens : sessions[t] = who}
                        ELSE {calls[s].as})
      /\ UNCHANGED <<issued, cookie, tab, held, faults, hist>>

ServeLogin(s) ==
  /\ calls[s].kind = "login" /\ calls[s].st = "sent" /\ issued < MaxLogins
  /\ issued' = issued + 1
  /\ sessions' = [sessions EXCEPT ![issued + 1] = calls[s].body]
  /\ calls' = [calls EXCEPT ![s].st = "ok", ![s].as = issued + 1]
  /\ UNCHANGED <<cookie, tab, held, faults, hist>>

\* Another tab of the browser signs in, and the cookie is the browser's.
OtherLogin(u) ==
  /\ issued < MaxLogins
  /\ issued' = issued + 1
  /\ sessions' = [sessions EXCEPT ![issued + 1] = u]
  /\ cookie' = issued + 1
  /\ hist' = [hist EXCEPT !.behind = TRUE]
  /\ UNCHANGED <<tab, calls, held, faults>>

\* Another tab signs out, or the session expires or is ended elsewhere.
OtherLogout ==
  /\ faults < MaxFaults
  /\ Owner(cookie) # None
  /\ faults' = faults + 1
  /\ sessions' = Revoked({cookie})
  /\ cookie' \in {0, cookie}
  /\ hist' = [hist EXCEPT !.behind = TRUE]
  /\ UNCHANGED <<issued, tab, calls, held>>

\* A request is lost before the server sees it, or its answer after.
Lose(s) ==
  /\ faults < MaxFaults
  /\ calls[s].kind # "none" /\ calls[s].st \in {"sent", "ok"}
  /\ faults' = faults + 1
  /\ Answer(s, "lost", Unset)
  /\ hist' = IF calls[s].kind \in Leaving /\ calls[s].st = "ok"
             THEN [hist EXCEPT !.behind = TRUE] ELSE hist
  /\ UNCHANGED <<sessions, issued, cookie, tab, held>>
-----------------------------------------------------------------------------
Tab(s) ==
  \/ MeReturns(s) \/ Focus(s) \/ EventsError(s)
  \/ Read(s) \/ ReadReturns(s)
  \/ mutationFn(s) \/ WriteReturns(s) \/ \E own \in held : invoke(s, own)
  \/ \E u \in Users : login(s, u)
  \/ LoginReturns(s) \/ LogoutReturns(s)
  \/ \E kind \in Leaving, all \in BOOLEAN : logout(s, kind, all)

Server(s) ==
  ServeMe(s) \/ ServePrivate(s) \/ ServeLogin(s) \/ ServeLogout(s) \/ Lose(s)

Next ==
  \/ \E s \in Slots : Tab(s) \/ Server(s)
  \/ Mount \/ OtherLogout
  \/ \E u \in Users : OtherLogin(u)

Spec == Init /\ [][Next]_vars
-----------------------------------------------------------------------------
\* The server's sessions, the identity and the requests have their types: no
\* step leaves the cache with an owner who is not an account.
TypeOK ==
  /\ sessions \in [Tokens -> Users \cup {None}]
  /\ issued \in 0..MaxLogins /\ cookie \in 0..MaxLogins
  /\ tab \in [data: Users \cup {None, Unset}, error: BOOLEAN,
              check: BOOLEAN, gen: Nat, cache: Users \cup {Unset}]
  /\ calls \in [Slots -> Call]
  /\ held \subseteq Ownership
  /\ faults \in 0..MaxFaults
  /\ hist \in [writes: SUBSET [by: Users \cup {None, Unset}, to: Users],
               behind: BOOLEAN, taken: BOOLEAN]

\* What is cached, and what the screen shows of it, is the displayed account's:
\* no late read, optimistic write, rollback or stored row of another one.
CacheIsOwners == tab.cache \in {Unset, tab.data}

\* A change begun while one account was displayed is never made to another
\* account's data, however long it waited and whoever signed in since.
WritesStayHome == \A w \in hist.writes : w.by = w.to

\* Once nothing is under way, the account displayed is the one signed in.  The
\* exceptions last until the identity is next asked for: a login, a sign-out or
\* an expiry that happened outside the tab, or a sign-out of its own whose answer
\* was lost; and a late sign-out of the tab, whose answer takes the cookie of the
\* account that has signed in meanwhile (useLogout spares its display but cannot
\* spare its session).  Then the account on screen has no session, but no other
\* account has one either.
DisplayIsTrue ==
  (/\ tab.data # Unset /\ ~tab.error /\ ~hist.behind
   /\ ~Pending({"me", "login"} \cup Leaving))
    => \/ tab.data = Owner(cookie)
       \/ hist.taken /\ Owner(cookie) = None

\* A late sign-out of one account does not end a session that another one has
\* just established: what useLogout says of itself.  It does end it: the answer
\* deletes the browser's cookie, whoever's that is.
LateSignOutSpares ==
  [][\A s \in Slots :
       (/\ LogoutReturns(s) /\ calls[s].st = "ok"
        /\ Owner(cookie) \in Users \ {calls[s].exp})
         => cookie' = cookie]_vars
=============================================================================
