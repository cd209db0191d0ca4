---------------------------- MODULE AccountProof ----------------------------
(***************************************************************************)
(* The account boundary holds for every number of accounts, requests,      *)
(* logins and faults: the cache is the displayed account's, no change      *)
(* reaches another account than the one it was begun under, and the        *)
(* account displayed is the one that is signed in.                         *)
(***************************************************************************)
EXTENDS AccountBoundary, TLAPS

\* What a request may be while d is displayed.  A private read is for d, since
\* the reads of an earlier account were cancelled when d came; a write that
\* was sent names the account it began under, answers with that account's row
\* and rolls back to that account's data.
CallOK(c, d) ==
  /\ c \in Call
  /\ c.kind = "login" /\ c.st = "sent" => c.body \in Users
  /\ c.kind = "login" /\ c.st = "ok" => c.as \in Tokens
  /\ c.kind = "read" => c.exp = d /\ d \in Users /\ (c.st = "ok" => c.body = d)
  /\ c.kind = "write" => c.own.owner \in Users
  /\ c.kind = "write" /\ c.st # "unsent" =>
       /\ c.exp = c.own.owner
       /\ c.prev \in {Unset, c.own.owner}
       /\ c.st = "ok" => c.body = c.own.owner


\* Every request is one of these.
AllOK(cs, d) == cs \in [Slots -> Call] /\ \A r \in Slots : CallOK(cs[r], d)

\* The inductive invariant: CacheIsOwners and WritesStayHome only hold on
\* because of what is known of every request under way and of every hook.
IInv ==
  /\ TypeOK
  /\ CacheIsOwners
  /\ WritesStayHome
  /\ AllOK(calls, tab.data)
  /\ \A own \in held : own.owner \in Users
-----------------------------------------------------------------------------
(* The requests.                                                           *)

\* A free slot is in order, whoever is displayed (Free).
LEMMA FreeOK ==
  ASSUME NEW d
  PROVE  CallOK(Free, d)
BY DEF CallOK, Call, Free, Ownership, Leaving

\* A read of the identity is in order, whoever is displayed (fetchMe).
LEMMA FetchMeOK ==
  ASSUME NEW d, cookie \in 0..MaxLogins
  PROVE  CallOK(fetchMe, d)
<1>1. cookie \in Nat
  BY BoundaryAssumption
<1>2. Free \in Call
  BY FreeOK DEF CallOK
<1>3. fetchMe \in Call /\ fetchMe.kind = "me"
  BY <1>1, <1>2 DEF fetchMe, Call
<1> QED
  BY <1>3 DEF CallOK

\* A slot that is given a request in order.
LEMMA SetOne ==
  ASSUME NEW cs, NEW d, AllOK(cs, d), NEW s \in Slots, NEW c, CallOK(c, d)
  PROVE  AllOK([cs EXCEPT ![s] = c], d)
<1>1. c \in Call
  BY DEF CallOK
<1>2. \A r \in Slots : [cs EXCEPT ![s] = c][r] = IF r = s THEN c ELSE cs[r]
  BY DEF AllOK
<1> QED
  BY <1>1, <1>2 DEF AllOK

\* Cancelling queries leaves the others' requests as they are (cancelQueries).
LEMMA CancelOK ==
  ASSUME NEW cs, NEW d, AllOK(cs, d), NEW kinds
  PROVE  AllOK(cancelQueries(cs, kinds), d)
<1>1. Free \in Call
  BY FreeOK DEF CallOK
<1>2. \A r \in Slots : cancelQueries(cs, kinds)[r] \in {cs[r], Free}
  BY DEF cancelQueries
<1>3. cancelQueries(cs, kinds) \in [Slots -> Call]
  BY <1>1 DEF cancelQueries, AllOK
<1> QED
  BY <1>2, <1>3, FreeOK DEF AllOK

\* Once the private reads are cancelled, nothing under way depends on who is
\* displayed (cancelQueries on PRIVATE_QUERY_ROOT).
LEMMA CancelReadsOK ==
  ASSUME NEW cs, NEW d, NEW e, AllOK(cs, d), NEW kinds, "read" \in kinds
  PROVE  AllOK(cancelQueries(cs, kinds), e)
<1>1. AllOK(cancelQueries(cs, kinds), d)
  BY CancelOK
<1>2. \A r \in Slots : cancelQueries(cs, kinds)[r].kind # "read"
  BY DEF cancelQueries, Free
<1> QED
  BY <1>1, <1>2 DEF AllOK, CallOK
\* The identity is asked for anew: nothing has happened to the session since.
LEMMA AskedOK ==
  ASSUME hist \in [writes: SUBSET [by: Users \cup {None, Unset}, to: Users],
                   behind: BOOLEAN, taken: BOOLEAN]
  PROVE  /\ asked \in [writes: SUBSET [by: Users \cup {None, Unset}, to: Users],
                       behind: BOOLEAN, taken: BOOLEAN]
         /\ asked.writes = hist.writes /\ ~asked.behind /\ ~asked.taken
BY DEF asked

\* The identity is read again after a refusal (handleAccountChanged).
LEMMA RereadOK ==
  ASSUME IInv, NEW s \in Slots, Reread(s)
  PROVE  /\ AllOK(calls', tab.data)
         /\ hist' \in [writes: SUBSET [by: Users \cup {None, Unset}, to: Users],
                       behind: BOOLEAN, taken: BOOLEAN]
         /\ hist'.writes = hist.writes
<1>1. CallOK(fetchMe, tab.data)
  BY FetchMeOK DEF IInv, TypeOK
<1>2. AllOK([calls EXCEPT ![s] = Free], tab.data)
  BY SetOne, FreeOK DEF IInv
<1>3. AllOK(cancelQueries(calls, {"me"}), tab.data)
  BY CancelOK DEF IInv
<1>4. AllOK([cancelQueries(calls, {"me"}) EXCEPT ![s] = fetchMe], tab.data)
  BY <1>1, <1>3, SetOne
<1>5. AllOK(calls', tab.data)
  BY <1>2, <1>4 DEF Reread, invalidateMe
<1>6. hist' \in {hist, asked}
  BY DEF Reread
<1> QED
  BY <1>5, <1>6, AskedOK DEF IInv, TypeOK
-----------------------------------------------------------------------------
(* The initial states and the steps.                                       *)

\* The tab starts with nothing cached and its identity being read (Init).
LEMMA InitOK == Init => IInv
<1> SUFFICES ASSUME Init PROVE IInv
  OBVIOUS
<1>1. PICK u \in Users \cup {None} :
        /\ sessions = [t \in Tokens |-> IF t = 1 THEN u ELSE None]
        /\ issued = IF u = None THEN 0 ELSE 1
        /\ cookie = issued
  BY DEF Init
<1>2. cookie \in 0..MaxLogins /\ issued \in 0..MaxLogins
  BY <1>1, BoundaryAssumption
<1>3. sessions \in [Tokens -> Users \cup {None}]
  BY <1>1
<1>4. CallOK(fetchMe, tab.data) /\ CallOK(Free, tab.data)
  BY <1>2, FetchMeOK, FreeOK
<1>5. PICK s \in Slots : calls = [r \in Slots |-> IF r = s THEN fetchMe ELSE Free]
  BY DEF Init
<1>6. AllOK(calls, tab.data)
  BY <1>4, <1>5 DEF AllOK, CallOK
<1>7. TypeOK
  BY <1>2, <1>3, <1>6, BoundaryAssumption DEF TypeOK, Init, AllOK
<1> QED
  BY <1>6, <1>7 DEF IInv, Init, CacheIsOwners, WritesStayHome

\* A focus, or Retry, reads the identity (Focus).
LEMMA FocusOK ==
  ASSUME IInv, NEW s \in Slots, Focus(s)
  PROVE  IInv'
<1>1. CallOK(fetchMe, tab.data)
  BY FetchMeOK DEF IInv, TypeOK
<1>2. AllOK(calls', tab'.data)
  BY <1>1, SetOne DEF IInv, Focus
<1>3. TypeOK'
  BY <1>2, AskedOK DEF IInv, TypeOK, Focus, AllOK
<1> QED
  BY <1>2, <1>3, AskedOK DEF IInv, Focus, CacheIsOwners, WritesStayHome, TypeOK

\* The event stream's error handler reads the identity (EventsError).
LEMMA EventsErrorOK ==
  ASSUME IInv, NEW s \in Slots, EventsError(s)
  PROVE  IInv'
<1>1. CallOK(fetchMe, tab.data)
  BY FetchMeOK DEF IInv, TypeOK
<1>2. tab'.data = tab.data /\ tab'.cache = tab.cache
  BY DEF EventsError, IInv, TypeOK
<1>3. AllOK(calls', tab'.data)
  BY <1>1, <1>2, SetOne DEF IInv, EventsError
<1>4. TypeOK'
  BY <1>3, AskedOK DEF IInv, TypeOK, EventsError, AllOK
<1> QED
  BY <1>2, <1>3, <1>4, AskedOK DEF IInv, EventsError, CacheIsOwners, WritesStayHome, TypeOK

\* Everything private leaves the cache at once (discardPrivateQueryData).
LEMMA DiscardOK ==
  ASSUME NEW t \in [data: Users \cup {None, Unset}, error: BOOLEAN,
                    check: BOOLEAN, gen: Nat, cache: Users \cup {Unset}]
  PROVE  /\ discardPrivateQueryData(t) \in
              [data: Users \cup {None, Unset}, error: BOOLEAN,
               check: BOOLEAN, gen: Nat, cache: Users \cup {Unset}]
         /\ discardPrivateQueryData(t).cache = Unset
         /\ discardPrivateQueryData(t).data = t.data
<1>1. t.gen + 1 \in Nat
  OBVIOUS
<1>2. discardPrivateQueryData(t) = [t EXCEPT !.gen = t.gen + 1, !.cache = Unset]
  BY DEF discardPrivateQueryData
<1> QED
  BY <1>1, <1>2

\* An answer about the identity: when another account than the one displayed
\* comes, its predecessor's cache and reads go in the same step (MeReturns).
LEMMA MeReturnsOK ==
  ASSUME IInv, NEW s \in Slots, MeReturns(s)
  PROVE  IInv'
<1>1. CASE calls[s].st \in {"ok", "401"} /\ tab' = [setMe(tab, calls[s].body) EXCEPT !.check = FALSE]
           /\ calls' = [setMeCalls(tab, calls, calls[s].body) EXCEPT ![s] = Free]
           /\ UNCHANGED hist
  <2> DEFINE d == calls[s].body
  <2>1. d \in Users \cup {None, Unset}
    BY DEF IInv, TypeOK, Call
  <2>2. tab' \in [data: Users \cup {None, Unset}, error: BOOLEAN,
                  check: BOOLEAN, gen: Nat, cache: Users \cup {Unset}]
        /\ tab'.data = d
        /\ tab'.cache \in {Unset, d}
    <3>1. CASE ownerChanges(tab, d)
      <4> DEFINE cleared == discardPrivateQueryData(tab)
      <4>1. cleared \in [data: Users \cup {None, Unset}, error: BOOLEAN,
                         check: BOOLEAN, gen: Nat, cache: Users \cup {Unset}]
            /\ cleared.cache = Unset
        BY DiscardOK DEF IInv, TypeOK
      <4>2. tab' = [[cleared EXCEPT !.data = d, !.error = FALSE] EXCEPT !.check = FALSE]
        BY <1>1, <3>1 DEF setMe
      <4> HIDE DEF cleared
      <4> QED
        BY <2>1, <4>1, <4>2
    <3>2. CASE ~ownerChanges(tab, d)
      BY <1>1, <2>1, <3>2 DEF setMe, ownerChanges, IInv, TypeOK, CacheIsOwners
    <3> QED
      BY <3>1, <3>2
  <2>3. AllOK(setMeCalls(tab, calls, d), d)
    <3>1. CASE ownerChanges(tab, d)
      BY <3>1, CancelReadsOK DEF setMeCalls, IInv
    <3>2. CASE ~ownerChanges(tab, d)
      <4>1. \A r \in Slots : CallOK(calls[r], d)
        BY <3>2, BoundaryAssumption DEF ownerChanges, IInv, AllOK, CallOK
      <4> QED
        BY <3>2, <4>1 DEF setMeCalls, IInv, AllOK
    <3> QED
      BY <3>1, <3>2
  <2>4. AllOK(calls', tab'.data)
    BY <1>1, <2>2, <2>3, FreeOK, SetOne
  <2> QED
    BY <1>1, <2>2, <2>4 DEF IInv, TypeOK, CacheIsOwners, WritesStayHome, MeReturns, AllOK
<1>2. CASE calls[s].st = "lost" /\ tab' = [tab EXCEPT !.error = TRUE, !.check = FALSE]
           /\ calls' = [calls EXCEPT ![s] = IF tab.check THEN fetchMe ELSE Free]
           /\ hist' = IF tab.check THEN asked ELSE hist
  <2>1. tab'.data = tab.data /\ tab'.cache = tab.cache
    BY <1>2 DEF IInv, TypeOK
  <2>2. CallOK(fetchMe, tab.data) /\ CallOK(Free, tab.data)
    BY FetchMeOK, FreeOK DEF IInv, TypeOK
  <2>3. AllOK(calls', tab'.data)
    BY <1>2, <2>1, <2>2, SetOne DEF IInv
  <2>4. TypeOK'
    BY <1>2, <2>3, AskedOK DEF IInv, TypeOK, AllOK, MeReturns
  <2> QED
    BY <1>2, <2>1, <2>3, <2>4, AskedOK DEF IInv, TypeOK, CacheIsOwners, WritesStayHome, MeReturns
<1> QED
  BY <1>1, <1>2 DEF MeReturns

\* A private request names the account that is displayed (accountBoundFetch).
LEMMA BoundOK ==
  ASSUME IInv, NEW kind \in {"read", "write"} \cup Leaving
  PROVE  /\ accountBoundFetch(kind) \in Call
         /\ accountBoundFetch(kind).kind = kind
         /\ accountBoundFetch(kind).st = "sent"
         /\ accountBoundFetch(kind).exp = tab.data
<1>1. Free \in Call
  BY FreeOK DEF CallOK
<1>2. cookie \in Nat
  BY BoundaryAssumption DEF IInv, TypeOK
<1> QED
  BY <1>1, <1>2 DEF accountBoundFetch, Call, IInv, TypeOK, Leaving

\* A page on screen reads its data (useQuery under RequireAuth).
LEMMA ReadOK ==
  ASSUME IInv, NEW s \in Slots, Read(s)
  PROVE  IInv'
<1>1. CallOK(accountBoundFetch("read"), tab.data)
  BY BoundOK DEF Read, Mounted, CallOK
<1>2. AllOK(calls', tab'.data)
  BY <1>1, SetOne DEF IInv, Read
<1> QED
  BY <1>2 DEF IInv, TypeOK, AllOK, Read, CacheIsOwners, WritesStayHome

\* Only a read for the displayed account is stored (ReadReturns).
LEMMA ReadReturnsOK ==
  ASSUME IInv, NEW s \in Slots, ReadReturns(s)
  PROVE  IInv'
<1>1. CallOK(calls[s], tab.data)
  BY DEF IInv, AllOK
<1>2. /\ tab' \in [data: Users \cup {None, Unset}, error: BOOLEAN,
                   check: BOOLEAN, gen: Nat, cache: Users \cup {Unset}]
      /\ tab'.data = tab.data
      /\ tab'.cache \in {Unset, tab.data}
  BY <1>1 DEF ReadReturns, IInv, TypeOK, CacheIsOwners, CallOK
<1>3. /\ AllOK(calls', tab.data)
      /\ hist' \in [writes: SUBSET [by: Users \cup {None, Unset}, to: Users],
                    behind: BOOLEAN, taken: BOOLEAN]
      /\ hist'.writes = hist.writes
  <2>1. CASE calls[s].st = "409"
    BY <2>1, RereadOK DEF ReadReturns
  <2>2. CASE calls[s].st # "409"
    BY <2>2, FreeOK, SetOne DEF ReadReturns, IInv, TypeOK
  <2> QED
    BY <2>1, <2>2
<1> QED
  BY <1>2, <1>3 DEF IInv, TypeOK, AllOK, ReadReturns, CacheIsOwners, WritesStayHome

\* A hook remembers the account it mounts under (Mount).
LEMMA MountOK ==
  ASSUME IInv, Mount
  PROVE  IInv'
<1>1. /\ capturePrivateMutationOwnership \in Ownership
      /\ capturePrivateMutationOwnership.owner \in Users
  BY DEF capturePrivateMutationOwnership, Ownership, IInv, TypeOK, Mount, Mounted
<1> QED
  BY <1>1 DEF IInv, TypeOK, AllOK, Mount, CacheIsOwners, WritesStayHome

\* A mutation is started under the account its hook was mounted for (invoke).
LEMMA InvokeOK ==
  ASSUME IInv, NEW s \in Slots, NEW own \in held, invoke(s, own)
  PROVE  IInv'
<1> DEFINE c == [Free EXCEPT !.kind = "write", !.own = own]
<1>1. Free \in Call /\ Free.st = "unsent"
  BY FreeOK DEF CallOK, Free
<1>2. own \in Ownership /\ own.owner \in Users
  BY DEF IInv, TypeOK
<1>3. c \in Call /\ c.kind = "write" /\ c.st = "unsent" /\ c.own = own
  BY <1>1, <1>2 DEF Call
<1>4. calls' = [calls EXCEPT ![s] = c] /\ tab' = tab
  BY DEF invoke
<1> HIDE DEF c
<1>5. AllOK(calls', tab'.data)
  <2>1. CallOK(c, tab.data)
    BY <1>2, <1>3 DEF CallOK
  <2>2. AllOK([calls EXCEPT ![s] = c], tab.data)
    BY <2>1, SetOne DEF IInv
  <2> QED
    BY <1>4, <2>2
<1> QED
  BY <1>5 DEF IInv, TypeOK, AllOK, invoke, CacheIsOwners, WritesStayHome

\* After its wait a mutation writes the cache, and is sent, only if the account
\* it began under is still displayed (mutationFn, assertCurrent).
LEMMA MutationFnOK ==
  ASSUME IInv, NEW s \in Slots, mutationFn(s)
  PROVE  IInv'
<1>1. CallOK(calls[s], tab.data) /\ calls[s].own \in Ownership /\ calls[s].own.owner \in Users
  BY DEF IInv, AllOK, CallOK, Call, mutationFn
<1>2. CASE isCurrent(calls[s].own)
  <2> DEFINE f == accountBoundFetch("write")
             c == [f EXCEPT !.own = calls[s].own, !.prev = tab.cache]
  <2>1. f \in Call /\ f.kind = "write" /\ f.st = "sent" /\ f.exp = tab.data
    BY BoundOK
  <2>2. calls[s].own.owner = tab.data
    BY <1>2 DEF isCurrent, capturePrivateMutationOwnership
  <2>3. tab.cache \in Users \cup {Unset} /\ tab.cache \in {Unset, tab.data}
    BY DEF IInv, TypeOK, CacheIsOwners
  <2>4. calls' = [cancelQueries(calls, {"read"}) EXCEPT ![s] = c]
    BY <1>2 DEF mutationFn
  <2> HIDE DEF f
  <2>5. /\ c \in Call /\ c.kind = "write" /\ c.st = "sent" /\ c.exp = tab.data
        /\ c.own = calls[s].own /\ c.prev = tab.cache
    BY <1>1, <2>1, <2>3 DEF Call
  <2> HIDE DEF c
  <2>6. CallOK(c, tab.data)
    BY <1>1, <2>2, <2>3, <2>5 DEF CallOK
  <2>7. AllOK(cancelQueries(calls, {"read"}), tab.data)
    BY CancelOK DEF IInv
  <2>8. tab' = [tab EXCEPT !.cache = tab.data]
    BY <1>2 DEF mutationFn
  <2>9. /\ tab' \in [data: Users \cup {None, Unset}, error: BOOLEAN,
                     check: BOOLEAN, gen: Nat, cache: Users \cup {Unset}]
        /\ tab'.data = tab.data
        /\ tab'.cache = tab.data
    BY <1>1, <2>2, <2>8 DEF IInv, TypeOK
  <2>10. AllOK(calls', tab'.data)
    <3>1. AllOK([cancelQueries(calls, {"read"}) EXCEPT ![s] = c], tab.data)
      BY <2>6, <2>7, SetOne
    <3> QED
      BY <2>4, <2>9, <3>1
  <2> QED
    BY <2>9, <2>10 DEF IInv, TypeOK, AllOK, mutationFn, CacheIsOwners, WritesStayHome
<1>3. CASE ~isCurrent(calls[s].own)
  <2>1. AllOK(calls', tab'.data)
    BY <1>3, FreeOK, SetOne DEF IInv, mutationFn
  <2> QED
    BY <1>3, <2>1 DEF IInv, TypeOK, AllOK, mutationFn, CacheIsOwners, WritesStayHome
<1> QED
  BY <1>2, <1>3

\* The row, or the rollback, of a mutation reaches the cache only under the
\* account that both belong to (WriteReturns).
LEMMA WriteReturnsOK ==
  ASSUME IInv, NEW s \in Slots, WriteReturns(s)
  PROVE  IInv'
<1>1. CallOK(calls[s], tab.data)
  BY DEF IInv, AllOK
<1>2. isCurrent(calls[s].own) => calls[s].own.owner = tab.data
  BY DEF isCurrent, capturePrivateMutationOwnership
<1>3. /\ tab' \in [data: Users \cup {None, Unset}, error: BOOLEAN,
                   check: BOOLEAN, gen: Nat, cache: Users \cup {Unset}]
      /\ tab'.data = tab.data
      /\ tab'.cache \in {Unset, tab.data}
  BY <1>1, <1>2 DEF WriteReturns, IInv, TypeOK, CacheIsOwners, CallOK
<1>4. /\ AllOK(calls', tab.data)
      /\ hist' \in [writes: SUBSET [by: Users \cup {None, Unset}, to: Users],
                    behind: BOOLEAN, taken: BOOLEAN]
      /\ hist'.writes = hist.writes
  <2>1. CASE Reread(s)
    BY <2>1, RereadOK
  <2>2. CASE calls' = [calls EXCEPT ![s] = Free] /\ UNCHANGED hist
    BY <2>2, FreeOK, SetOne DEF IInv, TypeOK
  <2> QED
    BY <2>1, <2>2 DEF WriteReturns
<1> QED
  BY <1>3, <1>4 DEF IInv, TypeOK, AllOK, WriteReturns, CacheIsOwners, WritesStayHome

\* The login form is sent (login).
LEMMA LoginOK ==
  ASSUME IInv, NEW s \in Slots, NEW u \in Users, login(s, u)
  PROVE  IInv'
<1> DEFINE c == [Free EXCEPT !.kind = "login", !.st = "sent", !.body = u]
<1>1. Free \in Call
  BY FreeOK DEF CallOK
<1>2. c \in Call /\ c.kind = "login" /\ c.st = "sent" /\ c.body = u
  BY <1>1 DEF Call
<1>3. calls' = [calls EXCEPT ![s] = c] /\ tab' = tab
  BY DEF login
<1> HIDE DEF c
<1>4. CallOK(c, tab.data)
  BY <1>2 DEF CallOK
<1>5. AllOK(calls', tab'.data)
  <2>1. AllOK([calls EXCEPT ![s] = c], tab.data)
    BY <1>4, SetOne DEF IInv
  <2> QED
    BY <1>3, <2>1
<1> QED
  BY <1>5 DEF IInv, TypeOK, AllOK, login, CacheIsOwners, WritesStayHome

\* A login that succeeds discards all that is private before the identity is
\* read (LoginReturns).
LEMMA LoginReturnsOK ==
  ASSUME IInv, NEW s \in Slots, LoginReturns(s)
  PROVE  IInv'
<1>1. CASE calls[s].st = "ok"
  <2> DEFINE c == [fetchMe EXCEPT !.as = calls[s].as]
  <2>1. calls[s].as \in Tokens
    BY <1>1 DEF IInv, AllOK, CallOK, LoginReturns
  <2>2. calls[s].as \in Nat /\ calls[s].as \in 0..MaxLogins
    BY <2>1, BoundaryAssumption DEF Tokens
  <2>3. fetchMe \in Call /\ fetchMe.kind = "me"
    <3>1. Free \in Call
      BY FreeOK DEF CallOK
    <3>2. cookie \in Nat
      BY BoundaryAssumption DEF IInv, TypeOK
    <3> QED
      BY <3>1, <3>2 DEF fetchMe, Call
  <2>4. c \in Call /\ c.kind = "me"
    BY <2>2, <2>3 DEF Call
  <2>5. /\ calls' = [cancelQueries(calls, {"me", "read"}) EXCEPT ![s] = c]
        /\ tab' = discardPrivateQueryData(tab)
        /\ cookie' = calls[s].as
        /\ hist' = asked
    BY <1>1 DEF LoginReturns
  <2> HIDE DEF c
  <2>6. CallOK(c, tab.data)
    BY <2>4 DEF CallOK
  <2>7. AllOK(cancelQueries(calls, {"me", "read"}), tab.data)
    BY CancelOK DEF IInv
  <2>8. /\ tab' \in [data: Users \cup {None, Unset}, error: BOOLEAN,
                     check: BOOLEAN, gen: Nat, cache: Users \cup {Unset}]
        /\ tab'.data = tab.data
        /\ tab'.cache = Unset
    BY <2>5, DiscardOK DEF IInv, TypeOK
  <2>9. AllOK(calls', tab'.data)
    <3>1. AllOK([cancelQueries(calls, {"me", "read"}) EXCEPT ![s] = c], tab.data)
      BY <2>6, <2>7, SetOne
    <3> QED
      BY <2>5, <2>8, <3>1
  <2> QED
    BY <2>2, <2>5, <2>8, <2>9, AskedOK
    DEF IInv, TypeOK, AllOK, LoginReturns, CacheIsOwners, WritesStayHome
<1>2. CASE calls[s].st = "lost"
  <2>1. AllOK(calls', tab'.data)
    BY <1>2, FreeOK, SetOne DEF IInv, LoginReturns
  <2> QED
    BY <1>2, <2>1 DEF IInv, TypeOK, AllOK, LoginReturns, CacheIsOwners, WritesStayHome
<1> QED
  BY <1>1, <1>2 DEF LoginReturns

\* A sign-out names the displayed account (logout).
LEMMA LogoutOK ==
  ASSUME IInv, NEW s \in Slots, NEW kind \in Leaving, NEW all \in BOOLEAN,
         logout(s, kind, all)
  PROVE  IInv'
<1> DEFINE f == accountBoundFetch(kind)
           c == [f EXCEPT !.all = all]
<1>1. f \in Call /\ f.kind = kind
  BY BoundOK
<1>2. calls' = [calls EXCEPT ![s] = c] /\ tab' = tab
  BY DEF logout
<1> HIDE DEF f
<1>3. c \in Call /\ c.kind \in Leaving
  BY <1>1 DEF Call
<1> HIDE DEF c
<1>4. CallOK(c, tab.data)
  BY <1>3 DEF CallOK, Leaving
<1>5. AllOK(calls', tab'.data)
  <2>1. AllOK([calls EXCEPT ![s] = c], tab.data)
    BY <1>4, SetOne DEF IInv
  <2> QED
    BY <1>2, <2>1
<1> QED
  BY <1>5 DEF IInv, TypeOK, AllOK, logout, CacheIsOwners, WritesStayHome

\* A sign-out that succeeds empties the cache, unless another account is
\* displayed by then, which it leaves alone (LogoutReturns).
LEMMA LogoutReturnsOK ==
  ASSUME IInv, NEW s \in Slots, LogoutReturns(s)
  PROVE  IInv'
<1>1. CASE calls[s].st = "ok" /\ tab.data \notin Users \ {calls[s].exp}
  <2>1. /\ tab' = setMe(discardPrivateQueryData(tab), None)
        /\ calls' = [cancelQueries(calls, {"me", "read"}) EXCEPT ![s] = Free]
        /\ cookie' = 0 /\ UNCHANGED hist
    BY <1>1 DEF LogoutReturns
  <2> DEFINE t1 == discardPrivateQueryData(tab)
             t2 == IF ownerChanges(t1, None) THEN discardPrivateQueryData(t1) ELSE t1
  <2>2. /\ t1 \in [data: Users \cup {None, Unset}, error: BOOLEAN,
                   check: BOOLEAN, gen: Nat, cache: Users \cup {Unset}]
        /\ t1.cache = Unset
    BY DiscardOK DEF IInv, TypeOK
  <2>3. tab' = [t2 EXCEPT !.data = None, !.error = FALSE]
    BY <2>1 DEF setMe
  <2> HIDE DEF t1
  <2>4. /\ t2 \in [data: Users \cup {None, Unset}, error: BOOLEAN,
                   check: BOOLEAN, gen: Nat, cache: Users \cup {Unset}]
        /\ t2.cache = Unset
    BY <2>2, DiscardOK
  <2> HIDE DEF t2
  <2>5. /\ tab' \in [data: Users \cup {None, Unset}, error: BOOLEAN,
                     check: BOOLEAN, gen: Nat, cache: Users \cup {Unset}]
        /\ tab'.data = None
        /\ tab'.cache = Unset
    BY <2>3, <2>4
  <2>6. AllOK(calls', tab'.data)
    <3>1. AllOK(cancelQueries(calls, {"me", "read"}), None)
      BY CancelReadsOK DEF IInv
    <3>2. AllOK([cancelQueries(calls, {"me", "read"}) EXCEPT ![s] = Free], None)
      BY <3>1, FreeOK, SetOne
    <3> QED
      BY <2>1, <2>5, <3>2
  <2>7. cookie' \in 0..MaxLogins
    BY <2>1, BoundaryAssumption
  <2> QED
    BY <2>1, <2>5, <2>6, <2>7
    DEF IInv, TypeOK, AllOK, LogoutReturns, CacheIsOwners, WritesStayHome
<1>2. CASE calls[s].st = "ok" /\ tab.data \in Users \ {calls[s].exp}
  <2>1. /\ calls' = [calls EXCEPT ![s] = Free]
        /\ hist' = [hist EXCEPT !.taken = TRUE]
        /\ cookie' = 0 /\ UNCHANGED tab
    BY <1>2 DEF LogoutReturns
  <2>2. AllOK(calls', tab'.data)
    BY <2>1, FreeOK, SetOne DEF IInv
  <2>3. cookie' \in 0..MaxLogins
    BY <2>1, BoundaryAssumption
  <2> QED
    BY <2>1, <2>2, <2>3
    DEF IInv, TypeOK, AllOK, LogoutReturns, CacheIsOwners, WritesStayHome
<1>3. CASE calls[s].st # "ok"
  <2>1. UNCHANGED <<cookie, tab, sessions, issued, held, faults>>
    BY <1>3 DEF LogoutReturns
  <2>2. /\ AllOK(calls', tab.data)
        /\ hist' \in [writes: SUBSET [by: Users \cup {None, Unset}, to: Users],
                      behind: BOOLEAN, taken: BOOLEAN]
        /\ hist'.writes = hist.writes
    <3>1. CASE Reread(s)
      BY <3>1, RereadOK
    <3>2. CASE calls' = [calls EXCEPT ![s] = Free] /\ UNCHANGED hist
      BY <3>2, FreeOK, SetOne DEF IInv, TypeOK
    <3> QED
      BY <1>3, <3>1, <3>2 DEF LogoutReturns
  <2> QED
    BY <2>1, <2>2 DEF IInv, TypeOK, AllOK, CacheIsOwners, WritesStayHome
<1> QED
  BY <1>1, <1>2, <1>3

\* What an answer makes of a request: its status and body, nothing else, and
\* the request stays in order if these two are (Answer).
LEMMA AnswerOK ==
  ASSUME IInv, NEW s \in Slots,
         NEW st \in {"ok", "401", "409", "lost"},
         NEW body \in Users \cup {None, Unset}, Answer(s, st, body),
         calls[s].kind = "login" => st = "lost",
         calls[s].kind = "read" /\ st = "ok" => body = calls[s].exp,
         calls[s].kind = "write" =>
           /\ calls[s].st # "unsent"
           /\ st = "ok" => body = calls[s].own.owner
  PROVE  AllOK(calls', tab.data)
<1> DEFINE c == [calls[s] EXCEPT !.st = st, !.body = body]
<1>1. CallOK(calls[s], tab.data) /\ calls[s] \in Call
  BY DEF IInv, AllOK, CallOK
<1>2. /\ c \in Call /\ c.kind = calls[s].kind /\ c.st = st /\ c.body = body
      /\ c.exp = calls[s].exp /\ c.own = calls[s].own /\ c.prev = calls[s].prev
  BY <1>1 DEF Call
<1>3. calls' = [calls EXCEPT ![s] = c]
  BY DEF Answer, IInv, AllOK
<1> HIDE DEF c
<1>4. CallOK(c, tab.data)
  BY <1>1, <1>2 DEF CallOK
<1>5. AllOK([calls EXCEPT ![s] = c], tab.data)
  BY <1>4, SetOne DEF IInv
<1> QED
  BY <1>3, <1>5

\* A token's owner is an account or nobody (Owner).
LEMMA OwnerOK ==
  ASSUME IInv, NEW n
  PROVE  Owner(n) \in Users \cup {None}
BY DEF Owner, IInv, TypeOK

\* The server tells who is signed in (ServeMe).
LEMMA ServeMeOK ==
  ASSUME IInv, NEW s \in Slots, ServeMe(s)
  PROVE  IInv'
<1>1. AllOK(calls', tab.data)
  BY AnswerOK, OwnerOK DEF ServeMe
<1> QED
  BY <1>1 DEF IInv, TypeOK, AllOK, ServeMe, CacheIsOwners, WritesStayHome

\* The server serves a private request only for the account it names, so a
\* write changes the data of the account it began under (ServePrivate).
LEMMA ServePrivateOK ==
  ASSUME IInv, NEW s \in Slots, ServePrivate(s)
  PROVE  IInv'
<1> DEFINE st == require_expected_user(s)
           who == Owner(calls[s].as)
           body == IF st = "ok" THEN who ELSE Unset
<1>1. CallOK(calls[s], tab.data)
  BY DEF IInv, AllOK
<1>2. who \in Users \cup {None}
  BY OwnerOK
<1>3. /\ st \in {"ok", "401", "409"}
      /\ st = "ok" => who # None /\ who = calls[s].exp
  BY DEF require_expected_user
<1>4. Answer(s, st, body)
  BY DEF ServePrivate
<1>5. /\ calls[s].kind \in {"read", "write"} /\ calls[s].st = "sent"
      /\ hist' = IF st = "ok" /\ calls[s].kind = "write"
                 THEN [hist EXCEPT !.writes = @ \cup
                         {[by |-> calls[s].own.owner, to |-> who]}]
                 ELSE hist
      /\ UNCHANGED <<sessions, issued, cookie, tab, held, faults>>
  BY DEF ServePrivate
<1> HIDE DEF st, who
<1>6. calls[s].kind = "write" => calls[s].own.owner \in Users /\ calls[s].exp = calls[s].own.owner
  BY <1>1, <1>5 DEF CallOK
<1>7. body \in Users \cup {None, Unset}
  BY <1>2
<1>8. AllOK(calls', tab.data)
  BY <1>3, <1>4, <1>5, <1>6, <1>7, AnswerOK
<1>9. /\ hist' \in [writes: SUBSET [by: Users \cup {None, Unset}, to: Users],
                    behind: BOOLEAN, taken: BOOLEAN]
      /\ \A w \in hist'.writes : w.by = w.to
  <2>1. CASE st = "ok" /\ calls[s].kind = "write"
    <3> DEFINE w == [by |-> calls[s].own.owner, to |-> who]
    <3>1. w \in [by: Users \cup {None, Unset}, to: Users] /\ w.by = w.to
      BY <1>2, <1>3, <1>6, <2>1
    <3>2. hist' = [hist EXCEPT !.writes = hist.writes \cup {w}]
      BY <1>5, <2>1
    <3> HIDE DEF w
    <3> QED
      BY <3>1, <3>2 DEF IInv, TypeOK, WritesStayHome
  <2>2. CASE ~(st = "ok" /\ calls[s].kind = "write")
    BY <1>5, <2>2 DEF IInv, TypeOK, WritesStayHome
  <2> QED
    BY <2>1, <2>2
<1> QED
  BY <1>5, <1>8, <1>9 DEF IInv, TypeOK, AllOK, CacheIsOwners, WritesStayHome

\* The server ends a session, or all of an account's (ServeLogout).
LEMMA ServeLogoutOK ==
  ASSUME IInv, NEW s \in Slots, ServeLogout(s)
  PROVE  IInv'
<1>1. require_expected_user(s) \in {"ok", "401", "409"}
  BY DEF require_expected_user
<1>2. AllOK(calls', tab.data)
  BY <1>1, AnswerOK DEF ServeLogout, Leaving
<1>3. sessions' \in [Tokens -> Users \cup {None}]
  BY DEF ServeLogout, Revoked, IInv, TypeOK
<1> QED
  BY <1>2, <1>3 DEF IInv, TypeOK, AllOK, ServeLogout, CacheIsOwners, WritesStayHome

\* The server opens a session (ServeLogin).
LEMMA ServeLoginOK ==
  ASSUME IInv, NEW s \in Slots, ServeLogin(s)
  PROVE  IInv'
<1> DEFINE c == [calls[s] EXCEPT !.st = "ok", !.as = issued + 1]
<1>1. /\ CallOK(calls[s], tab.data) /\ calls[s] \in Call /\ calls[s].kind = "login"
      /\ calls[s].body \in Users
  BY DEF IInv, AllOK, CallOK, ServeLogin
<1>2. issued + 1 \in Tokens /\ issued + 1 \in Nat /\ issued' \in 0..MaxLogins
  BY BoundaryAssumption DEF Tokens, ServeLogin, IInv, TypeOK
<1>3. c \in Call /\ c.kind = "login" /\ c.st = "ok" /\ c.as = issued + 1
  BY <1>1, <1>2 DEF Call
<1>4. calls' = [calls EXCEPT ![s] = c]
  BY DEF ServeLogin, IInv, AllOK
<1> HIDE DEF c
<1>5. CallOK(c, tab.data)
  BY <1>2, <1>3 DEF CallOK
<1>6. AllOK([calls EXCEPT ![s] = c], tab.data)
  BY <1>5, SetOne DEF IInv
<1>7. AllOK(calls', tab.data)
  BY <1>4, <1>6
<1>8. sessions' \in [Tokens -> Users \cup {None}]
  BY <1>1, <1>2 DEF ServeLogin, IInv, TypeOK
<1> QED
  BY <1>2, <1>7, <1>8 DEF IInv, TypeOK, AllOK, ServeLogin, CacheIsOwners, WritesStayHome

\* Another tab signs in (OtherLogin).
LEMMA OtherLoginOK ==
  ASSUME IInv, NEW u \in Users, OtherLogin(u)
  PROVE  IInv'
<1>1. issued + 1 \in Tokens /\ issued' \in 0..MaxLogins /\ cookie' \in 0..MaxLogins
  BY BoundaryAssumption DEF Tokens, OtherLogin, IInv, TypeOK
<1>2. sessions' \in [Tokens -> Users \cup {None}]
  BY <1>1 DEF OtherLogin, IInv, TypeOK
<1> QED
  BY <1>1, <1>2 DEF IInv, TypeOK, AllOK, OtherLogin, CacheIsOwners, WritesStayHome

\* A session ends elsewhere (OtherLogout).
LEMMA OtherLogoutOK ==
  ASSUME IInv, OtherLogout
  PROVE  IInv'
<1>1. faults' \in 0..MaxFaults /\ cookie' \in 0..MaxLogins
  BY BoundaryAssumption DEF OtherLogout, IInv, TypeOK
<1>2. sessions' \in [Tokens -> Users \cup {None}]
  BY DEF OtherLogout, Revoked, IInv, TypeOK
<1> QED
  BY <1>1, <1>2 DEF IInv, TypeOK, AllOK, OtherLogout, CacheIsOwners, WritesStayHome

\* A request or its answer is lost (Lose).
LEMMA LoseOK ==
  ASSUME IInv, NEW s \in Slots, Lose(s)
  PROVE  IInv'
<1>1. faults' \in 0..MaxFaults
  BY BoundaryAssumption DEF Lose, IInv, TypeOK
<1>2. AllOK(calls', tab.data)
  BY AnswerOK DEF Lose
<1> QED
  BY <1>1, <1>2 DEF IInv, TypeOK, AllOK, Lose, CacheIsOwners, WritesStayHome
-----------------------------------------------------------------------------
(* What is displayed.                                                      *)

\* A sign-out was served and its answer is on the way.
LogoutServed ==
  \E s \in Slots : calls[s].kind \in Leaving /\ calls[s].st = "ok"

\* Tokens are given out once, and one read of the identity is under way at most.
OneReader ==
  /\ cookie <= issued
  /\ \A s \in Slots :
       calls[s].kind = "login" /\ calls[s].st = "ok" => calls[s].as <= issued
  /\ \A r, s \in Slots : calls[r].kind = "me" /\ calls[s].kind = "me" => r = s

\* The read under way asks about the cookie that the browser holds, and its
\* answer is still true.
ReadIsTrue ==
  \A s \in Slots : calls[s].kind = "me" =>
    /\ calls[s].as = cookie
    /\ ~LogoutServed /\ calls[s].st \in {"ok", "401"} =>
         calls[s].body = Owner(cookie)

\* Once it is over, the account displayed is the one signed in, although a
\* login or a sign-out that was not yet served may be under way.
ScreenIsTrue ==
  ~LogoutServed /\ ~Pending({"me"}) /\ tab.data # Unset /\ ~tab.error
    => tab.data = Owner(cookie)

\* The inductive invariant of DisplayIsTrue: the screen is true, or it is about
\* to be made true by a read of the identity or by the answer of a sign-out; or
\* a late sign-out of the tab has left the browser without a cookie.
ShownInv ==
  /\ OneReader
  /\ ~hist.behind => IF hist.taken THEN cookie = 0 ELSE ReadIsTrue /\ ScreenIsTrue

\* The requests in slot r before and after a step that neither begins nor ends
\* a read of the identity, nor ends a served sign-out.
SameReader(r) ==
  /\ calls'[r].kind = "me" =>
       /\ calls[r].kind = "me" /\ calls'[r].as = calls[r].as
       /\ calls'[r].st \in {"ok", "401"} =>
            \/ calls[r].st = calls'[r].st /\ calls'[r].body = calls[r].body
            \/ calls'[r].body = Owner(calls[r].as)
  /\ calls[r].kind = "me" => calls'[r].kind = "me"
  /\ calls[r].kind \in Leaving /\ calls[r].st = "ok" =>
       calls'[r].kind \in Leaving /\ calls'[r].st = "ok"
  /\ calls'[r].kind = "login" /\ calls'[r].st = "ok" =>
       calls'[r].as <= issued'

\* A step that leaves the cookie, its owner and the screen alone.
LEMMA StillTrue ==
  ASSUME ShownInv, cookie' = cookie, Owner(cookie)' = Owner(cookie),
         cookie' <= issued', hist'.behind = hist.behind, hist'.taken = hist.taken,
         tab'.data = tab.data, tab'.error = tab.error,
         \A r \in Slots : SameReader(r)
  PROVE  ShownInv'
<1>1. OneReader'
  BY DEF ShownInv, OneReader, SameReader
<1>2. LogoutServed => LogoutServed'
  BY DEF LogoutServed, SameReader
<1>3. Pending({"me"}) => Pending({"me"})'
  BY DEF Pending, SameReader
<1>4. ASSUME ReadIsTrue, ScreenIsTrue PROVE ReadIsTrue' /\ ScreenIsTrue'
  <2>1. ScreenIsTrue'
    BY <1>2, <1>3, <1>4 DEF ScreenIsTrue
  <2>2. ReadIsTrue'
    BY <1>2, <1>4 DEF ReadIsTrue, SameReader
  <2> QED
    BY <2>1, <2>2
<1> QED
  BY <1>1, <1>4 DEF ShownInv

\* A step after which the cookie may have changed behind the tab's back owes
\* nothing but the tokens and the single reader.
LEMMA BehindOK ==
  ASSUME OneReader', hist'.behind PROVE ShownInv'
BY DEF ShownInv

\* A read of the identity has just been sent, and it is the only one.
LEMMA FreshRead ==
  ASSUME IInv, ShownInv, NEW s \in Slots,
         cookie' <= issued', issued' \in Nat, issued <= issued',
         calls'[s].kind = "me", calls'[s].st = "sent", calls'[s].as = cookie',
         ~hist'.taken,
         \A r \in Slots \ {s} : calls'[r].kind # "me",
         \A r \in Slots \ {s} : calls'[r] \in {calls[r], Free}
  PROVE  ShownInv'
<1>1. ASSUME NEW r \in Slots, calls'[r].kind = "login", calls'[r].st = "ok"
      PROVE  calls'[r].as <= issued'
  <2>1. calls'[r] = calls[r] /\ calls[r].as <= issued
    BY <1>1 DEF ShownInv, OneReader, Free
  <2>2. calls[r].as \in Nat /\ issued \in Nat
    BY BoundaryAssumption DEF IInv, TypeOK, Call
  <2> QED
    BY <2>1, <2>2
<1>2. OneReader'
  BY <1>1 DEF OneReader
<1>3. ReadIsTrue' /\ Pending({"me"})'
  BY DEF ReadIsTrue, Pending
<1> QED
  BY <1>2, <1>3 DEF ShownInv, ScreenIsTrue

\* A step that is about one request, and may cancel private reads.
LEMMA OrdinaryStep ==
  ASSUME IInv, ShownInv, NEW s \in Slots,
         UNCHANGED <<sessions, cookie, issued>>, hist'.behind = hist.behind, hist'.taken = hist.taken,
         tab'.data = tab.data, tab'.error = tab.error,
         \A r \in Slots \ {s} : \/ calls'[r] = calls[r]
                                \/ calls[r].kind = "read" /\ calls'[r] = Free,
         SameReader(s)
  PROVE  ShownInv'
<1>1. \A r \in Slots \ {s} : SameReader(r)
  BY DEF SameReader, Free, Leaving, ShownInv, OneReader
<1>2. Owner(cookie)' = Owner(cookie)
  BY DEF Owner
<1>3. cookie' <= issued'
  BY DEF ShownInv, OneReader
<1>4. \A r \in Slots : SameReader(r)
  BY <1>1
<1> QED
  BY <1>2, <1>3, <1>4, StillTrue

\* A request that is no read of the identity, no login and no sign-out begins,
\* ends or goes on.
LEMMA PrivateStep ==
  ASSUME IInv, ShownInv, NEW s \in Slots,
         UNCHANGED <<sessions, cookie, issued>>, hist'.behind = hist.behind, hist'.taken = hist.taken,
         tab'.data = tab.data, tab'.error = tab.error,
         \A r \in Slots \ {s} : \/ calls'[r] = calls[r]
                                \/ calls[r].kind = "read" /\ calls'[r] = Free,
         calls[s].kind # "me" /\ calls'[s].kind # "me",
         ~(calls[s].kind \in Leaving /\ calls[s].st = "ok"),
         ~(calls'[s].kind = "login" /\ calls'[s].st = "ok")
  PROVE  ShownInv'
<1>1. SameReader(s)
  BY DEF SameReader
<1> QED
  BY <1>1, OrdinaryStep

\* Cancelling private reads touches no other request (cancelQueries).
LEMMA OnlyReads ==
  ASSUME IInv, NEW r \in Slots
  PROVE  \/ cancelQueries(calls, {"read"})[r] = calls[r]
         \/ calls[r].kind = "read" /\ cancelQueries(calls, {"read"})[r] = Free
BY DEF cancelQueries

\* The identity is read again: the read is the only one (invalidateMe).
LEMMA RereadShows ==
  ASSUME IInv, ShownInv, NEW s \in Slots, Reread(s),
         UNCHANGED <<sessions, cookie, issued>>,
         tab'.data = tab.data, tab'.error = tab.error,
         calls[s].kind # "me" /\ ~(calls[s].kind \in Leaving /\ calls[s].st = "ok")
  PROVE  ShownInv'
<1>1. CASE tab.data = Unset /\ \E r \in Slots \ {s} : calls[r].kind = "me"
  <2>1. calls' = [calls EXCEPT ![s] = Free]
    BY <1>1 DEF Reread, invalidateMe
  <2>2. calls'[s] = Free /\ \A r \in Slots \ {s} : calls'[r] = calls[r]
    BY <2>1 DEF IInv, TypeOK
  <2>3. hist' = hist
    BY <2>2 DEF Reread, Free
  <2> QED
    BY <2>2, <2>3, PrivateStep DEF Free
<1>2. CASE ~(tab.data = Unset /\ \E r \in Slots \ {s} : calls[r].kind = "me")
  <2>1. calls' = [cancelQueries(calls, {"me"}) EXCEPT ![s] = fetchMe]
    BY <1>2 DEF Reread, invalidateMe
  <2>2. /\ calls'[s] = fetchMe
        /\ \A r \in Slots \ {s} : calls'[r] \in {calls[r], Free} /\ calls'[r].kind # "me"
    BY <2>1 DEF cancelQueries, Free
  <2>3. fetchMe.kind = "me" /\ fetchMe.st = "sent" /\ fetchMe.as = cookie
    BY DEF fetchMe, Free
  <2>4. cookie' <= issued' /\ issued' \in Nat /\ issued <= issued'
    BY BoundaryAssumption DEF ShownInv, OneReader, IInv, TypeOK
  <2>5. ~hist'.taken
    BY <2>2, <2>3, AskedOK DEF Reread, IInv, TypeOK
  <2> QED
    BY <2>2, <2>3, <2>4, <2>5, FreshRead
<1> QED
  BY <1>1, <1>2

\* Initially the identity is being read with the browser's cookie (Init).
LEMMA InitShown == Init => ShownInv
<1> SUFFICES ASSUME Init PROVE ShownInv
  OBVIOUS
<1>1. cookie = issued /\ issued \in Nat
  BY DEF Init
<1>2. PICK s \in Slots : calls = [r \in Slots |-> IF r = s THEN fetchMe ELSE Free]
  BY DEF Init
<1>3. /\ fetchMe.kind = "me" /\ fetchMe.st = "sent" /\ fetchMe.as = cookie
      /\ Free.kind = "none"
  BY DEF fetchMe, Free
<1>4. OneReader
  BY <1>1, <1>2, <1>3 DEF OneReader
<1>5. ReadIsTrue /\ Pending({"me"})
  BY <1>2, <1>3 DEF ReadIsTrue, Pending
<1> QED
  BY <1>4, <1>5 DEF ShownInv, ScreenIsTrue, Init

\* The identity is read where none of its reads is under way (Focus).
LEMMA FocusShows ==
  ASSUME IInv, ShownInv, NEW s \in Slots,
         calls' = [calls EXCEPT ![s] = fetchMe], ~Pending({"me"}), hist' = asked,
         UNCHANGED <<cookie, issued>>
  PROVE  ShownInv'
<1>1. fetchMe.kind = "me" /\ fetchMe.st = "sent" /\ fetchMe.as = cookie
  BY DEF fetchMe, Free
<1>2. calls'[s] = fetchMe /\ \A r \in Slots \ {s} : calls'[r] = calls[r]
  BY DEF IInv, TypeOK
<1>3. \A r \in Slots \ {s} : calls'[r].kind # "me"
  BY <1>2 DEF Pending
<1>4. cookie' <= issued' /\ issued' \in Nat /\ issued <= issued'
  BY BoundaryAssumption DEF ShownInv, OneReader, IInv, TypeOK
<1>5. ~hist'.taken
  BY AskedOK DEF IInv, TypeOK
<1> QED
  BY <1>1, <1>2, <1>3, <1>4, <1>5, FreshRead

\* The event stream's error handler shares a read under way (EventsError).
LEMMA EventsErrorShows ==
  ASSUME IInv, ShownInv, NEW s \in Slots, EventsError(s)
  PROVE  ShownInv'
<1>1. CASE Pending({"me"})
  <2>1. /\ UNCHANGED <<sessions, cookie, issued, calls, hist>>
        /\ tab'.data = tab.data /\ tab'.error = tab.error
    BY <1>1 DEF EventsError, IInv, TypeOK
  <2>2. calls[s].kind = "none"
    BY DEF EventsError, Free
  <2> QED
    BY <2>1, <2>2, PrivateStep DEF Leaving
<1>2. CASE ~Pending({"me"})
  BY <1>2, FocusShows DEF EventsError
<1> QED
  BY <1>1, <1>2

\* The fields of the tab after an answer about the identity (setMe).
LEMMA SetMeData ==
  ASSUME IInv, NEW d \in Users \cup {None, Unset}
  PROVE  /\ setMe(tab, d) \in
              [data: Users \cup {None, Unset}, error: BOOLEAN,
               check: BOOLEAN, gen: Nat, cache: Users \cup {Unset}]
         /\ setMe(tab, d).data = d /\ setMe(tab, d).error = FALSE
<1> DEFINE t == IF ownerChanges(tab, d) THEN discardPrivateQueryData(tab) ELSE tab
<1>1. t \in [data: Users \cup {None, Unset}, error: BOOLEAN,
             check: BOOLEAN, gen: Nat, cache: Users \cup {Unset}]
  BY DiscardOK DEF IInv, TypeOK
<1>2. setMe(tab, d) = [t EXCEPT !.data = d, !.error = FALSE]
  BY DEF setMe
<1> HIDE DEF t
<1> QED
  BY <1>1, <1>2

\* The answer about the identity is what the screen shows from then on, and it
\* is still true; a failed read is begun again or shows an error (MeReturns).
LEMMA MeReturnsShows ==
  ASSUME IInv, ShownInv, NEW s \in Slots, MeReturns(s)
  PROVE  ShownInv'
<1>1. CASE calls[s].st \in {"ok", "401"}
  <2> DEFINE d == calls[s].body
  <2>1. d \in Users \cup {None, Unset}
    BY DEF IInv, TypeOK, Call
  <2>2. /\ tab' = [setMe(tab, d) EXCEPT !.check = FALSE]
        /\ calls' = [setMeCalls(tab, calls, d) EXCEPT ![s] = Free]
        /\ UNCHANGED <<cookie, issued, sessions, hist>>
    BY <1>1 DEF MeReturns
  <2>3. tab'.data = d /\ tab'.error = FALSE
    BY <2>1, <2>2, SetMeData
  <2>4. \A r \in Slots : \/ setMeCalls(tab, calls, d)[r] = calls[r]
                         \/ calls[r].kind = "read" /\ setMeCalls(tab, calls, d)[r] = Free
    BY OnlyReads DEF setMeCalls
  <2>5. setMeCalls(tab, calls, d) \in [Slots -> Call]
    BY CancelOK DEF setMeCalls, IInv, TypeOK, AllOK
  <2> HIDE DEF d
  <2>6. /\ calls'[s] = Free
        /\ \A r \in Slots \ {s} : \/ calls'[r] = calls[r]
                                  \/ calls[r].kind = "read" /\ calls'[r] = Free
    BY <2>2, <2>4, <2>5
  <2>7. calls[s].kind = "me" /\ Free.kind = "none"
    BY DEF MeReturns, Free
  <2>8. \A r \in Slots : calls'[r].kind # "me"
    BY <2>6, <2>7 DEF ShownInv, OneReader
  <2>9. LogoutServed => LogoutServed'
    BY <2>6, <2>7 DEF LogoutServed, Leaving
  <2>10. OneReader'
    <3>1. \A r \in Slots : calls'[r].kind = "login" => calls'[r] = calls[r]
      BY <2>6, <2>7
    <3> QED
      BY <2>2, <2>8, <3>1 DEF ShownInv, OneReader
  <2>11. ReadIsTrue'
    BY <2>8 DEF ReadIsTrue
  <2>12. ASSUME ReadIsTrue, ~LogoutServed PROVE tab'.data = Owner(cookie)'
    BY <1>1, <2>2, <2>3, <2>7, <2>12 DEF ReadIsTrue, Owner, d
  <2> QED
    BY <2>2, <2>9, <2>10, <2>11, <2>12 DEF ShownInv, ScreenIsTrue
<1>2. CASE calls[s].st = "lost" /\ tab.check
  <2>1. /\ calls' = [calls EXCEPT ![s] = fetchMe]
        /\ UNCHANGED <<cookie, issued>>
    BY <1>2 DEF MeReturns
  <2>6. ~hist'.taken
    BY <1>2, AskedOK DEF MeReturns, IInv, TypeOK
  <2>2. calls'[s] = fetchMe /\ \A r \in Slots \ {s} : calls'[r] = calls[r]
    BY <2>1 DEF IInv, TypeOK
  <2>3. fetchMe.kind = "me" /\ fetchMe.st = "sent" /\ fetchMe.as = cookie
    BY DEF fetchMe, Free
  <2>4. \A r \in Slots \ {s} : calls'[r].kind # "me"
    BY <2>2 DEF ShownInv, OneReader, MeReturns
  <2>5. cookie' <= issued' /\ issued' \in Nat /\ issued <= issued'
    BY <2>1, BoundaryAssumption DEF ShownInv, OneReader, IInv, TypeOK
  <2> QED
    BY <2>1, <2>2, <2>3, <2>4, <2>5, <2>6, FreshRead
<1>3. CASE calls[s].st = "lost" /\ ~tab.check
  <2>1. /\ calls' = [calls EXCEPT ![s] = Free]
        /\ UNCHANGED <<cookie, issued>>
        /\ tab'.error = TRUE /\ UNCHANGED hist
    BY <1>3 DEF MeReturns, IInv, TypeOK
  <2>2. calls'[s] = Free /\ \A r \in Slots \ {s} : calls'[r] = calls[r]
    BY <2>1 DEF IInv, TypeOK
  <2>3. Free.kind = "none"
    BY DEF Free
  <2>4. \A r \in Slots : calls'[r].kind # "me"
    BY <2>2, <2>3 DEF ShownInv, OneReader, MeReturns
  <2>5. OneReader'
    BY <2>1, <2>2, <2>3, <2>4 DEF ShownInv, OneReader
  <2> QED
    BY <2>1, <2>4, <2>5 DEF ShownInv, ReadIsTrue, ScreenIsTrue
<1> QED
  BY <1>1, <1>2, <1>3 DEF MeReturns

\* A private read begins (Read).
LEMMA ReadShows ==
  ASSUME IInv, ShownInv, NEW s \in Slots, Read(s)
  PROVE  ShownInv'
<1>1. calls'[s] = accountBoundFetch("read") /\ \A r \in Slots \ {s} : calls'[r] = calls[r]
  BY DEF Read, IInv, TypeOK
<1>2. calls'[s].kind = "read" /\ calls[s].kind = "none"
  BY <1>1, BoundOK DEF Read, Free
<1> QED
  BY <1>1, <1>2, PrivateStep DEF Read, Leaving

\* A private read's answer is stored, or the identity is read (ReadReturns).
LEMMA ReadReturnsShows ==
  ASSUME IInv, ShownInv, NEW s \in Slots, ReadReturns(s)
  PROVE  ShownInv'
<1>1. CASE calls[s].st = "409"
  BY <1>1, RereadShows DEF ReadReturns, Leaving
<1>2. CASE calls[s].st # "409"
  <2>1. calls'[s] = Free /\ \A r \in Slots \ {s} : calls'[r] = calls[r]
    BY <1>2 DEF ReadReturns, IInv, TypeOK
  <2>2. tab'.data = tab.data /\ tab'.error = tab.error
    BY DEF ReadReturns, IInv, TypeOK
  <2> QED
    BY <1>2, <2>1, <2>2, PrivateStep DEF ReadReturns, Leaving, Free
<1> QED
  BY <1>1, <1>2

\* A mutation is started (invoke).
LEMMA InvokeShows ==
  ASSUME IInv, ShownInv, NEW s \in Slots, NEW own \in held, invoke(s, own)
  PROVE  ShownInv'
<1>1. calls'[s].kind = "write" /\ calls[s].kind = "none"
      /\ \A r \in Slots \ {s} : calls'[r] = calls[r]
  BY DEF invoke, IInv, TypeOK, Free
<1> QED
  BY <1>1, PrivateStep DEF invoke, Leaving

\* A mutation is sent, or dropped, after its wait (mutationFn).
LEMMA MutationFnShows ==
  ASSUME IInv, ShownInv, NEW s \in Slots, mutationFn(s)
  PROVE  ShownInv'
<1>1. tab'.data = tab.data /\ tab'.error = tab.error
  BY DEF mutationFn, IInv, TypeOK
<1>2. /\ calls'[s].kind \in {"write", "none"}
      /\ \A r \in Slots \ {s} : \/ calls'[r] = calls[r]
                                \/ calls[r].kind = "read" /\ calls'[r] = Free
  <2>1. CASE isCurrent(calls[s].own)
    <3> DEFINE f == accountBoundFetch("write")
               c == [f EXCEPT !.own = calls[s].own, !.prev = tab.cache]
    <3>1. f \in Call /\ f.kind = "write"
      BY BoundOK
    <3>2. calls' = [cancelQueries(calls, {"read"}) EXCEPT ![s] = c]
      BY <2>1 DEF mutationFn
    <3> HIDE DEF f
    <3>3. c.kind = "write"
      BY <3>1 DEF Call
    <3> HIDE DEF c
    <3>4. cancelQueries(calls, {"read"}) \in [Slots -> Call]
      BY CancelOK DEF IInv, AllOK
    <3>5. calls'[s] = c /\ \A r \in Slots \ {s} : calls'[r] = cancelQueries(calls, {"read"})[r]
      BY <3>2, <3>4
    <3> QED
      BY <3>3, <3>5, OnlyReads
  <2>2. CASE ~isCurrent(calls[s].own)
    BY <2>2 DEF mutationFn, IInv, TypeOK, Free
  <2> QED
    BY <2>1, <2>2
<1> QED
  BY <1>1, <1>2, PrivateStep DEF mutationFn, Leaving

\* A mutation's answer is stored or rolled back, and a refused account rereads
\* the identity (WriteReturns).
LEMMA WriteReturnsShows ==
  ASSUME IInv, ShownInv, NEW s \in Slots, WriteReturns(s)
  PROVE  ShownInv'
<1>1. tab'.data = tab.data /\ tab'.error = tab.error
  BY DEF WriteReturns, IInv, TypeOK
<1>2. CASE Reread(s)
  BY <1>1, <1>2, RereadShows DEF WriteReturns, Leaving
<1>3. CASE calls' = [calls EXCEPT ![s] = Free] /\ UNCHANGED hist
  BY <1>1, <1>3, PrivateStep DEF WriteReturns, IInv, TypeOK, Leaving, Free
<1> QED
  BY <1>2, <1>3 DEF WriteReturns

\* The login form is sent (login).
LEMMA LoginShows ==
  ASSUME IInv, ShownInv, NEW s \in Slots, NEW u \in Users, login(s, u)
  PROVE  ShownInv'
<1>1. /\ calls'[s].kind = "login" /\ calls'[s].st = "sent" /\ calls[s].kind = "none"
      /\ \A r \in Slots \ {s} : calls'[r] = calls[r]
  BY DEF login, IInv, TypeOK, Free
<1> QED
  BY <1>1, PrivateStep DEF login, Leaving

\* The cookie of a login arrives with its answer, and the identity is read with
\* it while nothing else asks for it (LoginReturns).
LEMMA LoginReturnsShows ==
  ASSUME IInv, ShownInv, NEW s \in Slots, LoginReturns(s)
  PROVE  ShownInv'
<1>1. CASE calls[s].st = "ok"
  <2> DEFINE f == [fetchMe EXCEPT !.as = calls[s].as]
  <2>1. /\ calls' = [cancelQueries(calls, {"me", "read"}) EXCEPT ![s] = f]
        /\ cookie' = calls[s].as /\ UNCHANGED issued
    BY <1>1 DEF LoginReturns
  <2>2. f.kind = "me" /\ f.st = "sent" /\ f.as = cookie'
    BY <2>1 DEF fetchMe, Free
  <2> HIDE DEF f
  <2>3. cancelQueries(calls, {"me", "read"}) \in [Slots -> Call]
    BY CancelOK DEF IInv, AllOK
  <2>4. /\ calls'[s] = f
        /\ \A r \in Slots \ {s} : calls'[r] = cancelQueries(calls, {"me", "read"})[r]
    BY <2>1, <2>3
  <2>5. \A r \in Slots \ {s} : calls'[r] \in {calls[r], Free} /\ calls'[r].kind # "me"
    BY <2>4 DEF cancelQueries, Free
  <2>6. cookie' <= issued' /\ issued' \in Nat /\ issued <= issued'
    BY <1>1, <2>1, BoundaryAssumption DEF ShownInv, OneReader, IInv, TypeOK, LoginReturns
  <2>7. ~hist'.taken
    BY <1>1, AskedOK DEF LoginReturns, IInv, TypeOK
  <2> QED
    BY <2>2, <2>4, <2>5, <2>6, <2>7, FreshRead
<1>2. CASE calls[s].st = "lost"
  <2>1. calls'[s] = Free /\ \A r \in Slots \ {s} : calls'[r] = calls[r]
    BY <1>2 DEF LoginReturns, IInv, TypeOK
  <2> QED
    BY <1>2, <2>1, PrivateStep DEF LoginReturns, Leaving, Free
<1> QED
  BY <1>1, <1>2 DEF LoginReturns

\* A sign-out is sent (logout).
LEMMA LogoutShows ==
  ASSUME IInv, ShownInv, NEW s \in Slots, NEW kind \in Leaving, NEW all \in BOOLEAN,
         logout(s, kind, all)
  PROVE  ShownInv'
<1> DEFINE f == accountBoundFetch(kind)
           c == [f EXCEPT !.all = all]
<1>1. f \in Call /\ f.kind = kind
  BY BoundOK
<1>2. calls' = [calls EXCEPT ![s] = c]
  BY DEF logout
<1> HIDE DEF f
<1>3. c.kind \in Leaving
  BY <1>1 DEF Call
<1> HIDE DEF c
<1>4. /\ calls'[s] = c /\ calls[s].kind = "none"
      /\ \A r \in Slots \ {s} : calls'[r] = calls[r]
  BY <1>2 DEF logout, IInv, TypeOK, Free
<1> QED
  BY <1>3, <1>4, PrivateStep DEF logout, Leaving

\* After a sign-out the browser holds no cookie, and nobody is displayed unless it
\* is another account by then: the answer has taken that one's cookie
\* (LogoutReturns).
LEMMA LogoutReturnsShows ==
  ASSUME IInv, ShownInv, NEW s \in Slots, LogoutReturns(s)
  PROVE  ShownInv'
<1>0. calls[s].kind \in Leaving /\ calls[s].kind # "me"
  BY DEF LogoutReturns, Leaving
<1>1. CASE calls[s].st = "ok" /\ tab.data \notin Users \ {calls[s].exp}
  <2>1. /\ tab' = setMe(discardPrivateQueryData(tab), None)
        /\ calls' = [cancelQueries(calls, {"me", "read"}) EXCEPT ![s] = Free]
        /\ cookie' = 0 /\ UNCHANGED <<issued, hist>>
    BY <1>1 DEF LogoutReturns
  <2>2. tab'.data = None
    <3> DEFINE t1 == discardPrivateQueryData(tab)
               t2 == IF ownerChanges(t1, None) THEN discardPrivateQueryData(t1) ELSE t1
    <3>1. t1 \in [data: Users \cup {None, Unset}, error: BOOLEAN,
                  check: BOOLEAN, gen: Nat, cache: Users \cup {Unset}]
      BY DiscardOK DEF IInv, TypeOK
    <3>2. tab' = [t2 EXCEPT !.data = None, !.error = FALSE]
      BY <2>1 DEF setMe
    <3> HIDE DEF t1
    <3>3. t2 \in [data: Users \cup {None, Unset}, error: BOOLEAN,
                  check: BOOLEAN, gen: Nat, cache: Users \cup {Unset}]
      BY <3>1, DiscardOK
    <3> HIDE DEF t2
    <3> QED
      BY <3>2, <3>3
  <2>3. cancelQueries(calls, {"me", "read"}) \in [Slots -> Call]
    BY CancelOK DEF IInv, AllOK
  <2>4. /\ calls'[s] = Free
        /\ \A r \in Slots \ {s} : calls'[r] = cancelQueries(calls, {"me", "read"})[r]
    BY <2>1, <2>3
  <2>5. /\ calls'[s].kind = "none"
        /\ \A r \in Slots \ {s} :
             calls'[r].kind # "me" /\ (calls'[r].kind = "login" => calls'[r] = calls[r])
    BY <2>4 DEF cancelQueries, Free
  <2>6. OneReader'
    BY <2>1, <2>5, BoundaryAssumption DEF ShownInv, OneReader, IInv, TypeOK
  <2>7. Owner(cookie)' = None
    BY <2>1 DEF Owner, Tokens
  <2>8. ReadIsTrue' /\ ScreenIsTrue'
    BY <2>2, <2>5, <2>7 DEF ReadIsTrue, ScreenIsTrue
  <2> QED
    BY <2>1, <2>6, <2>8 DEF ShownInv
<1>2. CASE calls[s].st = "ok" /\ tab.data \in Users \ {calls[s].exp}
  <2>1. /\ calls' = [calls EXCEPT ![s] = Free]
        /\ hist' = [hist EXCEPT !.taken = TRUE]
        /\ cookie' = 0 /\ UNCHANGED issued
    BY <1>2 DEF LogoutReturns
  <2>2. calls'[s].kind = "none" /\ \A r \in Slots \ {s} : calls'[r] = calls[r]
    BY <2>1 DEF IInv, TypeOK, Free
  <2>3. OneReader'
    BY <2>1, <2>2, BoundaryAssumption DEF ShownInv, OneReader, IInv, TypeOK
  <2>4. hist'.taken = TRUE
    BY <2>1 DEF IInv, TypeOK
  <2> QED
    BY <2>1, <2>3, <2>4 DEF ShownInv
<1>3. CASE calls[s].st # "ok"
  <2>1. UNCHANGED <<cookie, tab, sessions, issued>>
    BY <1>3 DEF LogoutReturns
  <2>2. CASE Reread(s)
    BY <1>0, <1>3, <2>1, <2>2, RereadShows
  <2>3. CASE calls' = [calls EXCEPT ![s] = Free] /\ UNCHANGED hist
    BY <1>0, <1>3, <2>1, <2>3, PrivateStep DEF IInv, TypeOK, Free
  <2> QED
    BY <1>3, <2>2, <2>3 DEF LogoutReturns
<1> QED
  BY <1>1, <1>2, <1>3

\* An answer changes the status and the body of one request (Answer).
LEMMA AnswerIs ==
  ASSUME IInv, NEW s \in Slots, NEW st, NEW body, Answer(s, st, body)
  PROVE  /\ calls'[s].kind = calls[s].kind /\ calls'[s].as = calls[s].as
         /\ calls'[s].st = st /\ calls'[s].body = body
         /\ \A r \in Slots \ {s} : calls'[r] = calls[r]
BY DEF Answer, IInv, TypeOK, Call

\* The server tells whose the cookie is (ServeMe).
LEMMA ServeMeShows ==
  ASSUME IInv, ShownInv, NEW s \in Slots, ServeMe(s)
  PROVE  ShownInv'
<1>1. /\ calls'[s].kind = "me" /\ calls'[s].as = calls[s].as
      /\ calls'[s].body = Owner(calls[s].as)
      /\ \A r \in Slots \ {s} : calls'[r] = calls[r]
  BY AnswerIs DEF ServeMe
<1>2. calls[s].kind = "me"
  BY DEF ServeMe
<1>3. SameReader(s)
  BY <1>1, <1>2 DEF SameReader, Leaving
<1> QED
  BY <1>1, <1>3, OrdinaryStep DEF ServeMe

\* The server serves a private request (ServePrivate).
LEMMA ServePrivateShows ==
  ASSUME IInv, ShownInv, NEW s \in Slots, ServePrivate(s)
  PROVE  ShownInv'
<1>1. /\ calls'[s].kind = calls[s].kind /\ calls[s].kind \in {"read", "write"}
      /\ \A r \in Slots \ {s} : calls'[r] = calls[r]
  BY AnswerIs DEF ServePrivate
<1>2. hist'.behind = hist.behind /\ hist'.taken = hist.taken
  BY DEF ServePrivate, IInv, TypeOK
<1> QED
  BY <1>1, <1>2, PrivateStep DEF ServePrivate, Leaving

\* The session of a login is a new one (ServeLogin).
LEMMA ServeLoginShows ==
  ASSUME IInv, ShownInv, NEW s \in Slots, ServeLogin(s)
  PROVE  ShownInv'
<1>1. issued \in Nat /\ cookie \in Nat /\ cookie <= issued /\ issued' = issued + 1
  BY BoundaryAssumption DEF ServeLogin, ShownInv, OneReader, IInv, TypeOK
<1>2. /\ calls'[s].kind = "login" /\ calls'[s].as = issued' /\ calls[s].kind = "login"
      /\ \A r \in Slots \ {s} : calls'[r] = calls[r]
  BY <1>1 DEF ServeLogin, IInv, TypeOK, Call
<1>3. SameReader(s)
  BY <1>1, <1>2 DEF SameReader, Leaving
<1>4. ASSUME NEW r \in Slots \ {s} PROVE SameReader(r)
  <2>1. calls'[r] = calls[r] /\ calls[r].as \in Nat
    BY <1>2 DEF IInv, TypeOK, Call
  <2>2. calls[r].kind = "login" /\ calls[r].st = "ok" => calls[r].as <= issued
    BY DEF ShownInv, OneReader
  <2> QED
    BY <1>1, <2>1, <2>2 DEF SameReader
<1>5. Owner(cookie)' = Owner(cookie)
  BY <1>1 DEF Owner, ServeLogin, IInv, TypeOK, Tokens
<1>6. \A r \in Slots : SameReader(r)
  BY <1>3, <1>4
<1>7. cookie' <= issued' /\ UNCHANGED <<cookie, tab, hist>>
  BY <1>1 DEF ServeLogin
<1> QED
  BY <1>5, <1>6, <1>7, StillTrue

\* A sign-out that was refused changes nothing; one that was served will end
\* what is displayed when its answer comes (ServeLogout).
LEMMA ServeLogoutShows ==
  ASSUME IInv, ShownInv, NEW s \in Slots, ServeLogout(s)
  PROVE  ShownInv'
<1> DEFINE st == require_expected_user(s)
<1>1. /\ calls'[s].kind = calls[s].kind /\ calls[s].kind \in Leaving
      /\ calls[s].st = "sent" /\ calls'[s].st = st
      /\ \A r \in Slots \ {s} : calls'[r] = calls[r]
  BY AnswerIs DEF ServeLogout
<1>2. calls[s].kind \notin {"me", "login"}
  BY <1>1 DEF Leaving
<1>3. UNCHANGED <<cookie, issued, tab, hist>>
  BY DEF ServeLogout
<1> HIDE DEF st
<1>4. CASE st # "ok"
  <2>1. UNCHANGED sessions
    BY <1>4 DEF ServeLogout, st
  <2> QED
    BY <1>1, <1>2, <1>3, <2>1, PrivateStep
<1>5. CASE st = "ok"
  <2>1. LogoutServed'
    BY <1>1, <1>5 DEF LogoutServed
  <2>2. OneReader'
    BY <1>1, <1>2, <1>3 DEF ShownInv, OneReader
  <2>3. ReadIsTrue => ReadIsTrue'
    BY <1>1, <1>2, <1>3, <2>1 DEF ReadIsTrue
  <2> QED
    BY <1>3, <2>1, <2>2, <2>3 DEF ShownInv, ScreenIsTrue
<1> QED
  BY <1>4, <1>5

\* A request, or its answer, is lost; a served sign-out whose answer is lost
\* has taken the session behind the tab's back (Lose).
LEMMA LoseShows ==
  ASSUME IInv, ShownInv, NEW s \in Slots, Lose(s)
  PROVE  ShownInv'
<1>1. /\ calls'[s].kind = calls[s].kind /\ calls'[s].as = calls[s].as
      /\ calls'[s].st = "lost"
      /\ \A r \in Slots \ {s} : calls'[r] = calls[r]
  BY AnswerIs DEF Lose
<1>2. UNCHANGED <<sessions, issued, cookie, tab>>
  BY DEF Lose
<1>3. CASE calls[s].kind \in Leaving /\ calls[s].st = "ok"
  <2>1. hist'.behind = TRUE
    BY <1>3 DEF Lose, IInv, TypeOK
  <2>2. OneReader'
    BY <1>1, <1>2 DEF ShownInv, OneReader
  <2> QED
    BY <2>1, <2>2, BehindOK
<1>4. CASE ~(calls[s].kind \in Leaving /\ calls[s].st = "ok")
  <2>1. hist' = hist
    BY <1>4 DEF Lose
  <2>2. SameReader(s)
    BY <1>1, <1>4 DEF SameReader
  <2> QED
    BY <1>1, <1>2, <2>1, <2>2, OrdinaryStep
<1> QED
  BY <1>3, <1>4

\* Another tab signs in or out, behind this one's back.
LEMMA OthersShow ==
  ASSUME IInv, ShownInv, OtherLogout \/ \E u \in Users : OtherLogin(u)
  PROVE  ShownInv'
<1>1. hist'.behind = TRUE /\ UNCHANGED calls
  BY DEF OtherLogout, OtherLogin, IInv, TypeOK
<1>2. issued \in Nat /\ cookie \in Nat /\ cookie <= issued
  BY BoundaryAssumption DEF ShownInv, OneReader, IInv, TypeOK
<1>3. cookie' <= issued' /\ issued' \in {issued, issued + 1}
  BY <1>2 DEF OtherLogout, OtherLogin
<1>4. ASSUME NEW r \in Slots, calls[r].kind = "login", calls[r].st = "ok"
      PROVE  calls[r].as <= issued'
  <2>1. calls[r].as \in Nat /\ calls[r].as <= issued
    BY <1>4 DEF ShownInv, OneReader, IInv, TypeOK, Call
  <2> QED
    BY <1>2, <1>3, <2>1
<1>5. OneReader'
  BY <1>1, <1>3, <1>4 DEF ShownInv, OneReader
<1> QED
  BY <1>1, <1>5, BehindOK

\* Every step keeps the screen true (Next).
LEMMA NextShows == IInv /\ ShownInv /\ [Next]_vars => ShownInv'
<1> SUFFICES ASSUME IInv, ShownInv, [Next]_vars PROVE ShownInv'
  OBVIOUS
<1>1. ASSUME NEW s \in Slots, Focus(s) PROVE ShownInv'
  BY <1>1, FocusShows DEF Focus
<1>2. ASSUME NEW s \in Slots, Tab(s) PROVE ShownInv'
  BY <1>1, <1>2, MeReturnsShows, EventsErrorShows, ReadShows, ReadReturnsShows,
     MutationFnShows, WriteReturnsShows, InvokeShows, LoginShows, LoginReturnsShows,
     LogoutReturnsShows, LogoutShows
  DEF Tab
<1>3. ASSUME NEW s \in Slots, Server(s) PROVE ShownInv'
  BY <1>3, ServeMeShows, ServePrivateShows, ServeLoginShows, ServeLogoutShows, LoseShows
  DEF Server
<1>4. CASE UNCHANGED <<sessions, issued, cookie, tab, calls, hist>>
  BY <1>4 DEF ShownInv, OneReader, ReadIsTrue, ScreenIsTrue, LogoutServed, Pending, Owner
<1> QED
  BY <1>2, <1>3, <1>4, OthersShow DEF Next, Mount, vars
-----------------------------------------------------------------------------
(* The theorems.                                                           *)

\* Every step keeps the invariant (Next).
LEMMA NextOK == IInv /\ [Next]_vars => IInv'
<1> SUFFICES ASSUME IInv, [Next]_vars PROVE IInv'
  OBVIOUS
<1>1. ASSUME NEW s \in Slots, Tab(s) PROVE IInv'
  BY <1>1, MeReturnsOK, FocusOK, EventsErrorOK, ReadOK, ReadReturnsOK, MutationFnOK,
     WriteReturnsOK, InvokeOK, LoginOK, LoginReturnsOK, LogoutReturnsOK, LogoutOK
  DEF Tab
<1>2. ASSUME NEW s \in Slots, Server(s) PROVE IInv'
  BY <1>2, ServeMeOK, ServePrivateOK, ServeLoginOK, ServeLogoutOK, LoseOK DEF Server
<1>3. CASE UNCHANGED vars
  BY <1>3 DEF vars, IInv, TypeOK, AllOK, CacheIsOwners, WritesStayHome
<1> QED
  BY <1>1, <1>2, <1>3, MountOK, OtherLogoutOK, OtherLoginOK DEF Next

\* The invariant holds throughout (Spec).
THEOREM Boundary == Spec => []IInv
BY InitOK, NextOK, PTL DEF Spec

\* Whoever signs in or out in whichever tab, and however late the answers are,
\* what the tab has cached is the displayed account's (AuthSessionCacheBoundary,
\* discardPrivateQueryData, the ownership tokens of private mutations).
THEOREM CacheStaysOwners == Spec => []CacheIsOwners
<1>1. IInv => CacheIsOwners
  BY DEF IInv
<1> QED
  BY <1>1, Boundary, PTL

\* A change begun under one account is never made to another's data
\* (assertCurrent, accountBoundFetch, require_expected_user).
THEOREM WritesNeverStray == Spec => []WritesStayHome
<1>1. IInv => WritesStayHome
  BY DEF IInv
<1> QED
  BY <1>1, Boundary, PTL

\* Every variable keeps its type (the tab, its requests and the server).
THEOREM AccountTypes == Spec => []TypeOK
<1>1. IInv => TypeOK
  BY DEF IInv
<1> QED
  BY <1>1, Boundary, PTL

\* Once nothing is under way, the account displayed is the one signed in, unless
\* the session changed unseen since the identity was last asked for: outside the
\* tab, or by a sign-out whose answer was lost.  A sign-out of the tab answered
\* late may leave the account on screen without a session, and never another
\* account signed in (useLogin, useLogout, invalidateQueries on the identity).
THEOREM DisplayStaysTrue == Spec => []DisplayIsTrue
<1>1. IInv /\ ShownInv /\ [Next]_vars => ShownInv'
  BY NextShows
<1>2. ShownInv => DisplayIsTrue
  <2>1. cookie = 0 => Owner(cookie) = None
    BY DEF Owner, Tokens
  <2> QED
    BY <2>1 DEF ShownInv, ScreenIsTrue, DisplayIsTrue, LogoutServed, Pending
<1>3. Spec => []IInv
  BY Boundary
<1>4. Init => ShownInv
  BY InitShown
<1> QED
  BY <1>1, <1>2, <1>3, <1>4, PTL DEF Spec
=============================================================================
