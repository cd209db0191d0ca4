---------------------------- MODULE ActivityProof -----------------------------
(***************************************************************************)
(* The activities page, for any rows, fields, mutations, visits and        *)
(* faults: no edit is stranded in a row's queue, the last edit and the     *)
(* last wish to keep a row win, and the page at rest shows the server's    *)
(* rows.                                                                   *)
(***************************************************************************)
EXTENDS ActivityList, FiniteSetsExt, SequencesExt, TLAPS,
        FiniteSetTheorems, SequenceTheorems, WellFoundedInduction

\* A set of naturals that is not empty has a least element.
LEMMA LeastNumber ==
  ASSUME NEW S, S \subseteq Nat, S # {}
  PROVE  \E x \in S : \A y \in S : x <= y
<1> DEFINE R == {p \in Nat \X Nat : p[1] < p[2]}
<1>1. IsWellFoundedOn(R, Nat)
  BY NatLessThanWellFounded DEF OpToRel
<1> HIDE DEF R
<1>2. PICK x \in S : \A y \in S : ~(<<y, x>> \in R)
  BY <1>1, WFMin
<1>3. ASSUME NEW y \in S, y < x
      PROVE  FALSE
  <2>1. <<y, x>> \in R
    BY <1>3 DEF R
  <2> QED
    BY <1>2, <2>1
<1> QED
  BY <1>3

\* Induction over the naturals, for a set of numbers.
LEMMA SetInduction ==
  ASSUME NEW G, 0 \in G, \A n \in Nat : n \in G => n + 1 \in G
  PROVE  \A n \in Nat : n \in G
<1> SUFFICES ASSUME Nat \ G # {} PROVE FALSE
  OBVIOUS
<1>1. PICK n \in Nat \ G : \A m \in Nat \ G : n <= m
  BY LeastNumber
<1>2. n # 0 /\ n - 1 \in Nat /\ n = (n - 1) + 1
  BY <1>1
<1>3. n - 1 \notin Nat \ G
  BY <1>1
<1> QED
  BY <1>1, <1>2, <1>3

(***************************************************************************)
(* Patches and requests.                                                   *)
(***************************************************************************)
Keys == Ids \cup Temps

LEMMA OverIs ==
  ASSUME NEW p, NEW q
  PROVE  /\ DOMAIN Over(p, q) = DOMAIN p \cup DOMAIN q
         /\ \A x \in DOMAIN p : Over(p, q)[x] = p[x]
         /\ \A x \in DOMAIN q : x \notin DOMAIN p => Over(p, q)[x] = q[x]
BY DEF Over

LEMMA PatchOver ==
  ASSUME NEW p \in Patches, NEW q \in Patches
  PROVE  /\ Over(p, q) \in Patches
         /\ DOMAIN Over(p, q) = DOMAIN p \cup DOMAIN q
<1>1. PICK F \in (SUBSET Fields) \ {{}} : p \in [F -> 1..MaxOps]
  BY DEF Patches
<1>2. PICK G \in (SUBSET Fields) \ {{}} : q \in [G -> 1..MaxOps]
  BY DEF Patches
<1>3. Over(p, q) \in [F \cup G -> 1..MaxOps]
  BY <1>1, <1>2 DEF Over
<1> QED
  BY <1>3, F \cup G \in (SUBSET Fields) \ {{}}, OverIs DEF Patches

LEMMA OnePatch ==
  ASSUME NEW f \in Fields, NEW n \in 1..MaxOps
  PROVE  [x \in {f} |-> n] \in Patches
<1>1. {f} \in (SUBSET Fields) \ {{}}
  OBVIOUS
<1>2. [x \in {f} |-> n] \in [{f} -> 1..MaxOps]
  OBVIOUS
<1> QED
  BY <1>1, <1>2, Zenon DEF Patches

LEMMA PatchIs ==
  ASSUME NEW p \in Patches
  PROVE  DOMAIN p \in SUBSET Fields /\ \A f \in DOMAIN p : p[f] \in Nat /\ p[f] \in Int
<1>1. PICK F \in (SUBSET Fields) \ {{}} : p \in [F -> 1..MaxOps]
  BY DEF Patches
<1> QED
  BY <1>1, ListAssumption

\* The request that is sent for what waited.
LEMMA SentIs ==
  ASSUME NEW q \in Waiting
  PROVE  LET m == Over(q, [st |-> "sent"])
         IN  m \in Sent /\ m.by = q.by /\ m.patch = q.patch /\ m.st = "sent"
BY DEF Over, Waiting, Sent, States

LEMMA AnsweredIs ==
  ASSUME NEW a \in Sent, NEW b \in RowRecords
  PROVE  LET m == Over([a EXCEPT !.st = "ok"], [body |-> b])
         IN  m \in Answered /\ m.by = a.by /\ m.patch = a.patch /\ m.st = "ok" /\ m.body = b
BY DEF Over, Answered, Sent, States

LEMMA FailedIs ==
  ASSUME NEW a \in Sent \cup Answered, NEW x \in States
  PROVE  LET m == [a EXCEPT !.st = x]
         IN  m \in Sent \cup Answered /\ m.by = a.by /\ m.patch = a.patch /\ m.st = x
BY DEF Answered, Sent

(***************************************************************************)
(* Rows and lists.                                                         *)
(***************************************************************************)
IsList(L) == L \in SUBSET RowRecords /\ IsFiniteSet(L)

LEMMA EditedIs ==
  ASSUME NEW r \in RowRecords, NEW p \in Patches
  PROVE  Edited(r, p) \in RowRecords /\ Edited(r, p).id = r.id
<1>1. [f \in Fields |-> IF f \in DOMAIN p THEN p[f] ELSE r.val[f]] \in [Fields -> Int]
  BY PatchIs DEF RowRecords
<1> QED
  BY <1>1 DEF Edited, RowRecords

\* The image of a list is a list.
LEMMA ImageIs ==
  ASSUME NEW L, IsList(L), NEW g \in [L -> RowRecords]
  PROVE  IsList({g[x] : x \in L})
<1> DEFINE T == {g[x] : x \in L}
<1>1. g \in Surjection(L, T)
  BY DEF Surjection
<1>2. IsFiniteSet(T)
  BY <1>1, FS_Surjection DEF IsList
<1> QED
  BY <1>2 DEF IsList

LEMMA ReplaceIs ==
  ASSUME NEW L, IsList(L) \/ L = None, NEW k, NEW r \in RowRecords
  PROVE  IsList(replaceById(L, k, r))
<1>1. CASE L = None
  BY <1>1, FS_Singleton DEF replaceById, IsList
<1>2. CASE IsList(L) /\ L # None
  <2> DEFINE g == [x \in L |-> IF x.id = k THEN r ELSE x]
  <2>1. g \in [L -> RowRecords]
    BY <1>2 DEF IsList
  <2>2. replaceById(L, k, r) = {g[x] : x \in L}
    BY <1>2 DEF replaceById
  <2>3. IsList({g[x] : x \in L})
    <3> HIDE DEF g
    <3> QED
      BY <1>2, <2>1, ImageIs
  <2> QED
    BY <2>2, <2>3
<1> QED
  BY <1>1, <1>2

LEMMA PatchedIs ==
  ASSUME NEW L, IsList(L), L # None, NEW k, NEW p \in Patches
  PROVE  IsList(patchById(L, k, p))
<1> DEFINE g == [x \in L |-> IF x.id = k THEN Edited(x, p) ELSE x]
<1>1. g \in [L -> RowRecords]
  BY EditedIs DEF IsList
<1>2. patchById(L, k, p) = {g[x] : x \in L}
  BY DEF patchById
<1>3. IsList({g[x] : x \in L})
  <2> HIDE DEF g
  <2> QED
    BY <1>1, ImageIs
<1> QED
  BY <1>2, <1>3

LEMMA RemovedIs ==
  ASSUME NEW L, IsList(L), L # None, NEW k
  PROVE  IsList(removeById(L, k))
BY FS_Subset DEF removeById, IsList

LEMMA AppendedIs ==
  ASSUME NEW L, IsList(L) \/ L = None, NEW r \in RowRecords
  PROVE  IsList(appendItem(L, r))
BY FS_AddElement, FS_EmptySet DEF appendItem, IsList

LEMMA InsertedIs ==
  ASSUME NEW L, IsList(L) \/ L = None, NEW r \in RowRecords, NEW k
  PROVE  IsList(insertBySortOrder(L, r)) /\ IsList(replaceTempById(L, k, r))
<1>1. IsList(removeById(L, r.id)) \/ removeById(L, r.id) = None
  BY RemovedIs DEF removeById
<1> QED
  BY <1>1, AppendedIs, ReplaceIs DEF insertBySortOrder, replaceTempById

(***************************************************************************)
(* The server's table.                                                     *)
(***************************************************************************)
Rowed == [at : {"absent", "active", "archived"}, sort : Nat, val : [Fields -> Int]]

TableOK == table \in [Ids -> Rowed]

LEMMA RowIs ==
  ASSUME NEW t \in [Ids -> Rowed], NEW i \in Ids
  PROVE  RowOf(t, i) \in RowRecords
BY DEF RowOf, RowRecords, Rowed

LEMMA ListIs ==
  ASSUME NEW t \in [Ids -> Rowed]
  PROVE  IsList(ListOf(t))
<1> DEFINE S == {j \in Ids : t[j].at = "active"}
           g == [i \in S |-> [id |-> i, sort |-> t[i].sort, val |-> t[i].val]]
<1>1. IsFiniteSet(S)
  BY NoneAssumption, FS_Subset DEF Ids
<1>2. ListOf(t) = {g[i] : i \in S}
  BY DEF ListOf
<1>3. g \in Surjection(S, ListOf(t))
  BY <1>2 DEF Surjection
<1>4. ListOf(t) \in SUBSET RowRecords
  BY DEF ListOf, RowRecords, Rowed
<1> QED
  BY <1>1, <1>3, <1>4, FS_Surjection DEF IsList

\* A finite set of numbers has a greatest one.
LEMMA Bounded ==
  ASSUME NEW S, IsFiniteSet(S), S \subseteq Nat
  PROVE  \E n \in Nat : \A x \in S : x <= n
<1> DEFINE G == {n \in Nat : \A T \in SUBSET S :
                    Cardinality(T) = n => \E b \in Nat : \A x \in T : x <= b}
<1>1. 0 \in G
  <2>1. ASSUME NEW T \in SUBSET S, Cardinality(T) = 0
        PROVE  \E b \in Nat : \A x \in T : x <= b
    BY <2>1, FS_Subset, FS_EmptySet
  <2> QED
    BY <2>1
<1>2. ASSUME NEW n \in Nat, n \in G
      PROVE  n + 1 \in G
  <2>1. ASSUME NEW T \in SUBSET S, Cardinality(T) = n + 1
        PROVE  \E b \in Nat : \A x \in T : x <= b
    <3>1. IsFiniteSet(T) /\ T # {}
      <4>1. IsFiniteSet(T)
        BY FS_Subset
      <4> QED
        BY <2>1, <4>1, FS_EmptySet
    <3>2. PICK y \in T : TRUE
      BY <3>1
    <3>3. Cardinality(T \ {y}) = n /\ T \ {y} \in SUBSET S
      <4>1. Cardinality(T \ {y}) = Cardinality(T) - 1
        BY <3>1, <3>2, FS_RemoveElement
      <4> QED
        BY <2>1, <4>1
    <3>4. PICK b \in Nat : \A x \in T \ {y} : x <= b
      BY <1>2, <3>3
    <3>5. y \in Nat
      BY <3>2
    <3>6. \A x \in T : x <= IF b <= y THEN y ELSE b
      BY <3>4, <3>5
    <3> QED
      BY <3>5, <3>6
  <2> QED
    BY <2>1
<1> HIDE DEF G
<1>3. \A n \in Nat : n \in G
  BY <1>1, <1>2, SetInduction
<1>4. Cardinality(S) \in Nat
  BY FS_CardinalityType
<1> QED
  BY <1>3, <1>4 DEF G

LEMMA NextSortIs ==
  ASSUME TableOK
  PROVE  next_sort_order \in Nat
<1>1. Used \subseteq Nat
  BY DEF Used, TableOK, Rowed
<1>2. IsFiniteSet(Used)
  <2> DEFINE S == {j \in Ids : table[j].at # "absent"}
             g == [i \in S |-> table[i].sort]
  <2>1. IsFiniteSet(S)
    BY NoneAssumption, FS_Subset DEF Ids
  <2>2. g \in Surjection(S, Used)
    BY DEF Surjection, Used
  <2> QED
    BY <2>1, <2>2, FS_Surjection
<1>3. CASE Used = {}
  BY <1>3 DEF next_sort_order
<1>4. CASE Used # {}
  <2> DEFINE B == {n \in Nat : \A x \in Used : x <= n}
  <2>1. B # {}
    BY <1>1, <1>2, Bounded
  <2>2. PICK m \in B : \A n \in B : m <= n
    BY <2>1, LeastNumber
  <2>3. m \in Used
    <3> SUFFICES ASSUME m \notin Used PROVE FALSE
      OBVIOUS
    <3>1. \A x \in Used : x <= m - 1 /\ x \in Nat
      BY <1>1, <2>2
    <3>2. m - 1 \in B
      BY <1>4, <2>2, <3>1
    <3> QED
      BY <2>2, <3>2
  <2>4. \E k \in Used : \A n \in Used : n <= k
    BY <2>2, <2>3
  <2>5. (CHOOSE k \in Used : \A n \in Used : n <= k) \in Used
    BY <2>4
  <2> DEFINE k == CHOOSE k \in Used : \A n \in Used : n <= k
  <2>6. k \in Nat /\ next_sort_order = 1 + k
    BY <1>1, <1>4, <2>5 DEF next_sort_order
  <2> HIDE DEF k
  <2> QED
    BY <2>6
<1> QED
  BY <1>3, <1>4

(***************************************************************************)
(* Types.                                                                  *)
(***************************************************************************)
CacheOK == cache = None \/ IsList(cache)

ReadOK ==
  /\ read \in Reads \cup {None}
  /\ read # None => (read.st = "ok" => IsList(read.list))

\* A mutation under way has what its answer needs; while it has none, it has
\* no body.
CallOK(c) ==
  \/ c = Free
  \/ /\ {"op", "st"} \subseteq DOMAIN c
     /\ c.op \in {"create", "update", "archive", "restore", "reorder"}
     /\ c.st \in States
     /\ c.st = "sent" => "body" \notin DOMAIN c
     /\ c.op # "restore" => "prev" \in DOMAIN c /\ IsList(c.prev)
     /\ c.op \in {"create", "restore"} /\ c.st = "ok" => c.body \in RowRecords
     /\ c.op = "reorder" /\ c.st = "ok" => IsList(c.body)
     /\ c.op \in {"update", "archive", "restore"} => "id" \in DOMAIN c /\ c.id \in Keys
     /\ c.op = "archive" => "undo" \in DOMAIN c /\ c.undo \in BOOLEAN
     /\ c.op = "update" => /\ c.st = "sent" /\ c.visit \in Visits
                           /\ c.mutationId \in Nat
     /\ c.op = "reorder" =>
          "ids" \in DOMAIN c /\ \A i \in DOMAIN c.ids : c.ids[i] \in Nat

CallsOK == DOMAIN calls = Slots /\ \A s \in Slots : CallOK(calls[s])

RequestOK(a) == (a.st = "sent" => a \in Sent) /\ (a.st = "ok" => a \in Answered)

QueuesOK ==
  /\ active \in [Visits -> [Keys -> Sent \cup Answered \cup {None}]]
  /\ queued \in [Visits -> [Keys -> Waiting \cup {None}]]
  /\ latest \in [Visits -> [Keys -> Nat]]
  /\ \A v \in Visits, k \in Keys : active[v][k] # None => RequestOK(active[v][k])

Counts == [ops : Nat, agent : Nat, faults : Nat]

Histories == [edit : [Ids -> [Fields -> Nat]], keep : [Ids -> BOOLEAN],
              visits : [Ids -> SUBSET Visits], spoilt : SUBSET Ids, stale : BOOLEAN]

RestOK ==
  /\ undo \in Undoable \cup {None}
  /\ visit \in Visits
  /\ event \in BOOLEAN
  /\ count \in Counts
  /\ hist \in Histories

TypesInv == TableOK /\ CacheOK /\ ReadOK /\ CallsOK /\ QueuesOK /\ RestOK

\* The edits of row k begun in visit v, those that its request carries, and
\* those that wait behind it.
Edits(v, k) ==
  {s \in Slots : calls[s].op = "update" /\ calls[s].visit = v /\ calls[s].id = k}
Carried(v, k) == IF active[v][k] = None THEN {} ELSE active[v][k].by
Held(v, k) == IF queued[v][k] = None THEN {} ELSE queued[v][k].by
IsLatest(s, v, k) == calls[s].mutationId = latest[v][k]

\* An edit is carried or waits, not both; and the row's latest one is at the
\* end of the queue.
RowQueue(v, k) ==
  /\ Edits(v, k) = Carried(v, k) \cup Held(v, k)
  /\ Carried(v, k) \cap Held(v, k) = {}
  /\ queued[v][k] # None =>
       active[v][k] # None /\ \E s \in Held(v, k) : IsLatest(s, v, k)
  /\ active[v][k] # None /\ queued[v][k] = None =>
       \E s \in Carried(v, k) : IsLatest(s, v, k)

QueueInv == \A v \in Visits, k \in Keys : RowQueue(v, k)

(***************************************************************************)
(* Steps that are taken in several actions.                                *)
(***************************************************************************)
LEMMA FreeIs == Free.op = "none" /\ CallOK(Free) /\ DOMAIN Free = {"op"}
BY DEF Free, CallOK

LEMMA InvalidateIs ==
  ASSUME ReadOK, invalidateQueries
  PROVE  ReadOK' /\ read' # None
<1>1. [st |-> "sent"] \in Reads /\ [st |-> "sent"].st # "ok" /\ [st |-> "sent"] # None
  BY NoneAssumption DEF Reads
<1> QED
  BY <1>1 DEF ReadOK, invalidateQueries

\* A mutation that begins.
LEMMA StartIs ==
  ASSUME TypesInv, NEW s \in Slots, NEW call, Start(s, call), IsList(cache),
         CallOK(Over(call, [prev |-> cache]))
  PROVE  /\ CallsOK' /\ ReadOK' /\ read' = None
         /\ count' \in Counts /\ count.ops + 1 \in 1..MaxOps
         /\ calls[s] = Free /\ calls'[s] = Over(call, [prev |-> cache])
         /\ \A r \in Slots : r # s => calls'[r] = calls[r]
<1>1. calls' = [calls EXCEPT ![s] = Over(call, [prev |-> cache])] /\ calls[s] = Free
  BY DEF Start, FirstFree
<1>2. CallsOK' /\ calls'[s] = Over(call, [prev |-> cache])
      /\ \A r \in Slots : r # s => calls'[r] = calls[r]
  BY <1>1 DEF TypesInv, CallsOK
<1>3. ReadOK' /\ read' = None
  BY DEF Start, ReadOK
<1>4. count' \in Counts /\ count.ops + 1 \in 1..MaxOps
  BY ListAssumption DEF Start, TypesInv, RestOK, Counts
<1> QED
  BY <1>1, <1>2, <1>3, <1>4

\* What an answer says of the row's history.
LEMMA ToldIs ==
  ASSUME hist \in Histories, NEW ok, NEW k
  PROVE  Told(ok, k) \in Histories /\ Fresh(Told(ok, k)) \in Histories
         /\ Fresh(hist) \in Histories
BY DEF Told, Fresh, Histories

(***************************************************************************)
(* The types are kept.                                                     *)
(***************************************************************************)
LEMMA TypeCreate ==
  ASSUME TypesInv, NEW s \in Slots, useCreateInList(s)
  PROVE  TypesInv' /\ (cache # None => IsList(cache'))
<1> DEFINE call == [op |-> "create", st |-> "sent"]
           c == Over(call, [prev |-> cache])
<1>1. IsList(cache)
  BY DEF useCreateInList, TypesInv, CacheOK
<1>2. CallOK(c)
  BY <1>1 DEF Over, CallOK, States
<1>3. CallsOK' /\ ReadOK' /\ count' \in Counts
  BY <1>1, <1>2, StartIs DEF useCreateInList
<1>4. tempActivity(s) \in RowRecords
  <2>1. Cardinality(cache) \in Nat
    BY <1>1, FS_CardinalityType DEF IsList
  <2>2. [f \in Fields |-> 0] \in [Fields -> Int] /\ TempId(s) \in Temps
    BY DEF Temps
  <2> QED
    BY <2>1, <2>2 DEF tempActivity, RowRecords
<1>5. CacheOK' /\ (cache # None => IsList(cache'))
  BY <1>1, <1>4, AppendedIs DEF useCreateInList, CacheOK
<1> QED
  BY <1>3, <1>5 DEF useCreateInList, TypesInv, TableOK, QueuesOK, RestOK

\* The row's queue takes the edit.
LEMMA EnqueueIs ==
  ASSUME QueuesOK, NEW s \in Slots, NEW k \in Keys, NEW p \in Patches, visit \in Visits,
         enqueue(s, k, p)
  PROVE  /\ active' \in [Visits -> [Keys -> Sent \cup Answered \cup {None}]]
         /\ queued' \in [Visits -> [Keys -> Waiting \cup {None}]]
         /\ \A v \in Visits, i \in Keys : active'[v][i] # None => RequestOK(active'[v][i])
<1>1. CASE active[visit][k] = None
  <2> DEFINE m == [patch |-> p, by |-> {s}, st |-> "sent"]
  <2>1. m \in Sent /\ m.st # "ok"
    BY DEF Sent, States
  <2>2. active' = [active EXCEPT ![visit][k] = m] /\ queued' = queued
    BY <1>1 DEF enqueue
  <2> HIDE DEF m
  <2> QED
    BY <2>1, <2>2 DEF QueuesOK, RequestOK
<1>2. CASE active[visit][k] # None
  <2> DEFINE q == queued[visit][k]
             m == IF q = None THEN [patch |-> p, by |-> {s}]
                  ELSE [patch |-> Over(p, q.patch), by |-> q.by \cup {s}]
  <2>1. q = None \/ q \in Waiting
    BY DEF QueuesOK
  <2>2. m \in Waiting
    BY <2>1, PatchOver DEF Waiting
  <2>3. queued' = [queued EXCEPT ![visit][k] = m] /\ active' = active
    BY <1>2 DEF enqueue
  <2> HIDE DEF m
  <2> QED
    BY <2>2, <2>3 DEF QueuesOK
<1> QED
  BY <1>1, <1>2

LEMMA ShownIsKey ==
  ASSUME TypesInv, NEW k \in shown
  PROVE  k \in Keys /\ IsList(cache) /\ cache # None
BY DEF shown, TypesInv, CacheOK, IsList, RowRecords, Keys

LEMMA TypeUpdate ==
  ASSUME TypesInv, NEW s \in Slots, NEW k \in shown, NEW f \in Fields, useUpdateInList(s, k, f)
  PROVE  TypesInv' /\ (cache # None => IsList(cache'))
<1> DEFINE n == count.ops + 1
           p == [x \in {f} |-> n]
           call == [op |-> "update", st |-> "sent", id |-> k, visit |-> visit,
                    mutationId |-> n]
           c == Over(call, [prev |-> cache])
<1>1. k \in Keys /\ IsList(cache) /\ cache # None /\ visit \in Visits /\ n \in Nat
  BY ShownIsKey DEF TypesInv, RestOK, Counts
<1>2. CallOK(c)
  BY <1>1 DEF Over, CallOK, States
<1>3. CallsOK' /\ ReadOK' /\ count' \in Counts /\ n \in 1..MaxOps
  BY <1>1, <1>2, StartIs DEF useUpdateInList
<1>4. p \in Patches
  BY <1>3, OnePatch
<1>5. CacheOK' /\ (cache # None => IsList(cache'))
  BY <1>1, <1>4, PatchedIs DEF useUpdateInList, CacheOK
<1>6. QueuesOK'
  <2>1. latest' \in [Visits -> [Keys -> Nat]]
    BY <1>1 DEF useUpdateInList, TypesInv, QueuesOK
  <2>2. enqueue(s, k, p)
    BY DEF useUpdateInList
  <2> QED
    BY <1>1, <1>4, <2>1, <2>2, EnqueueIs DEF TypesInv, QueuesOK
<1>7. hist' \in Histories
  <2>1. hist \in Histories
    BY DEF TypesInv, RestOK
  <2>2. CASE k \in Temps
    BY <2>1, <2>2 DEF useUpdateInList
  <2>3. CASE k \notin Temps
    <3>1. k \in Ids
      BY <1>1, <2>3 DEF Keys
    <3>2. hist' = [hist EXCEPT !.edit[k][f] = n, !.visits[k] = @ \cup {visit}]
      BY <2>3 DEF useUpdateInList
    <3> HIDE DEF n
    <3> QED
      BY <1>1, <2>1, <3>1, <3>2 DEF Histories
  <2> QED
    BY <2>2, <2>3
<1> QED
  BY <1>3, <1>5, <1>6, <1>7 DEF useUpdateInList, TypesInv, TableOK, RestOK

LEMMA TypeArchive ==
  ASSUME TypesInv, NEW s \in Slots, NEW k \in shown, archive(s, k)
  PROVE  TypesInv' /\ (cache # None => IsList(cache'))
<1> DEFINE call == [op |-> "archive", st |-> "sent", id |-> k, undo |-> FALSE]
           c == Over(call, [prev |-> cache])
<1>1. k \in Keys /\ IsList(cache) /\ cache # None
  BY ShownIsKey
<1>2. CallOK(c)
  BY <1>1 DEF Over, CallOK, States
<1>3. CallsOK' /\ ReadOK' /\ count' \in Counts
  BY <1>1, <1>2, StartIs DEF archive
<1>4. CacheOK' /\ (cache # None => IsList(cache'))
  BY <1>1, RemovedIs DEF archive, CacheOK
<1>5. undo' \in Undoable
  BY <1>1 DEF archive, Undoable, Keys
<1>6. hist' \in Histories
  <2>1. hist \in Histories /\ \A r \in Deleting(k) : calls[r].id = k
    BY DEF TypesInv, RestOK, Deleting
  <2>2. k \in Temps \/ k \in Ids
    BY <1>1 DEF Keys
  <2> QED
    BY <2>1, <2>2 DEF archive, Histories
<1> QED
  BY <1>3, <1>4, <1>5, <1>6 DEF archive, TypesInv, TableOK, QueuesOK, RestOK

LEMMA TypeUndo ==
  ASSUME TypesInv, NEW s \in Slots, undoDelete(s)
  PROVE  TypesInv' /\ (cache # None => IsList(cache'))
<1>1. undo \in Undoable /\ undo.id \in Keys
  BY DEF undoDelete, TypesInv, RestOK, Undoable, Keys
<1>2. CallsOK' /\ count' \in Counts
  <2>1. CASE undo.slot # None
    <3>1. calls' = [calls EXCEPT ![s].undo = TRUE] /\ count' = count
      BY <2>1 DEF undoDelete
    <3>2. CallOK([calls[s] EXCEPT !.undo = TRUE])
      <4>1. CASE calls[s] = Free
        <5>1. [Free EXCEPT !.undo = TRUE] = Free
          BY DEF Free
        <5> QED
          BY <4>1, <5>1, FreeIs
      <4>2. CASE calls[s] # Free
        BY <4>2 DEF TypesInv, CallsOK, CallOK
      <4> QED
        BY <4>1, <4>2
    <3> QED
      BY <3>1, <3>2 DEF TypesInv, CallsOK, RestOK
  <2>2. CASE undo.slot = None
    <3>1. /\ calls' = [calls EXCEPT ![s] = [op |-> "restore", st |-> "sent", id |-> undo.id]]
          /\ count' = [count EXCEPT !.ops = @ + 1]
      BY <2>2 DEF undoDelete
    <3>2. CallOK([op |-> "restore", st |-> "sent", id |-> undo.id])
      BY <1>1 DEF CallOK, States
    <3> QED
      BY <3>1, <3>2 DEF TypesInv, CallsOK, RestOK, Counts
  <2> QED
    BY <2>1, <2>2
<1>3. hist' \in Histories
  BY <1>1 DEF undoDelete, TypesInv, RestOK, Histories, Keys
<1> QED
  BY <1>2, <1>3 DEF undoDelete, TypesInv, TableOK, CacheOK, ReadOK, QueuesOK, RestOK

LEMMA TypeReorder ==
  ASSUME TypesInv, NEW s \in Slots, useReorderList(s)
  PROVE  TypesInv' /\ (cache # None => IsList(cache'))
<1>1. PICK ids \in Bijection(shown, 0..Cardinality(shown) - 1) :
        Start(s, [op |-> "reorder", st |-> "sent", ids |-> ids])
  BY DEF useReorderList
<1>2. IsList(cache)
  <2>1. CASE cache = None
    <3>1. shown = {}
      BY <2>1 DEF shown
    <3> QED
      BY <3>1, FS_EmptySet DEF useReorderList
  <2> QED
    BY <2>1 DEF TypesInv, CacheOK
<1>3. \A i \in DOMAIN ids : ids[i] \in Nat
  BY DEF Bijection, Injection
<1>4. CallOK(Over([op |-> "reorder", st |-> "sent", ids |-> ids], [prev |-> cache]))
  BY <1>2, <1>3 DEF Over, CallOK, States
<1>5. CallsOK' /\ ReadOK' /\ count' \in Counts
  BY <1>1, <1>2, <1>4, StartIs
<1> QED
  BY <1>5 DEF useReorderList, TypesInv, TableOK, CacheOK, QueuesOK, RestOK

\* The undo window closes, the page is opened again, or the list is read on
\* focus.
LEMMA TypePages ==
  ASSUME TypesInv, clearPending \/ Remount \/ Focus
  PROVE  TypesInv' /\ (cache # None => IsList(cache'))
<1>1. [st |-> "sent"] \in Reads /\ [st |-> "sent"].st # "ok"
  BY DEF Reads
<1>2. CASE clearPending
  BY <1>2 DEF clearPending, TypesInv, TableOK, CacheOK, ReadOK, CallsOK, QueuesOK, RestOK
<1>3. CASE Remount
  <2>1. visit' \in Visits
    BY <1>3, ListAssumption DEF Remount, TypesInv, RestOK, Visits
  <2>2. hist' \in Histories
    BY <1>3 DEF Remount, TypesInv, RestOK, Histories
  <2>3. ReadOK'
    BY <1>1, <1>3 DEF Remount, TypesInv, ReadOK
  <2> QED
    BY <1>3, <2>1, <2>2, <2>3 DEF Remount, TypesInv, TableOK, CacheOK, CallsOK, QueuesOK, RestOK
<1>4. CASE Focus
  <2>1. hist' \in Histories
    BY <1>4 DEF Focus, TypesInv, RestOK, Histories
  <2>2. ReadOK'
    BY <1>1, <1>4 DEF Focus, TypesInv, ReadOK
  <2> QED
    BY <1>4, <2>1, <2>2 DEF Focus, TypesInv, TableOK, CacheOK, CallsOK, QueuesOK, RestOK
<1> QED
  BY <1>2, <1>3, <1>4

LEMMA TypeMutation ==
  ASSUME TypesInv, NEW s \in Slots, MutationReturns(s)
  PROVE  TypesInv' /\ (cache # None => IsList(cache'))
<1> DEFINE call == calls[s]
           ok == call.st = "ok"
           back == [op |-> "restore", st |-> "sent", id |-> call.id]
<1>1. call # Free /\ CallOK(call) /\ (call.op = "archive" => CallOK(back))
  <2>1. call # Free /\ CallOK(call)
    BY FreeIs DEF MutationReturns, TypesInv, CallsOK
  <2>2. call.op = "archive" => call.id \in Keys
    BY <2>1 DEF CallOK
  <2>3. call.op = "archive" => CallOK(back)
    BY <2>2 DEF CallOK, States
  <2> QED
    BY <2>1, <2>3
<1>2. CallsOK'
  BY <1>1, FreeIs DEF MutationReturns, TypesInv, CallsOK
<1>3. CacheOK' /\ (cache # None => IsList(cache'))
  <2>1. cache = None \/ IsList(cache)
    BY DEF TypesInv, CacheOK
  <2>2. CASE ~ok /\ call.op # "restore"
    <3>1. cache' = call.prev
      BY <2>2 DEF MutationReturns, Returned
    <3> QED
      BY <1>1, <2>2, <3>1 DEF CallOK, CacheOK
  <2>3. CASE ok /\ call.op = "create"
    <3>1. cache' = replaceTempById(cache, TempId(s), call.body)
      BY <2>3 DEF MutationReturns, Returned
    <3>2. call.body \in RowRecords
      BY <1>1, <2>3 DEF CallOK
    <3> QED
      BY <2>1, <3>1, <3>2, InsertedIs DEF CacheOK
  <2>4. CASE ok /\ call.op = "restore"
    <3>1. cache' = insertBySortOrder(cache, call.body)
      BY <2>4 DEF MutationReturns, Returned
    <3>2. call.body \in RowRecords
      BY <1>1, <2>4 DEF CallOK
    <3> QED
      BY <2>1, <3>1, <3>2, InsertedIs DEF CacheOK
  <2>5. CASE ok /\ call.op = "reorder"
    <3>1. cache' = call.body
      BY <2>5 DEF MutationReturns, Returned
    <3> QED
      BY <1>1, <2>5, <3>1 DEF CallOK, CacheOK
  <2>6. CASE (ok /\ call.op = "archive") \/ (~ok /\ call.op = "restore")
    <3>1. cache' = cache
      BY <2>6 DEF MutationReturns, Returned
    <3> QED
      BY <2>1, <3>1 DEF CacheOK
  <2>7. call.op \in {"create", "archive", "restore", "reorder"}
    BY DEF MutationReturns
  <2> QED
    BY <2>2, <2>3, <2>4, <2>5, <2>6, <2>7
<1>4. undo' \in Undoable \cup {None}
  BY DEF MutationReturns, TypesInv, RestOK, Undoable
<1>5. hist' \in Histories
  BY ToldIs DEF MutationReturns, TypesInv, RestOK
<1>6. ReadOK'
  BY InvalidateIs DEF MutationReturns, TypesInv
<1> QED
  BY <1>2, <1>3, <1>4, <1>5, <1>6 DEF MutationReturns, TypesInv, TableOK, QueuesOK, RestOK

\* What the row's queue is after its request was answered.
LEMMA FlushIs ==
  ASSUME QueuesOK, NEW v \in Visits, NEW k \in Keys, flushQueued(v, k)
  PROVE  /\ active' \in [Visits -> [Keys -> Sent \cup Answered \cup {None}]]
         /\ queued' \in [Visits -> [Keys -> Waiting \cup {None}]]
         /\ \A u \in Visits, i \in Keys :
              /\ u # v \/ i # k => active'[u][i] = active[u][i] /\ queued'[u][i] = queued[u][i]
              /\ active'[u][i] # None => RequestOK(active'[u][i])
         /\ queued'[v][k] = None
         /\ queued[v][k] = None => active'[v][k] = None
         /\ queued[v][k] # None =>
              /\ active'[v][k] # None
              /\ active'[v][k].st = "sent"
              /\ active'[v][k].by = queued[v][k].by
              /\ active'[v][k].patch = queued[v][k].patch
<1> DEFINE m == IF queued[v][k] = None THEN None
                ELSE Over(queued[v][k], [st |-> "sent"])
<1>1. queued[v][k] = None \/ queued[v][k] \in Waiting
  BY DEF QueuesOK
<1>2. queued[v][k] # None =>
        /\ m \in Sent /\ m # None /\ m.by = queued[v][k].by /\ m.patch = queued[v][k].patch
        /\ m.st = "sent"
  BY <1>1, SentIs, NoneAssumption
<1>3. queued[v][k] = None => m = None
  OBVIOUS
<1>4. /\ active' = [active EXCEPT ![v][k] = m]
      /\ queued' = [queued EXCEPT ![v][k] = None]
  BY DEF flushQueued
<1> HIDE DEF m
<1>5. active'[v][k] = m /\ queued'[v][k] = None
  BY <1>4 DEF QueuesOK
<1>6. /\ active' \in [Visits -> [Keys -> Sent \cup Answered \cup {None}]]
      /\ queued' \in [Visits -> [Keys -> Waiting \cup {None}]]
  BY <1>2, <1>3, <1>4 DEF QueuesOK
<1>7. \A u \in Visits, i \in Keys :
        u # v \/ i # k => active'[u][i] = active[u][i] /\ queued'[u][i] = queued[u][i]
  BY <1>4 DEF QueuesOK
<1>8. \A u \in Visits, i \in Keys : active'[u][i] # None => RequestOK(active'[u][i])
  BY <1>2, <1>3, <1>5, <1>7 DEF QueuesOK, RequestOK
<1> QED
  BY <1>2, <1>3, <1>5, <1>6, <1>7, <1>8

LEMMA TypeUpdateReturns ==
  ASSUME TypesInv, QueueInv, NEW v \in Visits, NEW k \in Keys, UpdateReturns(v, k)
  PROVE  TypesInv' /\ (cache # None => IsList(cache'))
<1> DEFINE a == active[v][k]
           ok == a.st = "ok"
           last == {s \in a.by : calls[s].mutationId = latest[v][k]}
<1>1. a # None /\ a \in Sent \cup Answered /\ a.by = Carried(v, k)
  BY DEF UpdateReturns, TypesInv, QueuesOK, Carried
<1>2. a.by \subseteq Edits(v, k)
  BY <1>1 DEF QueueInv, RowQueue
<1>3. CallsOK'
  BY FreeIs DEF UpdateReturns, TypesInv, CallsOK
<1>4. flushQueued(v, k) /\ latest' = latest
  BY DEF UpdateReturns
<1>5. QueuesOK'
  BY <1>4, FlushIs DEF TypesInv, QueuesOK
<1>6. hist' \in Histories
  BY ToldIs DEF UpdateReturns, TypesInv, RestOK
<1>7. CacheOK' /\ (cache # None => IsList(cache')) /\ ReadOK'
  <2>1. CASE last = {}
    <3>1. cache' = cache /\ read' = read
      BY <2>1 DEF UpdateReturns
    <3> QED
      BY <3>1 DEF TypesInv, CacheOK, ReadOK
  <2>2. CASE last # {}
    <3>1. ReadOK'
      BY <2>2, InvalidateIs DEF UpdateReturns, TypesInv
    <3>2. CASE ok
      <4>1. cache' = replaceById(cache, k, a.body)
        BY <2>2, <3>2 DEF UpdateReturns
      <4>2. a.body \in RowRecords
        <5>1. a \in Answered
          BY <1>1, <3>2 DEF TypesInv, QueuesOK, RequestOK
        <5> QED
          BY <5>1 DEF Answered
      <4> QED
        BY <3>1, <4>1, <4>2, ReplaceIs DEF TypesInv, CacheOK
    <3>3. CASE ~ok
      <4>1. (CHOOSE s \in last : TRUE) \in last
        BY <2>2
      <4>2. (CHOOSE s \in last : TRUE) \in Edits(v, k)
        BY <1>2, <4>1
      <4>3. cache' = calls[CHOOSE s \in last : TRUE].prev
        BY <2>2, <3>3 DEF UpdateReturns
      <4>4. \A s \in Edits(v, k) : IsList(calls[s].prev)
        BY FreeIs DEF Edits, TypesInv, CallsOK, CallOK
      <4> QED
        BY <3>1, <4>2, <4>3, <4>4 DEF CacheOK
    <3> QED
      BY <3>2, <3>3
  <2> QED
    BY <2>1, <2>2
<1> QED
  BY <1>3, <1>5, <1>6, <1>7 DEF UpdateReturns, TypesInv, TableOK, RestOK

\* A read ends, or a change event is heard.
LEMMA TypeReads ==
  ASSUME TypesInv, ReadReturns \/ invalidateFromChange
  PROVE  TypesInv' /\ (cache # None => IsList(cache'))
<1>1. CASE ReadReturns
  <2>1. ReadOK' /\ read \in Reads
    BY <1>1 DEF ReadReturns, TypesInv, ReadOK
  <2>2. CacheOK' /\ (cache # None => IsList(cache'))
    BY <1>1 DEF ReadReturns, TypesInv, ReadOK, CacheOK
  <2>3. hist' \in Histories
    BY <1>1 DEF ReadReturns, TypesInv, RestOK, Histories
  <2> QED
    BY <1>1, <2>1, <2>2, <2>3 DEF ReadReturns, TypesInv, TableOK, CallsOK, QueuesOK, RestOK
<1>2. CASE invalidateFromChange
  <2>1. ReadOK'
    BY <1>2, InvalidateIs DEF invalidateFromChange, TypesInv
  <2>2. hist' \in Histories
    BY <1>2 DEF invalidateFromChange, TypesInv, RestOK, Histories
  <2> QED
    BY <1>2, <2>1, <2>2
       DEF invalidateFromChange, TypesInv, TableOK, CacheOK, CallsOK, QueuesOK, RestOK
<1> QED
  BY <1>1, <1>2

\* A mutation that the server has answered.
LEMMA AnswerIs ==
  ASSUME CallsOK, NEW s \in Slots, calls[s] # Free, calls[s].st = "sent", NEW st \in States \ {"sent"},
         calls[s].op # "update", NEW b, Answer(s, st, b),
         calls[s].op \in {"create", "restore"} /\ st = "ok" => b \in RowRecords,
         calls[s].op = "reorder" /\ st = "ok" => IsList(b)
  PROVE  /\ CallsOK'
         /\ calls'[s].op = calls[s].op /\ calls'[s].st = st /\ calls'[s].body = b
         /\ calls'[s] # Free
         /\ calls[s].op # "create" => calls'[s].id = calls[s].id \/ calls[s].op = "reorder"
         /\ calls[s].op = "archive" => calls'[s].undo = calls[s].undo
         /\ \A r \in Slots : r # s => calls'[r] = calls[r]
<1> DEFINE c == calls[s]
           m == Over([c EXCEPT !.st = st], [body |-> b])
<1>1. CallOK(c) /\ c # Free
  BY DEF CallsOK
<1>2. /\ DOMAIN m = DOMAIN c \cup {"body"} /\ m.body = b /\ m.st = st
      /\ \A x \in DOMAIN c : x # "st" => m[x] = c[x]
  <2>1. "body" \notin DOMAIN c /\ "st" \in DOMAIN c
    BY <1>1 DEF CallOK
  <2> QED
    BY <2>1 DEF Over
<1>3. calls' = [calls EXCEPT ![s] = m]
  BY DEF Answer
<1> HIDE DEF m
<1>4. m.op = c.op
  BY <1>1, <1>2 DEF CallOK
<1>5. CallOK(m)
  BY <1>1, <1>2, <1>4 DEF CallOK
<1>6. m # Free
  BY <1>2, FreeIs
<1>7. (c.op \in {"update", "archive", "restore"} => m.id = c.id) /\ (c.op = "archive" => m.undo = c.undo)
  BY <1>1, <1>2 DEF CallOK
<1>8. calls'[s] = m /\ \A r \in Slots : r # s => calls'[r] = calls[r]
  BY <1>3 DEF CallsOK
<1>9. CallsOK'
  BY <1>3, <1>5, <1>8 DEF CallsOK
<1> QED
  BY <1>1, <1>2, <1>4, <1>6, <1>7, <1>8, <1>9 DEF CallOK

LEMMA TypeServed ==
  ASSUME TypesInv, NEW s \in Slots,
         create_activity(s) \/ archive_activity(s) \/ restore_activity(s) \/ reorder_activities(s)
  PROVE  TableOK' /\ CallsOK' /\ event' \in BOOLEAN
<1>1. event \in BOOLEAN /\ CallsOK /\ TableOK /\ "ok" \in States \ {"sent"}
      /\ "refused" \in States \ {"sent"}
  BY DEF TypesInv, RestOK, States
<1>2. CASE create_activity(s)
  <2>1. calls[s] # Free /\ calls[s].op = "create" /\ calls[s].st = "sent"
    BY <1>2, FreeIs DEF create_activity
  <2>2. CASE Cardinality(ListOf(table)) < Cap
    <3>1. PICK i \in News :
            LET t == [table EXCEPT ![i].at = "active", ![i].sort = next_sort_order]
            IN  Written(t) /\ Answer(s, "ok", RowOf(t, i))
      BY <1>2, <2>2 DEF create_activity
    <3> DEFINE t == [table EXCEPT ![i].at = "active", ![i].sort = next_sort_order]
    <3>2. t \in [Ids -> Rowed]
      BY <1>1, NextSortIs DEF TableOK, Rowed
    <3>3. Written(t) /\ Answer(s, "ok", RowOf(t, i)) /\ i \in Ids
      BY <3>1 DEF Ids
    <3> HIDE DEF t
    <3>4. RowOf(t, i) \in RowRecords
      BY <3>2, <3>3, RowIs
    <3>5. CallsOK'
      BY <1>1, <2>1, <3>3, <3>4, AnswerIs
    <3> QED
      BY <3>2, <3>3, <3>5 DEF Written, TableOK
  <2>3. CASE ~(Cardinality(ListOf(table)) < Cap)
    <3>1. Refused /\ Answer(s, "refused", None)
      BY <1>2, <2>3 DEF create_activity
    <3>2. CallsOK'
      BY <1>1, <2>1, <3>1, AnswerIs
    <3> QED
      BY <1>1, <3>1, <3>2 DEF Refused, TableOK
  <2> QED
    BY <2>2, <2>3
<1>3. CASE archive_activity(s)
  <2> DEFINE i == calls[s].id
  <2>1. calls[s] # Free /\ calls[s].op = "archive" /\ calls[s].st = "sent"
    BY <1>3, FreeIs DEF archive_activity
  <2>2. CASE i \in Ids /\ table[i].at = "active"
    <3> DEFINE t == [table EXCEPT ![i].at = "archived"]
    <3>1. t \in [Ids -> Rowed]
      BY <1>1, <2>2 DEF TableOK, Rowed
    <3>2. Written(t) /\ Answer(s, "ok", None)
      BY <1>3, <2>2 DEF archive_activity
    <3> HIDE DEF t
    <3>3. CallsOK'
      BY <1>1, <2>1, <3>2, AnswerIs
    <3> QED
      BY <3>1, <3>2, <3>3 DEF Written, TableOK
  <2>3. CASE ~(i \in Ids /\ table[i].at = "active")
    <3>1. Refused /\ Answer(s, "refused", None)
      BY <1>3, <2>3 DEF archive_activity
    <3>2. CallsOK'
      BY <1>1, <2>1, <3>1, AnswerIs
    <3> QED
      BY <1>1, <3>1, <3>2 DEF Refused, TableOK
  <2> QED
    BY <2>2, <2>3
<1>4. CASE restore_activity(s)
  <2> DEFINE i == calls[s].id
             t == [table EXCEPT ![i].at = "active",
                                ![i].sort = IF RestoreLast THEN next_sort_order ELSE @]
             G == /\ i \in Ids /\ table[i].at = "archived"
                  /\ Cardinality(ListOf(table)) < Cap
  <2>1. calls[s] # Free /\ calls[s].op = "restore" /\ calls[s].st = "sent"
    BY <1>4, FreeIs DEF restore_activity
  <2>2. CASE G
    <3>1. t \in [Ids -> Rowed]
      BY <1>1, <2>2, NextSortIs DEF TableOK, Rowed
    <3>2. Written(t) /\ Answer(s, "ok", RowOf(t, i))
      BY <1>4, <2>2 DEF restore_activity
    <3> HIDE DEF t
    <3>3. RowOf(t, i) \in RowRecords
      BY <2>2, <3>1, RowIs
    <3>4. CallsOK'
      BY <1>1, <2>1, <3>2, <3>3, AnswerIs
    <3> QED
      BY <3>1, <3>2, <3>4 DEF Written, TableOK
  <2>3. CASE ~G
    <3>1. Refused /\ Answer(s, "refused", None)
      BY <1>4, <2>3 DEF restore_activity
    <3>2. CallsOK'
      BY <1>1, <2>1, <3>1, AnswerIs
    <3> QED
      BY <1>1, <3>1, <3>2 DEF Refused, TableOK
  <2> QED
    BY <2>2, <2>3
<1>5. CASE reorder_activities(s)
  <2> DEFINE ids == calls[s].ids
             t == [i \in Ids |-> IF i \in DOMAIN ids
                                 THEN [table[i] EXCEPT !.sort = ids[i]] ELSE table[i]]
             G == DOMAIN ids = {r.id : r \in ListOf(table)}
  <2>1. calls[s] # Free /\ calls[s].op = "reorder" /\ calls[s].st = "sent"
    BY <1>5, FreeIs DEF reorder_activities
  <2>2. \A j \in DOMAIN ids : ids[j] \in Nat
    BY <1>1, <2>1 DEF CallsOK, CallOK
  <2>3. CASE G
    <3>1. t \in [Ids -> Rowed]
      BY <1>1, <2>2 DEF TableOK, Rowed
    <3>2. Written(t) /\ Answer(s, "ok", ListOf(t))
      BY <1>5, <2>3 DEF reorder_activities
    <3> HIDE DEF t
    <3>3. IsList(ListOf(t))
      BY <3>1, ListIs
    <3>4. CallsOK'
      BY <1>1, <2>1, <3>2, <3>3, AnswerIs
    <3> QED
      BY <3>1, <3>2, <3>4 DEF Written, TableOK
  <2>4. CASE ~G
    <3>1. Refused /\ Answer(s, "refused", None)
      BY <1>5, <2>4 DEF reorder_activities
    <3>2. CallsOK'
      BY <1>1, <2>1, <3>1, AnswerIs
    <3> QED
      BY <1>1, <3>1, <3>2 DEF Refused, TableOK
  <2> QED
    BY <2>3, <2>4
<1> QED
  BY <1>2, <1>3, <1>4, <1>5

\* The server has answered the row's request: what that made of the row.
RowAnswered(v, k) ==
  \/ /\ k \in Ids /\ table[k].at = "active" /\ active'[v][k].st = "ok"
     /\ table' = [table EXCEPT ![k] = Edited(@, active[v][k].patch)] /\ event' = TRUE
  \/ active'[v][k].st = "refused" /\ table' = table /\ event' = event

LEMMA UpdatedIs ==
  ASSUME TableOK, QueuesOK, NEW v \in Visits, NEW k \in Keys, update_activity(v, k)
  PROVE  /\ TableOK'
         /\ active' \in [Visits -> [Keys -> Sent \cup Answered \cup {None}]]
         /\ \A u \in Visits, i \in Keys :
              /\ u # v \/ i # k => active'[u][i] = active[u][i]
              /\ active'[u][i] # None => RequestOK(active'[u][i])
         /\ active[v][k] # None /\ active'[v][k] # None
         /\ active[v][k] \in Sent
         /\ active'[v][k].by = active[v][k].by
         /\ active'[v][k].patch = active[v][k].patch
         /\ RowAnswered(v, k)
<1> DEFINE a == active[v][k]
           t == [table EXCEPT ![k] = Edited(@, a.patch)]
<1>1. a # None /\ a \in Sent
  BY DEF update_activity, QueuesOK, RequestOK
<1>2. CASE k \in Ids /\ table[k].at = "active"
  <2> DEFINE m == Over([a EXCEPT !.st = "ok"], [body |-> RowOf(t, k)])
  <2>1. t \in [Ids -> Rowed]
    <3>1. a.patch \in Patches
      BY <1>1 DEF Sent
    <3>2. table[k] \in Rowed
      BY <1>2 DEF TableOK
    <3>3. Edited(table[k], a.patch) \in Rowed
      <4>1. [f \in Fields |-> IF f \in DOMAIN a.patch THEN a.patch[f] ELSE table[k].val[f]]
              \in [Fields -> Int]
        BY <3>1, <3>2, PatchIs DEF Rowed
      <4> QED
        BY <3>2, <4>1 DEF Edited, Rowed
    <3> QED
      BY <1>2, <3>3 DEF TableOK
  <2>2. Written(t) /\ active' = [active EXCEPT ![v][k] = m]
    BY <1>2 DEF update_activity
  <2>3. RowOf(t, k) \in RowRecords
    BY <1>2, <2>1, RowIs
  <2>4. m \in Answered /\ m.by = a.by /\ m.patch = a.patch /\ m.st = "ok" /\ m # None
    <3> DEFINE b == RowOf(t, k)
    <3> HIDE DEF b
    <3> QED
      BY <1>1, <2>3, AnsweredIs, NoneAssumption DEF b
  <2> HIDE DEF m
  <2>5. active'[v][k] = m
        /\ \A u \in Visits, i \in Keys : u # v \/ i # k => active'[u][i] = active[u][i]
    BY <2>2 DEF QueuesOK
  <2>6. active' \in [Visits -> [Keys -> Sent \cup Answered \cup {None}]]
    BY <2>2, <2>4 DEF QueuesOK
  <2>7. \A u \in Visits, i \in Keys : active'[u][i] # None => RequestOK(active'[u][i])
    BY <2>4, <2>5 DEF QueuesOK, RequestOK
  <2>8. TableOK' /\ table' = t /\ event' = TRUE
    BY <2>1, <2>2 DEF Written, TableOK
  <2>9. RowAnswered(v, k)
    BY <1>2, <2>4, <2>5, <2>8 DEF RowAnswered
  <2> QED
    BY <1>1, <2>4, <2>5, <2>6, <2>7, <2>8, <2>9
<1>3. CASE ~(k \in Ids /\ table[k].at = "active")
  <2> DEFINE m == [a EXCEPT !.st = "refused"]
  <2>1. table' = table /\ event' = event /\ active' = [active EXCEPT ![v][k].st = "refused"]
    BY <1>3 DEF update_activity, Refused
  <2>2. m \in Sent \cup Answered /\ m.by = a.by /\ m.patch = a.patch /\ m.st = "refused" /\ m # None
    <3>1. "refused" \in States
      BY DEF States
    <3> QED
      BY <1>1, <3>1, FailedIs, NoneAssumption
  <2>3. active' = [active EXCEPT ![v][k] = m]
    BY <2>1
  <2> HIDE DEF m
  <2>4. active'[v][k] = m
        /\ \A u \in Visits, i \in Keys : u # v \/ i # k => active'[u][i] = active[u][i]
    BY <2>3 DEF QueuesOK
  <2>5. active' \in [Visits -> [Keys -> Sent \cup Answered \cup {None}]]
    BY <2>2, <2>3 DEF QueuesOK
  <2>6. \A u \in Visits, i \in Keys : active'[u][i] # None => RequestOK(active'[u][i])
    BY <2>2, <2>4 DEF QueuesOK, RequestOK
  <2>7. RowAnswered(v, k)
    BY <2>1, <2>2, <2>4 DEF RowAnswered
  <2> QED
    BY <1>1, <2>1, <2>2, <2>4, <2>5, <2>6, <2>7 DEF TableOK
<1> QED
  BY <1>2, <1>3

\* A mutation other than an edit whose answer was lost.
LEMMA LostIs ==
  ASSUME CallsOK, NEW s \in Slots, calls[s].op \notin {"none", "update"},
         calls' = [calls EXCEPT ![s].st = "lost"]
  PROVE  /\ CallsOK' /\ calls[s] # Free /\ calls'[s] # Free
         /\ calls'[s].op = calls[s].op /\ calls'[s].st = "lost"
         /\ calls[s].op \in {"archive", "restore"} => calls'[s].id = calls[s].id
         /\ calls[s].op = "archive" => calls'[s].undo = calls[s].undo
         /\ \A r \in Slots : r # s => calls'[r] = calls[r]
<1> DEFINE c == calls[s]
           m == [c EXCEPT !.st = "lost"]
<1>1. c # Free /\ CallOK(c)
  BY FreeIs DEF CallsOK
<1>2. /\ DOMAIN m = DOMAIN c /\ m.st = "lost" /\ m.op = c.op
      /\ \A x \in DOMAIN c : x # "st" => m[x] = c[x]
  BY <1>1 DEF CallOK
<1>3. calls' = [calls EXCEPT ![s] = m]
  OBVIOUS
<1>4. m.body = c.body \/ "body" \notin DOMAIN c
  BY <1>2
<1> HIDE DEF m
<1>5. CallOK(m)
  BY <1>1, <1>2 DEF CallOK, States
<1>6. calls'[s] = m /\ \A r \in Slots : r # s => calls'[r] = calls[r]
  BY <1>3 DEF CallsOK
<1>7. CallsOK'
  BY <1>3, <1>5, <1>6 DEF CallsOK
<1>8. m # Free
  BY <1>1, <1>2, FreeIs
<1>9. (c.op \in {"archive", "restore"} => m.id = c.id) /\ (c.op = "archive" => m.undo = c.undo)
  BY <1>1, <1>2 DEF CallOK
<1> QED
  BY <1>1, <1>2, <1>6, <1>7, <1>8, <1>9

\* A row's request whose answer was lost.
LosesEdit(v, k) ==
  active[v][k] # None /\ active' = [active EXCEPT ![v][k].st = "lost"]

LEMMA LostEditIs ==
  ASSUME QueuesOK, NEW v \in Visits, NEW k \in Keys, LosesEdit(v, k)
  PROVE  /\ active' \in [Visits -> [Keys -> Sent \cup Answered \cup {None}]]
         /\ \A u \in Visits, i \in Keys :
              /\ u # v \/ i # k => active'[u][i] = active[u][i]
              /\ active'[u][i] # None => RequestOK(active'[u][i])
         /\ active'[v][k] # None /\ active'[v][k].st = "lost"
         /\ active'[v][k].by = active[v][k].by
         /\ active'[v][k].patch = active[v][k].patch
<1> DEFINE a == active[v][k]
           m == [a EXCEPT !.st = "lost"]
<1>1. a \in Sent \cup Answered /\ "lost" \in States
  BY DEF QueuesOK, States, LosesEdit
<1>2. m \in Sent \cup Answered /\ m.by = a.by /\ m.patch = a.patch /\ m.st = "lost"
  BY <1>1, FailedIs
<1>3. m # None
  BY <1>2, NoneAssumption
<1>4. active' = [active EXCEPT ![v][k] = m]
  BY DEF LosesEdit
<1> HIDE DEF m
<1>5. active'[v][k] = m
      /\ \A u \in Visits, i \in Keys : u # v \/ i # k => active'[u][i] = active[u][i]
  BY <1>4 DEF QueuesOK
<1>6. active' \in [Visits -> [Keys -> Sent \cup Answered \cup {None}]]
  <2>1. [active[v] EXCEPT ![k] = m] \in [Keys -> Sent \cup Answered \cup {None}]
    BY <1>2 DEF QueuesOK
  <2>2. active' = [active EXCEPT ![v] = [active[v] EXCEPT ![k] = m]]
    BY <1>4
  <2> QED
    BY <2>1, <2>2 DEF QueuesOK
<1>7. \A u \in Visits, i \in Keys : active'[u][i] # None => RequestOK(active'[u][i])
  BY <1>2, <1>5 DEF QueuesOK, RequestOK
<1> QED
  BY <1>2, <1>3, <1>5, <1>6, <1>7

LEMMA TypeServer ==
  ASSUME TypesInv, Serve \/ list_activities
  PROVE  TypesInv' /\ (cache # None => IsList(cache'))
<1>1. CASE list_activities
  <2>1. IsList(ListOf(table))
    BY ListIs DEF TypesInv, TableOK
  <2>2. ReadOK'
    <3> DEFINE m == [st |-> "ok", list |-> ListOf(table)]
    <3>1. m \in Reads /\ m.list = ListOf(table)
      BY <2>1 DEF Reads, IsList
    <3>2. read' = m
      BY <1>1 DEF list_activities
    <3> QED
      BY <2>1, <3>1, <3>2 DEF ReadOK
  <2> QED
    BY <1>1, <2>2 DEF list_activities, TypesInv, TableOK, CacheOK, CallsOK, QueuesOK, RestOK
<1>2. CASE Serve
  <2>1. CASE \E s \in Slots :
               /\ \/ create_activity(s) \/ archive_activity(s)
                  \/ restore_activity(s) \/ reorder_activities(s)
               /\ UNCHANGED active
    <3>1. TableOK' /\ CallsOK' /\ event' \in BOOLEAN /\ active' = active
      BY <2>1, TypeServed
    <3> QED
      BY <1>2, <3>1 DEF Serve, TypesInv, CacheOK, ReadOK, QueuesOK, RestOK
  <2>2. CASE \E v \in Visits, k \in Keys : update_activity(v, k)
    <3>1. PICK v \in Visits, k \in Keys : update_activity(v, k)
      BY <2>2
    <3>2. TableOK' /\ event' \in BOOLEAN /\ calls' = calls
      BY <3>1, UpdatedIs DEF TypesInv, RestOK, update_activity, RowAnswered
    <3>3. QueuesOK'
      <4>1. queued' = queued /\ latest' = latest
        BY <1>2 DEF Serve
      <4> QED
        BY <3>1, <4>1, UpdatedIs DEF TypesInv, QueuesOK
    <3> QED
      BY <1>2, <3>2, <3>3 DEF Serve, TypesInv, CacheOK, ReadOK, CallsOK, RestOK
  <2> QED
    BY <1>2, <2>1, <2>2 DEF Serve, Keys
<1> QED
  BY <1>1, <1>2

LEMMA TypeAgent ==
  ASSUME TypesInv, NEW i \in Ids, NEW f \in Fields, AgentEdits(i, f)
  PROVE  TypesInv' /\ (cache # None => IsList(cache'))
<1> DEFINE n == 0 - count.agent - 1
           t == [table EXCEPT ![i].val[f] = n]
<1>1. n \in Int /\ count' \in Counts
  BY DEF AgentEdits, TypesInv, RestOK, Counts
<1> HIDE DEF n
<1>2. t \in [Ids -> Rowed]
  BY <1>1 DEF TypesInv, TableOK, Rowed
<1>3. table' = t /\ event' = TRUE
  BY DEF AgentEdits, Written, n
<1>4. hist' \in Histories
  BY DEF AgentEdits, TypesInv, RestOK, Histories
<1> QED
  BY <1>1, <1>2, <1>3, <1>4
     DEF AgentEdits, TypesInv, TableOK, CacheOK, ReadOK, CallsOK, QueuesOK, RestOK

LEMMA TypeLose ==
  ASSUME TypesInv, Lose
  PROVE  TypesInv' /\ (cache # None => IsList(cache'))
<1>1. count' \in Counts
  BY DEF Lose, TypesInv, RestOK, Counts
<1>2. CASE read # None /\ read' = [st |-> "lost"] /\ UNCHANGED <<calls, active>>
  <2>1. [st |-> "lost"] \in Reads /\ [st |-> "lost"].st # "ok"
    BY DEF Reads
  <2>2. ReadOK'
    BY <1>2, <2>1 DEF ReadOK
  <2> QED
    BY <1>1, <1>2, <2>2 DEF Lose, TypesInv, TableOK, CacheOK, CallsOK, QueuesOK, RestOK
<1>3. CASE \E s \in Slots : /\ calls[s].op \notin {"none", "update"}
                            /\ calls' = [calls EXCEPT ![s].st = "lost"]
                            /\ UNCHANGED <<read, active>>
  <2>1. CallsOK'
    BY <1>3, LostIs DEF TypesInv
  <2> QED
    BY <1>1, <1>3, <2>1 DEF Lose, TypesInv, TableOK, CacheOK, ReadOK, QueuesOK, RestOK
<1>4. CASE \E v \in Visits, k \in Keys : LosesEdit(v, k) /\ UNCHANGED <<read, calls>>
  <2>1. queued' = queued /\ latest' = latest
    BY DEF Lose
  <2>2. QueuesOK'
    BY <1>4, <2>1, LostEditIs DEF TypesInv, QueuesOK
  <2> QED
    BY <1>1, <1>4, <2>2 DEF Lose, TypesInv, TableOK, CacheOK, ReadOK, CallsOK, RestOK
<1> QED
  BY <1>2, <1>3, <1>4 DEF Lose, Keys, LosesEdit

LEMMA TypeInit ==
  ASSUME Init
  PROVE  TypesInv
<1>1. TableOK
  <2>1. \A i \in Ids :
          [at |-> IF i \in Rows THEN "active" ELSE "absent", sort |-> IF i \in Rows THEN i ELSE 0,
           val |-> [f \in Fields |-> 0]] \in Rowed
    BY ListAssumption DEF Rowed
  <2> QED
    BY <2>1 DEF Init, TableOK
<1>2. ReadOK
  <2>1. [st |-> "sent"] \in Reads /\ [st |-> "sent"].st # "ok"
    BY DEF Reads
  <2> QED
    BY <2>1 DEF Init, ReadOK
<1>3. CallsOK
  BY FreeIs DEF Init, CallsOK
<1>4. QueuesOK
  BY DEF Init, QueuesOK, Keys
<1>5. hist \in Histories
  BY DEF Init, Histories
<1>6. visit \in Visits
  BY ListAssumption DEF Init, Visits
<1> QED
  BY <1>1, <1>2, <1>3, <1>4, <1>5, <1>6 DEF Init, TypesInv, CacheOK, RestOK, Counts

LEMMA TypeStep ==
  ASSUME TypesInv, QueueInv, [Next]_vars
  PROVE  TypesInv' /\ (cache # None => IsList(cache'))
<1>1. CASE Student
  BY <1>1, TypeCreate, TypeUndo, TypeReorder, TypeArchive, TypeUpdate, TypePages DEF Student
<1>2. CASE Page
  BY <1>2, TypeMutation, TypeUpdateReturns, TypeReads DEF Page, Keys
<1>3. CASE Server
  BY <1>3, TypeServer DEF Server
<1>4. CASE Lose
  BY <1>4, TypeLose
<1>5. CASE \E i \in Ids, f \in Fields : AgentEdits(i, f)
  BY <1>5, TypeAgent
<1>6. CASE UNCHANGED vars
  BY <1>6 DEF vars, TypesInv, TableOK, CacheOK, ReadOK, CallsOK, QueuesOK, RestOK
<1> QED
  BY <1>1, <1>2, <1>3, <1>4, <1>5, <1>6 DEF Next

(***************************************************************************)
(* What the server's handlers leave.                                       *)
(***************************************************************************)
\* The mutation of slot s was answered, and what that made of the rows.
ServedBy(s) ==
  /\ \A r \in Slots : r # s => calls'[r] = calls[r]
  /\ calls[s] # Free /\ calls'[s] # Free
  /\ calls[s].op \in {"create", "archive", "restore", "reorder"}
  /\ calls'[s].op = calls[s].op
  /\ calls[s].op \in {"archive", "restore"} => calls'[s].id = calls[s].id
  /\ calls[s].op = "archive" => calls'[s].undo = calls[s].undo
  /\ calls[s].st = "sent"
  /\ \A i \in Ids : table'[i].val = table[i].val
  /\ \/ calls'[s].st = "refused" /\ UNCHANGED <<table, event>>
     \/ /\ calls'[s].st = "ok" /\ event' = TRUE
        /\ \A i \in Ids :
             CASE calls[s].op = "create" ->
                    \/ table'[i].at = table[i].at
                    \/ table[i].at = "absent" /\ table'[i].at = "active"
               [] calls[s].op = "archive" /\ i = calls[s].id ->
                    table[i].at = "active" /\ table'[i].at = "archived"
               [] calls[s].op = "restore" /\ i = calls[s].id ->
                    table[i].at = "archived" /\ table'[i].at = "active"
               [] OTHER -> table'[i].at = table[i].at

LEMMA ServedIs ==
  ASSUME TypesInv, NEW s \in Slots,
         create_activity(s) \/ archive_activity(s) \/ restore_activity(s) \/ reorder_activities(s)
  PROVE  ServedBy(s)
<1>1. CallsOK /\ TableOK /\ "ok" \in States \ {"sent"} /\ "refused" \in States \ {"sent"}
  BY DEF TypesInv, States
<1> DEFINE c == calls[s]
           op == calls[s].op
<1>2. /\ c # Free /\ c.st = "sent" /\ op \in {"create", "archive", "restore", "reorder"}
      /\ CallOK(c)
  BY <1>1, FreeIs DEF create_activity, archive_activity, restore_activity, reorder_activities,
     CallsOK
<1>3. ASSUME Refused, Answer(s, "refused", None)
      PROVE  ServedBy(s)
  <2>1. /\ \A r \in Slots : r # s => calls'[r] = calls[r]
        /\ calls'[s] # Free /\ calls'[s].op = op /\ calls'[s].st = "refused"
        /\ op \in {"archive", "restore"} => calls'[s].id = c.id
        /\ op = "archive" => calls'[s].undo = c.undo
    BY <1>1, <1>2, <1>3, AnswerIs
  <2> QED
    BY <1>2, <1>3, <2>1 DEF Refused, ServedBy
\* The answer is "ok": the calls, whatever the row.
<1>4. ASSUME NEW b, Answer(s, "ok", b),
             op \in {"create", "restore"} => b \in RowRecords,
             op = "reorder" => IsList(b)
      PROVE  /\ \A r \in Slots : r # s => calls'[r] = calls[r]
             /\ calls'[s] # Free /\ calls'[s].op = op /\ calls'[s].st = "ok"
             /\ op \in {"archive", "restore"} => calls'[s].id = c.id
             /\ op = "archive" => calls'[s].undo = c.undo
  BY <1>1, <1>2, <1>4, AnswerIs
<1>5. CASE create_activity(s)
  <2>0. op = "create"
    BY <1>5 DEF create_activity
  <2>1. CASE Cardinality(ListOf(table)) < Cap
    <3>1. PICK i \in News :
            /\ table[i].at = "absent"
            /\ LET t == [table EXCEPT ![i].at = "active", ![i].sort = next_sort_order]
               IN  Written(t) /\ Answer(s, "ok", RowOf(t, i))
      BY <1>5, <2>1 DEF create_activity
    <3> DEFINE t == [table EXCEPT ![i].at = "active", ![i].sort = next_sort_order]
    <3>2. i \in Ids
      BY DEF Ids
    <3>3. t \in [Ids -> Rowed] /\ t[i].at = "active" /\ (\A j \in Ids : t[j].val = table[j].val)
          /\ \A j \in Ids : j # i => t[j] = table[j]
      BY <1>1, <3>2, NextSortIs DEF TableOK, Rowed
    <3>4. Written(t) /\ Answer(s, "ok", RowOf(t, i))
      BY <3>1
    <3> HIDE DEF t
    <3>5. RowOf(t, i) \in RowRecords
      BY <3>2, <3>3, RowIs
    <3>6. table' = t /\ event' = TRUE
      BY <3>4 DEF Written
    <3> QED
      BY <1>2, <1>4, <2>0, <3>1, <3>2, <3>3, <3>4, <3>5, <3>6 DEF ServedBy
  <2>2. CASE ~(Cardinality(ListOf(table)) < Cap)
    BY <1>3, <1>5, <2>2 DEF create_activity
  <2> QED
    BY <2>1, <2>2
<1>6. CASE archive_activity(s)
  <2> DEFINE i == c.id
             t == [table EXCEPT ![i].at = "archived"]
  <2>0. op = "archive"
    BY <1>6 DEF archive_activity
  <2>1. CASE i \in Ids /\ table[i].at = "active"
    <3>1. Written(t) /\ Answer(s, "ok", None)
      BY <1>6, <2>1 DEF archive_activity
    <3>2. t[i].at = "archived" /\ (\A j \in Ids : t[j].val = table[j].val)
          /\ \A j \in Ids : j # i => t[j] = table[j]
      BY <1>1, <2>1 DEF TableOK, Rowed
    <3> HIDE DEF t
    <3>3. table' = t /\ event' = TRUE
      BY <3>1 DEF Written
    <3> QED
      BY <1>2, <1>4, <2>0, <2>1, <3>1, <3>2, <3>3 DEF ServedBy
  <2>2. CASE ~(i \in Ids /\ table[i].at = "active")
    BY <1>3, <1>6, <2>2 DEF archive_activity
  <2> QED
    BY <2>1, <2>2
<1>7. CASE restore_activity(s)
  <2> DEFINE i == c.id
             t == [table EXCEPT ![i].at = "active",
                                ![i].sort = IF RestoreLast THEN next_sort_order ELSE @]
             G == /\ i \in Ids /\ table[i].at = "archived"
                  /\ Cardinality(ListOf(table)) < Cap
  <2>0. op = "restore"
    BY <1>7 DEF restore_activity
  <2>1. CASE G
    <3>1. Written(t) /\ Answer(s, "ok", RowOf(t, i))
      BY <1>7, <2>1 DEF restore_activity
    <3>2. t \in [Ids -> Rowed] /\ t[i].at = "active" /\ (\A j \in Ids : t[j].val = table[j].val)
          /\ \A j \in Ids : j # i => t[j] = table[j]
      BY <1>1, <2>1, NextSortIs DEF TableOK, Rowed
    <3> HIDE DEF t
    <3>3. table' = t /\ event' = TRUE
      BY <3>1 DEF Written
    <3>4. RowOf(t, i) \in RowRecords
      BY <2>1, <3>2, RowIs
    <3> QED
      BY <1>2, <1>4, <2>0, <2>1, <3>1, <3>2, <3>3, <3>4 DEF ServedBy
  <2>2. CASE ~G
    BY <1>3, <1>7, <2>2 DEF restore_activity
  <2> QED
    BY <2>1, <2>2
<1>8. CASE reorder_activities(s)
  <2> DEFINE ids == calls[s].ids
             t == [i \in Ids |-> IF i \in DOMAIN ids
                                 THEN [table[i] EXCEPT !.sort = ids[i]] ELSE table[i]]
             G == DOMAIN ids = {r.id : r \in ListOf(table)}
  <2>0. op = "reorder" /\ \A j \in DOMAIN ids : ids[j] \in Nat
    BY <1>2, <1>8 DEF reorder_activities, CallOK
  <2>1. CASE G
    <3>1. Written(t) /\ Answer(s, "ok", ListOf(t))
      BY <1>8, <2>1 DEF reorder_activities
    <3>2. t \in [Ids -> Rowed] /\ \A j \in Ids : t[j].val = table[j].val /\ t[j].at = table[j].at
      BY <1>1, <2>0 DEF TableOK, Rowed
    <3> HIDE DEF t
    <3>3. table' = t /\ event' = TRUE
      BY <3>1 DEF Written
    <3>4. IsList(ListOf(t))
      BY <3>2, ListIs
    <3> QED
      BY <1>2, <1>4, <2>0, <3>1, <3>2, <3>3, <3>4 DEF ServedBy
  <2>2. CASE ~G
    BY <1>3, <1>8, <2>2 DEF reorder_activities
  <2> QED
    BY <2>1, <2>2
<1> QED
  BY <1>5, <1>6, <1>7, <1>8

\* What the row's queue is with one more edit.
LEMMA EnqueuedIs ==
  ASSUME QueuesOK, NEW s \in Slots, NEW k \in Keys, NEW p \in Patches, visit \in Visits,
         enqueue(s, k, p)
  PROVE  /\ \A v \in Visits, i \in Keys :
              v # visit \/ i # k => active'[v][i] = active[v][i] /\ queued'[v][i] = queued[v][i]
         /\ active[visit][k] = None =>
              /\ active'[visit][k].by = {s} /\ active'[visit][k].patch = p
              /\ active'[visit][k].st = "sent"
              /\ active'[visit][k] # None
              /\ queued' = queued
         /\ active[visit][k] # None =>
              /\ active' = active
              /\ queued'[visit][k].by = Held(visit, k) \cup {s}
              /\ queued'[visit][k].patch =
                   IF queued[visit][k] = None THEN p ELSE Over(p, queued[visit][k].patch)
<1>1. CASE active[visit][k] = None
  <2> DEFINE m == [patch |-> p, by |-> {s}, st |-> "sent"]
  <2>1. active' = [active EXCEPT ![visit][k] = m] /\ queued' = queued
    BY <1>1 DEF enqueue
  <2>2. m.by = {s} /\ m.patch = p /\ m.st = "sent" /\ m # None
    <3>1. m \in Sent
      BY DEF Sent, States
    <3> QED
      BY <3>1, NoneAssumption
  <2> HIDE DEF m
  <2>3. active'[visit][k] = m
        /\ \A v \in Visits, i \in Keys : v # visit \/ i # k => active'[v][i] = active[v][i]
    BY <2>1 DEF QueuesOK
  <2> QED
    BY <1>1, <2>1, <2>2, <2>3
<1>2. CASE active[visit][k] # None
  <2> DEFINE q == queued[visit][k]
             m == IF q = None THEN [patch |-> p, by |-> {s}]
                  ELSE [patch |-> Over(p, q.patch), by |-> q.by \cup {s}]
  <2>1. queued' = [queued EXCEPT ![visit][k] = m] /\ active' = active
    BY <1>2 DEF enqueue
  <2>2. /\ m.by = Held(visit, k) \cup {s}
        /\ m.patch = IF q = None THEN p ELSE Over(p, q.patch)
    BY DEF Held
  <2> HIDE DEF m
  <2>3. queued'[visit][k] = m
        /\ \A v \in Visits, i \in Keys : v # visit \/ i # k => queued'[v][i] = queued[v][i]
    BY <2>1 DEF QueuesOK
  <2> QED
    BY <1>2, <2>1, <2>2, <2>3
<1> QED
  BY <1>1, <1>2

\* Behind a request the edit waits.
LEMMA WaitsIs ==
  ASSUME QueuesOK, NEW s \in Slots, NEW k \in Keys, NEW p \in Patches, visit \in Visits,
         enqueue(s, k, p), active[visit][k] # None
  PROVE  queued'[visit][k] # None
<1>1. queued' = [queued EXCEPT ![visit][k] =
                   IF @ = None THEN [patch |-> p, by |-> {s}]
                   ELSE [patch |-> Over(p, @.patch), by |-> @.by \cup {s}]]
  BY DEF enqueue
<1>2. queued[visit][k] # None => queued[visit][k] \in Waiting
  BY DEF QueuesOK
<1>3. [patch |-> p, by |-> {s}] \in Waiting
      /\ (queued[visit][k] # None =>
            [patch |-> Over(p, queued[visit][k].patch), by |-> queued[visit][k].by \cup {s}]
              \in Waiting)
  BY <1>2, PatchOver DEF Waiting
<1>4. queued'[visit][k] \in Waiting
  BY <1>1, <1>3 DEF QueuesOK
<1> QED
  BY <1>4, NoneAssumption

(***************************************************************************)
(* What the student's actions leave of the mutations.                      *)
(***************************************************************************)
Begun(s) ==
  /\ calls[s] = Free /\ calls'[s] # Free
  /\ \A r \in Slots : r # s => calls'[r] = calls[r]

LEMMA BegunIs ==
  ASSUME TypesInv, NEW s \in Slots
  PROVE  /\ useCreateInList(s) => Begun(s) /\ calls'[s].op = "create" /\ cache # None
         /\ useReorderList(s) => Begun(s) /\ calls'[s].op = "reorder" /\ cache # None
         /\ \A k \in shown : archive(s, k) =>
              /\ Begun(s) /\ calls'[s].op = "archive" /\ calls'[s].id = k
              /\ calls'[s].undo = FALSE /\ calls'[s].st = "sent" /\ cache # None
         /\ \A k \in shown, f \in Fields : useUpdateInList(s, k, f) =>
              /\ Begun(s) /\ calls'[s].op = "update" /\ calls'[s].id = k
              /\ calls'[s].visit = visit /\ calls'[s].mutationId = count.ops + 1
              /\ count.ops + 1 \in 1..MaxOps /\ cache # None
<1>1. ASSUME NEW call, Start(s, call)
      PROVE  /\ calls[s] = Free /\ calls'[s] = Over(call, [prev |-> cache])
             /\ \A r \in Slots : r # s => calls'[r] = calls[r]
  BY <1>1 DEF Start, FirstFree, TypesInv, CallsOK
<1>2. ASSUME useCreateInList(s)
      PROVE  Begun(s) /\ calls'[s].op = "create" /\ cache # None
  <2> DEFINE call == [op |-> "create", st |-> "sent"]
  <2>1. Over(call, [prev |-> cache]).op = "create"
    BY DEF Over
  <2>2. Start(s, call) /\ cache # None
    BY <1>2 DEF useCreateInList
  <2> QED
    BY <1>1, <2>1, <2>2, FreeIs DEF Begun
<1>3. ASSUME useReorderList(s)
      PROVE  Begun(s) /\ calls'[s].op = "reorder" /\ cache # None
  <2>1. PICK ids : Start(s, [op |-> "reorder", st |-> "sent", ids |-> ids])
    BY <1>3 DEF useReorderList
  <2> DEFINE call == [op |-> "reorder", st |-> "sent", ids |-> ids]
  <2>2. Over(call, [prev |-> cache]).op = "reorder"
    BY DEF Over
  <2>3. cache # None
    BY <1>3, FS_EmptySet DEF useReorderList, shown
  <2> QED
    BY <1>1, <2>1, <2>2, <2>3, FreeIs DEF Begun
<1>4. ASSUME NEW k \in shown, archive(s, k)
      PROVE  /\ Begun(s) /\ calls'[s].op = "archive" /\ calls'[s].id = k
             /\ calls'[s].undo = FALSE /\ calls'[s].st = "sent" /\ cache # None
  <2> DEFINE call == [op |-> "archive", st |-> "sent", id |-> k, undo |-> FALSE]
             c == Over(call, [prev |-> cache])
  <2>1. c.op = "archive" /\ c.id = k /\ c.undo = FALSE /\ c.st = "sent"
    BY DEF Over
  <2>2. Start(s, call) /\ cache # None
    BY <1>4, ShownIsKey DEF archive
  <2>3. calls'[s] = c
    BY <1>1, <2>2
  <2> HIDE DEF c
  <2> QED
    BY <1>1, <2>1, <2>2, <2>3, FreeIs DEF Begun
<1>5. ASSUME NEW k \in shown, NEW f \in Fields, useUpdateInList(s, k, f)
      PROVE  /\ Begun(s) /\ calls'[s].op = "update" /\ calls'[s].id = k
             /\ calls'[s].visit = visit /\ calls'[s].mutationId = count.ops + 1
             /\ count.ops + 1 \in 1..MaxOps /\ cache # None
  <2> DEFINE call == [op |-> "update", st |-> "sent", id |-> k, visit |-> visit,
                      mutationId |-> count.ops + 1]
             c == Over(call, [prev |-> cache])
  <2>1. c.op = "update" /\ c.id = k /\ c.visit = visit /\ c.mutationId = count.ops + 1
    BY DEF Over
  <2>2. Start(s, call) /\ cache # None
    BY <1>5, ShownIsKey DEF useUpdateInList
  <2>3. calls'[s] = c
    BY <1>1, <2>2
  <2>4. count.ops + 1 \in 1..MaxOps
    BY <2>2, ListAssumption DEF Start, TypesInv, RestOK, Counts
  <2> HIDE DEF c
  <2> QED
    BY <1>1, <2>1, <2>2, <2>3, <2>4, FreeIs DEF Begun
<1> QED
  BY <1>2, <1>3, <1>4, <1>5

\* The toast takes back a deletion that is under way, or one that has
\* succeeded.
UndoInv ==
  undo # None /\ undo.slot # None =>
    /\ undo.slot \in Slots
    /\ calls[undo.slot].op = "archive" /\ calls[undo.slot].id = undo.id

LEMMA UndoneIs ==
  ASSUME TypesInv, UndoInv, NEW s \in Slots, undoDelete(s)
  PROVE  /\ \A r \in Slots : r # s => calls'[r] = calls[r]
         /\ undo # None /\ undo.id \in Keys /\ undo' = None
         /\ \/ /\ undo.slot # None
               /\ calls[s].op = "archive" /\ calls[s].id = undo.id
               /\ calls'[s].op = "archive" /\ calls'[s].id = undo.id
               /\ calls'[s].st = calls[s].st /\ calls'[s].undo = TRUE
            \/ /\ undo.slot = None /\ calls[s] = Free
               /\ calls'[s] = [op |-> "restore", st |-> "sent", id |-> undo.id]
<1>1. undo # None /\ undo.id \in Keys /\ undo' = None
  BY DEF undoDelete, TypesInv, RestOK, Undoable, Keys
<1>2. CASE undo.slot # None
  <2>1. s = undo.slot /\ calls' = [calls EXCEPT ![s].undo = TRUE]
    BY <1>2 DEF undoDelete
  <2>2. calls[s].op = "archive" /\ calls[s].id = undo.id
    BY <1>1, <1>2, <2>1 DEF UndoInv
  <2> DEFINE m == [calls[s] EXCEPT !.undo = TRUE]
  <2>3. {"op", "st", "id", "undo"} \subseteq DOMAIN calls[s]
    BY <2>2, FreeIs DEF TypesInv, CallsOK, CallOK
  <2>4. m.op = "archive" /\ m.id = undo.id /\ m.st = calls[s].st /\ m.undo = TRUE
    BY <2>2, <2>3
  <2>5. calls' = [calls EXCEPT ![s] = m]
    BY <2>1
  <2> HIDE DEF m
  <2>6. calls'[s] = m /\ \A r \in Slots : r # s => calls'[r] = calls[r]
    BY <2>5 DEF TypesInv, CallsOK
  <2> QED
    BY <1>1, <1>2, <2>2, <2>4, <2>6
<1>3. CASE undo.slot = None
  <2>1. FirstFree(s) /\ calls' = [calls EXCEPT ![s] =
                                    [op |-> "restore", st |-> "sent", id |-> undo.id]]
    BY <1>3 DEF undoDelete
  <2> QED
    BY <1>1, <1>3, <2>1 DEF FirstFree, TypesInv, CallsOK
<1> QED
  BY <1>2, <1>3

\* What an answer leaves of the mutations.
LEMMA ReturnedIs ==
  ASSUME TypesInv, NEW s \in Slots, MutationReturns(s)
  PROVE  /\ \A r \in Slots : r # s => calls'[r] = calls[r]
         /\ calls[s] # Free /\ calls[s].st # "sent"
         /\ calls[s].op \in {"create", "archive", "restore", "reorder"}
         /\ IF calls[s].op = "archive" /\ calls[s].undo /\ calls[s].st = "ok"
            THEN calls'[s] = [op |-> "restore", st |-> "sent", id |-> calls[s].id]
            ELSE calls'[s] = Free
BY FreeIs DEF MutationReturns, TypesInv, CallsOK

(***************************************************************************)
(* No edit is stranded.                                                    *)
(***************************************************************************)
\* A step that leaves the edits and who carries them.
LEMMA QueueSame ==
  ASSUME QueueInv, latest' = latest, queued' = queued,
         \A v \in Visits, k \in Keys :
           /\ active'[v][k] = None <=> active[v][k] = None
           /\ active[v][k] # None => active'[v][k].by = active[v][k].by,
         \A s \in Slots : calls[s].op = "update" \/ calls'[s].op = "update" => calls'[s] = calls[s]
  PROVE  QueueInv'
<1> SUFFICES ASSUME NEW v \in Visits, NEW k \in Keys
             PROVE  RowQueue(v, k)'
  BY DEF QueueInv
<1>1. RowQueue(v, k)
  BY DEF QueueInv
<1>2. Edits(v, k)' = Edits(v, k)
  BY DEF Edits
<1>3. Carried(v, k)' = Carried(v, k) /\ Held(v, k)' = Held(v, k)
  BY DEF Carried, Held
<1>4. \A s \in Edits(v, k) : IsLatest(s, v, k)' <=> IsLatest(s, v, k)
  BY DEF Edits, IsLatest
<1> QED
  BY <1>1, <1>2, <1>3, <1>4 DEF RowQueue

LEMMA QueueUpdate ==
  ASSUME TypesInv, QueueInv, NEW s \in Slots, NEW k \in shown, NEW f \in Fields,
         useUpdateInList(s, k, f)
  PROVE  QueueInv'
<1> DEFINE n == count.ops + 1
           p == [x \in {f} |-> n]
<1>1. /\ Begun(s) /\ calls'[s].op = "update" /\ calls'[s].id = k
      /\ calls'[s].visit = visit /\ calls'[s].mutationId = n
      /\ n \in 1..MaxOps
  BY BegunIs
<1>2. k \in Keys /\ visit \in Visits /\ visit' = visit /\ p \in Patches
  BY <1>1, ShownIsKey, OnePatch DEF TypesInv, RestOK, useUpdateInList
<1>3. QueuesOK /\ enqueue(s, k, p)
  BY DEF useUpdateInList, TypesInv
<1> HIDE DEF p
<1>4. /\ latest'[visit][k] = n
      /\ \A v \in Visits, i \in Keys : v # visit \/ i # k => latest'[v][i] = latest[v][i]
  BY <1>2 DEF useUpdateInList, TypesInv, QueuesOK
<1> HIDE DEF n
<1>5. /\ \A v \in Visits, i \in Keys :
              v # visit \/ i # k => active'[v][i] = active[v][i] /\ queued'[v][i] = queued[v][i]
      /\ active[visit][k] = None =>
              /\ active'[visit][k].by = {s} /\ active'[visit][k] # None
              /\ queued' = queued
      /\ active[visit][k] # None =>
              /\ active' = active
              /\ queued'[visit][k].by = Held(visit, k) \cup {s}
  BY <1>2, <1>3, EnqueuedIs
<1>6. QueuesOK'
  BY <1>1, TypeUpdate DEF TypesInv
<1> SUFFICES ASSUME NEW v \in Visits, NEW i \in Keys
             PROVE  RowQueue(v, i)'
  BY DEF QueueInv
<1>7. RowQueue(v, i) /\ s \notin Edits(v, i)
  BY <1>1, FreeIs DEF QueueInv, Begun, Edits
<1>8. CASE v # visit \/ i # k
  <2>1. Edits(v, i)' = Edits(v, i)
    BY <1>1, <1>8, FreeIs DEF Edits, Begun
  <2>2. Carried(v, i)' = Carried(v, i) /\ Held(v, i)' = Held(v, i)
    BY <1>5, <1>8 DEF Carried, Held
  <2>3. \A r \in Edits(v, i) : IsLatest(r, v, i)' <=> IsLatest(r, v, i)
    BY <1>1, <1>4, <1>7, <1>8 DEF Edits, IsLatest, Begun
  <2>4. active'[v][i] = active[v][i] /\ queued'[v][i] = queued[v][i]
    BY <1>5, <1>8
  <2> QED
    BY <1>7, <2>1, <2>2, <2>3, <2>4 DEF RowQueue
<1>9. CASE v = visit /\ i = k
  <2>1. Edits(v, i)' = Edits(v, i) \cup {s}
    BY <1>1, <1>9, FreeIs DEF Edits, Begun
  <2>2. IsLatest(s, v, i)'
    BY <1>1, <1>4, <1>9 DEF IsLatest
  <2>3. CASE active[v][i] = None
    <3>1. queued[v][i] = None /\ Carried(v, i) = {} /\ Held(v, i) = {}
      BY <1>7, <2>3 DEF RowQueue, Carried, Held
    <3>2. Carried(v, i)' = {s} /\ Held(v, i)' = {} /\ active'[v][i] # None /\ queued'[v][i] = None
      BY <1>5, <1>9, <2>3, <3>1 DEF Carried, Held
    <3> QED
      BY <1>7, <2>1, <2>2, <3>1, <3>2 DEF RowQueue
  <2>4. CASE active[v][i] # None
    <3>1. active'[v][i] # None /\ Carried(v, i)' = Carried(v, i)
      BY <1>5, <1>9, <2>4 DEF Carried
    <3>2. queued'[v][i] # None
      BY <1>2, <1>3, <1>9, <2>4, WaitsIs
    <3>3. Held(v, i)' = Held(v, i) \cup {s}
      BY <1>5, <1>9, <2>4, <3>2 DEF Held
    <3> QED
      BY <1>7, <2>1, <2>2, <3>1, <3>2, <3>3 DEF RowQueue
  <2> QED
    BY <2>3, <2>4
<1> QED
  BY <1>8, <1>9

LEMMA QueueReturns ==
  ASSUME TypesInv, QueueInv, NEW v \in Visits, NEW k \in Keys, UpdateReturns(v, k)
  PROVE  QueueInv'
<1>1. /\ \A s \in Carried(v, k) : calls'[s] = Free
      /\ \A s \in Slots \ Carried(v, k) : calls'[s] = calls[s]
      /\ latest' = latest /\ flushQueued(v, k)
  <2>1. active[v][k] # None /\ Carried(v, k) \subseteq Slots
    BY DEF UpdateReturns, Carried, QueueInv, RowQueue, Edits
  <2> QED
    BY <2>1 DEF UpdateReturns, Carried
<1>2. QueuesOK
  BY DEF TypesInv
<1> SUFFICES ASSUME NEW u \in Visits, NEW i \in Keys
             PROVE  RowQueue(u, i)'
  BY DEF QueueInv
<1>3. RowQueue(u, i) /\ RowQueue(v, k)
  BY DEF QueueInv
<1>4. CASE u # v \/ i # k
  <2>1. \A s \in Edits(u, i) : s \notin Carried(v, k) /\ calls'[s] = calls[s]
    BY <1>1, <1>3, <1>4 DEF RowQueue, Edits
  <2>2. Edits(u, i)' = Edits(u, i)
    BY <1>1, <2>1, FreeIs DEF Edits
  <2>3. active'[u][i] = active[u][i] /\ queued'[u][i] = queued[u][i]
    BY <1>1, <1>2, <1>4, FlushIs
  <2>4. Carried(u, i)' = Carried(u, i) /\ Held(u, i)' = Held(u, i)
    BY <2>3 DEF Carried, Held
  <2>5. \A s \in Edits(u, i) : IsLatest(s, u, i)' <=> IsLatest(s, u, i)
    BY <1>1, <2>1 DEF IsLatest
  <2> QED
    BY <1>3, <2>2, <2>3, <2>4, <2>5 DEF RowQueue
<1>5. CASE u = v /\ i = k
  <2>1. Edits(u, i)' = Held(u, i)
    BY <1>1, <1>3, <1>5, FreeIs DEF RowQueue, Edits
  <2>2. Carried(u, i)' = Held(u, i) /\ Held(u, i)' = {} /\ queued'[u][i] = None
        /\ (active'[u][i] # None => queued[u][i] # None)
    BY <1>1, <1>2, <1>5, FlushIs DEF Carried, Held
  <2>3. \A s \in Held(u, i) : IsLatest(s, u, i)' <=> IsLatest(s, u, i)
    BY <1>1, <1>3, <1>5 DEF IsLatest, RowQueue, Edits
  <2> QED
    BY <1>3, <2>1, <2>2, <2>3 DEF RowQueue
<1> QED
  BY <1>4, <1>5

LEMMA QueueStep ==
  ASSUME TypesInv, QueueInv, UndoInv, [Next]_vars
  PROVE  QueueInv' /\ UndoInv'
<1> DEFINE Same == latest' = latest /\ queued' = queued /\ active' = active
<1>1. ASSUME Same,
             \A s \in Slots : calls[s].op = "update" \/ calls'[s].op = "update" =>
                                calls'[s] = calls[s]
      PROVE  QueueInv'
  BY <1>1, QueueSame
<1>2. undo # None => undo \in Undoable
  BY DEF TypesInv, RestOK
<1>3. \A s \in Slots : Begun(s) /\ undo' = undo => UndoInv'
  BY <1>2, FreeIs DEF Begun, UndoInv, Undoable
<1>4. CASE Student
  <2>1. ASSUME NEW s \in Slots, useCreateInList(s) \/ useReorderList(s)
        PROVE  QueueInv' /\ UndoInv'
    <3>1. Begun(s) /\ calls'[s].op # "update" /\ undo' = undo /\ Same
      BY <2>1, BegunIs DEF useCreateInList, useReorderList
    <3> QED
      BY <1>1, <1>3, <3>1, FreeIs DEF Begun
  <2>2. ASSUME NEW s \in Slots, undoDelete(s)
        PROVE  QueueInv' /\ UndoInv'
    <3>1. Same
      BY <2>2 DEF undoDelete
    <3>2. /\ \A r \in Slots : r # s => calls'[r] = calls[r]
          /\ calls[s].op # "update" /\ calls'[s].op # "update"
          /\ undo' = None
      <4>1. [op |-> "restore", st |-> "sent", id |-> undo.id].op = "restore"
        OBVIOUS
      <4> QED
        BY <2>2, <4>1, UndoneIs, FreeIs
    <3> QED
      BY <1>1, <3>1, <3>2 DEF UndoInv
  <2>3. ASSUME NEW s \in Slots, NEW k \in shown, archive(s, k)
        PROVE  QueueInv' /\ UndoInv'
    <3>1. Begun(s) /\ calls'[s].op = "archive" /\ calls'[s].id = k /\ Same
          /\ undo' = [id |-> k, slot |-> s]
      BY <2>3, BegunIs DEF archive
    <3>2. QueueInv'
      BY <1>1, <3>1, FreeIs DEF Begun
    <3> QED
      BY <3>1, <3>2 DEF UndoInv
  <2>4. ASSUME NEW s \in Slots, NEW k \in shown, NEW f \in Fields, useUpdateInList(s, k, f)
        PROVE  QueueInv' /\ UndoInv'
    <3>1. Begun(s) /\ undo' = undo
      BY <2>4, BegunIs DEF useUpdateInList
    <3> QED
      BY <1>3, <2>4, <3>1, QueueUpdate
  <2>5. ASSUME clearPending \/ Remount \/ Focus
        PROVE  QueueInv' /\ UndoInv'
    <3>1. Same /\ calls' = calls /\ (undo' = undo \/ undo' = None)
      BY <2>5 DEF clearPending, Remount, Focus
    <3> QED
      BY <1>1, <3>1 DEF UndoInv
  <2> QED
    BY <1>4, <2>1, <2>2, <2>3, <2>4, <2>5 DEF Student
<1>5. CASE Page
  <2>1. ASSUME NEW s \in Slots, MutationReturns(s)
        PROVE  QueueInv' /\ UndoInv'
    <3>1. Same
      BY <2>1 DEF MutationReturns
    <3>2. /\ \A r \in Slots : r # s => calls'[r] = calls[r]
          /\ calls[s].op # "update" /\ calls'[s].op # "update"
      <4>1. [op |-> "restore", st |-> "sent", id |-> calls[s].id].op = "restore"
        OBVIOUS
      <4> QED
        BY <2>1, <4>1, ReturnedIs, FreeIs
    <3>3. QueueInv'
      BY <1>1, <3>1, <3>2
    <3>4. undo' # None => undo # None /\ undo'.id = undo.id
            /\ (undo'.slot # None => undo.slot # s /\ undo'.slot = undo.slot)
      BY <1>2, <2>1 DEF MutationReturns, Undoable
    <3>5. UndoInv'
      BY <3>2, <3>4 DEF UndoInv
    <3> QED
      BY <3>3, <3>5
  <2>2. ASSUME NEW v \in Visits, NEW k \in Keys, UpdateReturns(v, k)
        PROVE  QueueInv' /\ UndoInv'
    <3>1. \A s \in Slots : calls[s].op # "update" => calls'[s] = calls[s]
      <4>1. active[v][k].by \subseteq Edits(v, k)
        BY <2>2 DEF UpdateReturns, QueueInv, RowQueue, Carried
      <4> QED
        BY <2>2, <4>1 DEF UpdateReturns, Edits
    <3>2. undo' = undo
      BY <2>2 DEF UpdateReturns
    <3> QED
      BY <2>2, <3>1, <3>2, QueueReturns DEF UndoInv
  <2>3. ASSUME ReadReturns \/ invalidateFromChange
        PROVE  QueueInv' /\ UndoInv'
    <3>1. Same /\ calls' = calls /\ undo' = undo
      BY <2>3 DEF ReadReturns, invalidateFromChange
    <3> QED
      BY <1>1, <3>1 DEF UndoInv
  <2> QED
    BY <1>5, <2>1, <2>2, <2>3 DEF Page, Keys
<1>6. CASE Server
  <2>1. CASE list_activities
    BY <1>1, <2>1 DEF list_activities, UndoInv
  <2>2. ASSUME NEW s \in Slots, ServedBy(s), Same, undo' = undo
        PROVE  QueueInv' /\ UndoInv'
    <3>1. QueueInv'
      BY <1>1, <2>2 DEF ServedBy
    <3>2. UndoInv'
      BY <2>2 DEF ServedBy, UndoInv
    <3> QED
      BY <3>1, <3>2
  <2>3. ASSUME NEW v \in Visits, NEW k \in Keys, update_activity(v, k), Serve
        PROVE  QueueInv' /\ UndoInv'
    <3>1. calls' = calls /\ undo' = undo /\ latest' = latest /\ queued' = queued
      BY <2>3 DEF update_activity, Serve
    <3>2. \A u \in Visits, i \in Keys :
            /\ active'[u][i] = None <=> active[u][i] = None
            /\ active[u][i] # None => active'[u][i].by = active[u][i].by
      <4>1. /\ \A u \in Visits, i \in Keys : u # v \/ i # k => active'[u][i] = active[u][i]
            /\ active[v][k] # None /\ active'[v][k] # None
            /\ active'[v][k].by = active[v][k].by
        <5>1. TableOK /\ QueuesOK
          BY DEF TypesInv
        <5> QED
          BY <2>3, <5>1, UpdatedIs
      <4> QED
        BY <4>1
    <3> QED
      BY <3>1, <3>2, QueueSame DEF UndoInv
  <2> QED
    BY <1>6, <2>1, <2>2, <2>3, ServedIs DEF Server, Serve, Keys
<1>7. CASE Lose
  <2>0. latest' = latest /\ queued' = queued /\ undo' = undo
    BY <1>7 DEF Lose
  <2>1. CASE UNCHANGED <<calls, active>>
    BY <1>1, <2>0, <2>1 DEF UndoInv
  <2>2. ASSUME NEW s \in Slots, calls[s].op \notin {"none", "update"},
               calls' = [calls EXCEPT ![s].st = "lost"], active' = active
        PROVE  QueueInv' /\ UndoInv'
    <3>1. calls'[s].op = calls[s].op /\ (calls[s].op = "archive" => calls'[s].id = calls[s].id)
          /\ \A r \in Slots : r # s => calls'[r] = calls[r]
      BY <2>2, LostIs DEF TypesInv
    <3>2. QueueInv'
      BY <1>1, <2>0, <2>2, <3>1
    <3> QED
      BY <2>0, <3>1, <3>2 DEF UndoInv
  <2>3. ASSUME NEW v \in Visits, NEW k \in Keys, LosesEdit(v, k), calls' = calls
        PROVE  QueueInv' /\ UndoInv'
    <3>1. \A u \in Visits, i \in Keys :
            /\ active'[u][i] = None <=> active[u][i] = None
            /\ active[u][i] # None => active'[u][i].by = active[u][i].by
      <4>1. QueuesOK
        BY DEF TypesInv
      <4>2. /\ \A u \in Visits, i \in Keys : u # v \/ i # k => active'[u][i] = active[u][i]
            /\ active'[v][k] # None
            /\ active'[v][k].by = active[v][k].by
        BY <2>3, <4>1, LostEditIs
      <4>3. active[v][k] # None
        BY <2>3 DEF LosesEdit
      <4> QED
        BY <4>2, <4>3
    <3> QED
      BY <2>0, <2>3, <3>1, QueueSame DEF UndoInv
  <2> QED
    BY <1>7, <2>1, <2>2, <2>3 DEF Lose, Keys, LosesEdit
<1>8. CASE \E i \in Ids, f \in Fields : AgentEdits(i, f)
  BY <1>1, <1>8 DEF AgentEdits, UndoInv
<1>9. CASE UNCHANGED vars
  BY <1>1, <1>9 DEF vars, UndoInv
<1> QED
  BY <1>4, <1>5, <1>6, <1>7, <1>8, <1>9 DEF Next

LEMMA QueueInit ==
  ASSUME Init
  PROVE  QueueInv /\ UndoInv
<1>1. \A v \in Visits, k \in Keys : active[v][k] = None /\ queued[v][k] = None
  BY DEF Init, Keys
<1>2. \A v \in Visits, k \in Keys : Edits(v, k) = {}
  BY FreeIs DEF Init, Edits
<1>3. QueueInv
  BY <1>1, <1>2 DEF QueueInv, RowQueue, Carried, Held
<1> QED
  BY <1>3 DEF Init, UndoInv

\* The induction: types, queues and the toast.
BaseInv == TypesInv /\ QueueInv /\ UndoInv

LEMMA BaseHolds == Spec => []BaseInv
<1>1. Init => BaseInv
  BY TypeInit, QueueInit DEF BaseInv
<1>2. BaseInv /\ [Next]_vars => BaseInv'
  BY TypeStep, QueueStep DEF BaseInv
<1> QED
  BY <1>1, <1>2, PTL DEF Spec

\* Every edit is carried by its row's request under way, or waits in the queue
\* that the request's answer empties: flushQueued and enqueue lose none,
\* however the answers fall and however often the page was left meanwhile.
THEOREM NoEditIsStranded == Spec => []NoEditStranded
<1>1. BaseInv => NoEditStranded
  <2> SUFFICES ASSUME BaseInv, NEW s \in Slots, calls[s].op = "update"
               PROVE  LET a == active[calls[s].visit][calls[s].id]
                          q == queued[calls[s].visit][calls[s].id]
                      IN  a # None /\ (s \in a.by \/ (q # None /\ s \in q.by))
    BY DEF NoEditStranded
  <2> DEFINE v == calls[s].visit
             k == calls[s].id
  <2>1. v \in Visits /\ k \in Keys
    BY FreeIs DEF BaseInv, TypesInv, CallsOK, CallOK
  <2>2. s \in Edits(v, k) /\ RowQueue(v, k)
    BY <2>1 DEF Edits, BaseInv, QueueInv
  <2> HIDE DEF v, k
  <2>3. active[v][k] # None
        /\ (s \in active[v][k].by \/ (queued[v][k] # None /\ s \in queued[v][k].by))
    BY <2>2 DEF RowQueue, Carried, Held
  <2> QED
    BY <2>3 DEF v, k
<1> QED
  BY <1>1, BaseHolds, PTL

(***************************************************************************)
(* The last wish to keep a row wins.                                       *)
(***************************************************************************)
Restoring(i) ==
  {s \in Slots : calls[s].op = "restore" /\ calls[s].id = i /\ calls[s].st = "sent"}

\* The student was told that a wish about row i failed, or soon will be.
Upset(i) ==
  \/ i \in hist.spoilt
  \/ \E s \in Slots : /\ calls[s].op \in {"archive", "restore"} /\ calls[s].id = i
                      /\ calls[s].st \in {"refused", "lost"}

\* One deletion of row i at most is under way, and it knows whether it was
\* undone; the row is where the student wants it or on its way there.
Wished(i) ==
  /\ \A r, s \in Deleting(i) : r = s
  /\ \A s \in Deleting(i) :
       /\ calls[s].undo = hist.keep[i]
       /\ calls[s].st = "ok" => table[i].at = "archived" /\ Restoring(i) = {}
  /\ Restoring(i) # {} => table[i].at = "archived"
  /\ \A r, s \in Restoring(i) : r = s
  /\ hist.keep[i] => Deleting(i) # {} \/ Restoring(i) # {} \/ table[i].at # "archived"
  /\ ~hist.keep[i] => \/ \E s \in Deleting(i) : calls[s].st = "sent"
                      \/ table[i].at = "archived" /\ Restoring(i) = {}
  /\ undo # None /\ undo.id = i => ~hist.keep[i] /\ (undo.slot = None => Deleting(i) = {})

KeepInv == \A i \in Ids : ~Upset(i) => Wished(i)

\* The mutation of slot s decides where row i will be.
Decides(s, i) ==
  /\ \/ calls[s].op = "archive"
     \/ calls[s].op = "restore" /\ calls[s].st # "ok"
  /\ calls[s].id = i

\* A step that is not about row i, or only creates it.
LEMMA KeepSame ==
  ASSUME NEW i \in Ids, ~Upset(i) => Wished(i),
         \A s \in Slots : Decides(s, i) \/ Decides(s, i)' => calls'[s] = calls[s],
         table'[i].at = table[i].at \/ (table[i].at = "absent" /\ table'[i].at = "active"),
         hist'.keep[i] = hist.keep[i], i \in hist.spoilt => i \in hist'.spoilt,
         undo' # None /\ undo'.id = i =>
           undo # None /\ undo.id = i /\ (undo'.slot = None => undo.slot = None)
  PROVE  ~Upset(i)' => Wished(i)'
<1>1. Upset(i) => Upset(i)'
  BY DEF Upset, Decides
<1>2. Deleting(i)' = Deleting(i) /\ \A s \in Deleting(i) : calls'[s] = calls[s]
  BY DEF Deleting, Decides
<1>3. Restoring(i)' = Restoring(i)
  BY DEF Restoring, Decides
<1> QED
  BY <1>1, <1>2, <1>3 DEF Wished

LEMMA KeepArchive ==
  ASSUME BaseInv, KeepInv, NEW s \in Slots, NEW k \in shown, archive(s, k)
  PROVE  KeepInv'
<1> SUFFICES ASSUME NEW i \in Ids
             PROVE  ~Upset(i)' => Wished(i)'
  BY DEF KeepInv
<1>1. /\ Begun(s) /\ calls'[s].op = "archive" /\ calls'[s].id = k
      /\ calls'[s].undo = FALSE /\ calls'[s].st = "sent"
  BY BegunIs DEF BaseInv
<1>2. table' = table /\ undo' = [id |-> k, slot |-> s]
  BY DEF archive
<1>3. ~Upset(i) => Wished(i)
  BY DEF KeepInv
<1> DEFINE twice == {calls[r].id : r \in Deleting(k)}
<1>4. /\ hist \in Histories
      /\ k \in Temps => hist' = hist
      /\ k \notin Temps => hist' = [hist EXCEPT !.keep[k] = FALSE, !.spoilt = @ \cup twice]
  BY DEF archive, BaseInv, TypesInv, RestOK
<1>5. i \notin Temps
  BY ListAssumption DEF Temps, TempId, Ids
<1>6. CASE i # k
  <2>1. hist'.keep[i] = hist.keep[i] /\ (i \in hist.spoilt => i \in hist'.spoilt)
    BY <1>4, <1>6 DEF Histories
  <2>2. \A r \in Slots : Decides(r, i) \/ Decides(r, i)' => calls'[r] = calls[r]
    BY <1>1, <1>6, FreeIs DEF Begun, Decides
  <2> QED
    BY <1>2, <1>3, <1>6, <2>1, <2>2, KeepSame
<1>7. CASE i = k
  <2>1. hist'.keep[i] = FALSE /\ hist'.spoilt = hist.spoilt \cup twice
    <3> DEFINE kept == [hist.keep EXCEPT ![k] = FALSE]
               sp == hist.spoilt \cup twice
    <3>1. hist' = [hist EXCEPT !.keep = kept, !.spoilt = sp]
      BY <1>4, <1>5, <1>7
    <3>2. kept[i] = FALSE
      BY <1>4, <1>7 DEF Histories
    <3> HIDE DEF kept, sp
    <3>3. hist'.keep = kept /\ hist'.spoilt = sp
      BY <1>4, <3>1 DEF Histories
    <3> QED
      BY <3>2, <3>3 DEF sp
  <2>2. s \notin Deleting(i) /\ s \notin Restoring(i)
    BY <1>1, FreeIs DEF Begun, Deleting, Restoring
  <2>3. Deleting(i)' = Deleting(i) \cup {s} /\ Restoring(i)' = Restoring(i)
    BY <1>1, <1>7, FreeIs DEF Begun, Deleting, Restoring
  <2>4. CASE Deleting(i) # {}
    <3>1. i \in hist'.spoilt
      BY <1>7, <2>1, <2>4 DEF Deleting
    <3> QED
      BY <3>1 DEF Upset
  <2>5. CASE Deleting(i) = {}
    <3>1. Upset(i) => Upset(i)'
      BY <1>1, <2>1, FreeIs DEF Begun, Upset
    <3>2. undo'.slot # None
      BY <1>2, NoneAssumption
    <3> QED
      BY <1>1, <1>2, <1>3, <2>1, <2>3, <2>5, <3>1, <3>2 DEF Wished
  <2> QED
    BY <2>4, <2>5
<1> QED
  BY <1>6, <1>7

LEMMA KeepUndo ==
  ASSUME BaseInv, KeepInv, NEW s \in Slots, undoDelete(s)
  PROVE  KeepInv'
<1> SUFFICES ASSUME NEW i \in Ids
             PROVE  ~Upset(i)' => Wished(i)'
  BY DEF KeepInv
<1> DEFINE k == undo.id
           back == [op |-> "restore", st |-> "sent", id |-> k]
<1>1. /\ \A r \in Slots : r # s => calls'[r] = calls[r]
      /\ undo # None /\ k \in Keys /\ undo' = None
  BY UndoneIs DEF BaseInv
<1>2. \/ /\ undo.slot # None
         /\ calls[s].op = "archive" /\ calls[s].id = k
         /\ calls'[s].op = "archive" /\ calls'[s].id = k
         /\ calls'[s].st = calls[s].st /\ calls'[s].undo = TRUE
      \/ undo.slot = None /\ calls[s] = Free /\ calls'[s] = back
  BY UndoneIs DEF BaseInv
<1>3. back.op = "restore" /\ back.st = "sent" /\ back.id = k
  OBVIOUS
<1>4. table' = table
  BY DEF undoDelete
<1>5. ~Upset(i) => Wished(i)
  BY DEF KeepInv
<1>6. /\ hist \in Histories /\ hist'.spoilt = hist.spoilt
      /\ k \in Temps => hist' = hist
      /\ k \notin Temps => hist' = [hist EXCEPT !.keep[k] = TRUE]
  BY DEF undoDelete, BaseInv, TypesInv, RestOK, Histories
<1>7. i \notin Temps
  BY ListAssumption DEF Temps, TempId, Ids
<1> HIDE DEF k, back
<1>8. CASE i # k
  <2>1. hist'.keep[i] = hist.keep[i]
    BY <1>6, <1>8 DEF Histories
  <2>2. \A r \in Slots : Decides(r, i) \/ Decides(r, i)' => calls'[r] = calls[r]
    BY <1>1, <1>2, <1>3, <1>8, FreeIs DEF Decides
  <2> QED
    BY <1>1, <1>4, <1>5, <1>6, <2>1, <2>2, KeepSame
<1>9. CASE i = k
  <2>1. hist'.keep[i] = TRUE
    BY <1>6, <1>7, <1>9 DEF Histories
  <2>2. Upset(i) => Upset(i)'
    BY <1>1, <1>2, <1>6, FreeIs DEF Upset
  <2>3. CASE undo.slot # None
    <3>1. calls[s].op = "archive" /\ calls[s].id = k /\ calls'[s].op = "archive"
          /\ calls'[s].id = k /\ calls'[s].st = calls[s].st /\ calls'[s].undo = TRUE
      BY <1>2, <2>3
    <3>2. Deleting(i)' = Deleting(i) /\ Restoring(i)' = Restoring(i) /\ s \in Deleting(i)
      BY <1>1, <1>9, <3>1 DEF Deleting, Restoring
    <3> QED
      BY <1>1, <1>4, <1>5, <2>1, <2>2, <3>1, <3>2 DEF Wished
  <2>4. CASE undo.slot = None
    <3>1. Deleting(i)' = Deleting(i) /\ Restoring(i)' = Restoring(i) \cup {s}
      BY <1>1, <1>2, <1>3, <1>9, <2>4, FreeIs DEF Deleting, Restoring
    <3>2. k = undo.id
      BY DEF k
    <3> QED
      BY <1>1, <1>4, <1>5, <1>9, <2>1, <2>2, <2>4, <3>1, <3>2 DEF Wished
  <2> QED
    BY <2>3, <2>4
<1> QED
  BY <1>8, <1>9

LEMMA KeepReturns ==
  ASSUME BaseInv, KeepInv, NEW s \in Slots, MutationReturns(s)
  PROVE  KeepInv'
<1> SUFFICES ASSUME NEW i \in Ids
             PROVE  ~Upset(i)' => Wished(i)'
  BY DEF KeepInv
<1> DEFINE c == calls[s]
           ok == c.st = "ok"
           back == [op |-> "restore", st |-> "sent", id |-> c.id]
<1>1. /\ \A r \in Slots : r # s => calls'[r] = calls[r]
      /\ c # Free /\ c.st # "sent"
      /\ c.op \in {"create", "archive", "restore", "reorder"}
      /\ IF c.op = "archive" /\ c.undo /\ ok THEN calls'[s] = back ELSE calls'[s] = Free
  BY ReturnedIs DEF BaseInv
<1>2. back.op = "restore" /\ back.st = "sent" /\ back.id = c.id
  OBVIOUS
<1> HIDE DEF back
<1>3. table' = table /\ (~Upset(i) => Wished(i)) /\ hist \in Histories
      /\ undo \in Undoable \cup {None}
  BY DEF MutationReturns, KeepInv, BaseInv, TypesInv, RestOK
<1>4. hist'.keep = hist.keep
      /\ hist'.spoilt = hist.spoilt \cup
           (IF c.op \in {"archive", "restore"} /\ ~ok /\ c.id \in Ids THEN {c.id} ELSE {})
  <2>1. hist' = Fresh(IF c.op \in {"archive", "restore"} THEN Told(ok, c.id) ELSE hist)
    BY DEF MutationReturns
  <2> QED
    BY <1>3, <2>1 DEF Fresh, Told, Histories
<1>5. undo' # None => /\ undo # None /\ undo'.id = undo.id
                      /\ undo'.slot = undo.slot \/ (undo.slot = s /\ ok)
  BY <1>3 DEF MutationReturns, Undoable
<1>6. undo # None /\ undo.slot = s => undo.id = c.id /\ c.op = "archive"
  BY NoneAssumption DEF BaseInv, UndoInv
<1>7. CASE ~(c.op \in {"archive", "restore"} /\ c.id = i /\ ~(c.op = "restore" /\ ok))
  <2>1. \A r \in Slots : Decides(r, i) \/ Decides(r, i)' => calls'[r] = calls[r]
    BY <1>1, <1>2, <1>7, FreeIs DEF Decides
  <2>2. undo' # None /\ undo'.id = i =>
          undo # None /\ undo.id = i /\ (undo'.slot = None => undo.slot = None)
    BY <1>5, <1>6, <1>7
  <2> QED
    BY <1>3, <1>4, <2>1, <2>2, KeepSame
<1>8. CASE c.op \in {"archive", "restore"} /\ c.id = i /\ ~ok
  BY <1>4, <1>8 DEF Upset
<1>9. CASE c.op = "archive" /\ c.id = i /\ ok
  <2>1. s \in Deleting(i) /\ s \notin Restoring(i)
    BY <1>1, <1>9 DEF Deleting, Restoring
  <2>2. Upset(i) => Upset(i)'
    BY <1>1, <1>4, <1>9 DEF Upset
  <2>3. Deleting(i)' = Deleting(i) \ {s}
    BY <1>1, <1>2, <1>9, FreeIs DEF Deleting
  <2>4. CASE c.undo
    <3>1. Restoring(i)' = Restoring(i) \cup {s}
      BY <1>1, <1>2, <1>9, <2>1, <2>4 DEF Restoring
    <3> QED
      BY <1>1, <1>3, <1>4, <1>5, <1>9, <2>1, <2>2, <2>3, <2>4, <3>1 DEF Wished
  <2>5. CASE ~c.undo
    <3>1. Restoring(i)' = Restoring(i)
      BY <1>1, <1>9, <2>1, <2>5, FreeIs DEF Restoring
    <3> QED
      BY <1>1, <1>3, <1>4, <1>5, <1>9, <2>1, <2>2, <2>3, <2>5, <3>1 DEF Wished
  <2> QED
    BY <2>4, <2>5
<1> QED
  BY <1>1, <1>7, <1>8, <1>9

LEMMA KeepServed ==
  ASSUME BaseInv, KeepInv, NEW s \in Slots, ServedBy(s), hist' = hist, undo' = undo
  PROVE  KeepInv'
<1> SUFFICES ASSUME NEW i \in Ids
             PROVE  ~Upset(i)' => Wished(i)'
  BY DEF KeepInv
<1> DEFINE c == calls[s]
<1>1. ~Upset(i) => Wished(i)
  BY DEF KeepInv
<1>2. Upset(i) => Upset(i)'
  BY DEF ServedBy, Upset
<1>3. CASE ~(c.op \in {"archive", "restore"} /\ c.id = i)
  <2>1. \A r \in Slots : Decides(r, i) \/ Decides(r, i)' => calls'[r] = calls[r]
    BY <1>3 DEF ServedBy, Decides
  <2>2. table'[i].at = table[i].at \/ (table[i].at = "absent" /\ table'[i].at = "active")
    BY <1>3 DEF ServedBy
  <2> QED
    BY <1>1, <2>1, <2>2, KeepSame
<1>4. CASE c.op \in {"archive", "restore"} /\ c.id = i /\ calls'[s].st = "refused"
  BY <1>4 DEF ServedBy, Upset
<1>5. CASE c.op = "archive" /\ c.id = i /\ calls'[s].st = "ok"
  <2>1. /\ Deleting(i)' = Deleting(i) /\ Restoring(i)' = Restoring(i) /\ s \in Deleting(i)
        /\ \A r \in Slots : r # s => calls'[r] = calls[r]
        /\ calls'[s].undo = c.undo /\ c.st = "sent"
    BY <1>5 DEF ServedBy, Deleting, Restoring
  <2>2. table[i].at = "active" /\ table'[i].at = "archived"
    BY <1>5 DEF ServedBy
  <2> QED
    BY <1>1, <1>2, <1>5, <2>1, <2>2 DEF Wished
<1>6. CASE c.op = "restore" /\ c.id = i /\ calls'[s].st = "ok"
  <2>1. /\ Deleting(i)' = Deleting(i) /\ Restoring(i)' = Restoring(i) \ {s} /\ s \in Restoring(i)
        /\ \A r \in Slots : r # s => calls'[r] = calls[r]
        /\ s \notin Deleting(i)
    BY <1>6 DEF ServedBy, Deleting, Restoring
  <2>2. table[i].at = "archived" /\ table'[i].at = "active"
    BY <1>6 DEF ServedBy
  <2>3. \A r \in Deleting(i) : calls'[r] = calls[r]
    BY <2>1 DEF Deleting
  <2> QED
    BY <1>1, <1>2, <1>6, <2>1, <2>2, <2>3 DEF Wished
<1> QED
  BY <1>3, <1>4, <1>5, <1>6 DEF ServedBy

LEMMA KeepStep ==
  ASSUME BaseInv, KeepInv, [Next]_vars
  PROVE  KeepInv'
\* A step that leaves the mutations that decide about rows.
<1>1. ASSUME \A i \in Ids, s \in Slots :
               Decides(s, i) \/ Decides(s, i)' => calls'[s] = calls[s],
             \A i \in Ids : table'[i].at = table[i].at,
             hist'.keep = hist.keep, hist.spoilt \subseteq hist'.spoilt,
             undo' \in {undo, None}
      PROVE  KeepInv'
  BY <1>1, KeepSame DEF KeepInv
<1>2. hist \in Histories /\ TypesInv /\ TableOK
  BY DEF BaseInv, TypesInv, RestOK
<1>3. CASE Student
  <2>1. ASSUME NEW s \in Slots, useCreateInList(s) \/ useReorderList(s)
        PROVE  KeepInv'
    <3>1. Begun(s) /\ calls'[s].op \in {"create", "reorder"}
          /\ table' = table /\ hist' = hist /\ undo' = undo
      BY <1>2, <2>1, BegunIs DEF useCreateInList, useReorderList
    <3> QED
      BY <1>1, <3>1, FreeIs DEF Begun, Decides
  <2>2. ASSUME NEW s \in Slots, NEW k \in shown, NEW f \in Fields, useUpdateInList(s, k, f)
        PROVE  KeepInv'
    <3>1. Begun(s) /\ calls'[s].op = "update"
      BY <1>2, <2>2, BegunIs
    <3>2. table' = table /\ undo' = undo
      BY <2>2 DEF useUpdateInList
    <3>3. hist'.keep = hist.keep /\ hist'.spoilt = hist.spoilt
      BY <1>2, <2>2 DEF useUpdateInList, Histories
    <3> QED
      BY <1>1, <3>1, <3>2, <3>3, FreeIs DEF Begun, Decides
  <2>3. ASSUME clearPending \/ Remount \/ Focus
        PROVE  KeepInv'
    <3>1. calls' = calls /\ table' = table /\ undo' \in {undo, None}
      BY <2>3 DEF clearPending, Remount, Focus
    <3>2. hist'.keep = hist.keep /\ hist'.spoilt = hist.spoilt
      BY <1>2, <2>3 DEF clearPending, Remount, Focus, Histories
    <3> QED
      BY <1>1, <3>1, <3>2
  <2> QED
    BY <1>3, <2>1, <2>2, <2>3, KeepArchive, KeepUndo DEF Student
<1>4. CASE Page
  <2>1. ASSUME NEW v \in Visits, NEW k \in Keys, UpdateReturns(v, k)
        PROVE  KeepInv'
    <3>1. \A s \in Slots : calls[s].op # "update" => calls'[s] = calls[s]
      <4>1. active[v][k].by \subseteq Edits(v, k)
        BY <2>1 DEF UpdateReturns, BaseInv, QueueInv, RowQueue, Carried
      <4> QED
        BY <2>1, <4>1 DEF UpdateReturns, Edits
    <3>2. \A s \in Slots : calls[s].op = "update" => calls'[s] = calls[s] \/ calls'[s] = Free
      BY <2>1 DEF UpdateReturns
    <3>3. undo' = undo /\ table' = table
      BY <2>1 DEF UpdateReturns
    <3>4. hist'.keep = hist.keep /\ hist.spoilt \subseteq hist'.spoilt
      BY <1>2, <2>1 DEF UpdateReturns, Told, Fresh, Histories
    <3> QED
      BY <1>1, <3>1, <3>2, <3>3, <3>4, FreeIs DEF Decides
  <2>2. ASSUME ReadReturns \/ invalidateFromChange
        PROVE  KeepInv'
    <3>1. calls' = calls /\ undo' = undo /\ table' = table
      BY <2>2 DEF ReadReturns, invalidateFromChange
    <3>2. hist'.keep = hist.keep /\ hist'.spoilt = hist.spoilt
      BY <1>2, <2>2 DEF ReadReturns, invalidateFromChange, Histories
    <3> QED
      BY <1>1, <3>1, <3>2
  <2> QED
    BY <1>4, <2>1, <2>2, KeepReturns DEF Page, Keys
<1>5. CASE Server
  <2>1. CASE list_activities
    BY <1>1, <2>1 DEF list_activities
  <2>2. ASSUME NEW v \in Visits, NEW k \in Keys, update_activity(v, k), Serve
        PROVE  KeepInv'
    <3>1. calls' = calls /\ undo' = undo /\ hist' = hist
      BY <2>2 DEF update_activity, Serve
    <3>2. \A i \in Ids : table'[i].at = table[i].at
      <4>1. TableOK /\ QueuesOK
        BY DEF BaseInv, TypesInv
      <4>2. RowAnswered(v, k)
        BY <2>2, <4>1, UpdatedIs
      <4>3. \A r \in Rowed : \A p : Edited(r, p).at = r.at
        BY DEF Edited, Rowed
      <4> QED
        BY <4>1, <4>2, <4>3 DEF RowAnswered, TableOK
    <3> QED
      BY <1>1, <3>1, <3>2
  <2> QED
    BY <1>2, <1>5, <2>1, <2>2, KeepServed, ServedIs DEF Server, Serve, Keys
<1>6. CASE Lose
  <2>1. table' = table /\ hist' = hist /\ undo' = undo
    BY <1>6 DEF Lose
  <2>2. CASE calls' = calls
    BY <1>1, <2>1, <2>2
  <2>3. ASSUME NEW s \in Slots, calls[s].op \notin {"none", "update"},
               calls' = [calls EXCEPT ![s].st = "lost"]
        PROVE  KeepInv'
    <3>1. /\ calls'[s].op = calls[s].op /\ calls'[s].st = "lost"
          /\ calls[s].op \in {"archive", "restore"} => calls'[s].id = calls[s].id
          /\ \A r \in Slots : r # s => calls'[r] = calls[r]
      BY <1>2, <2>3, LostIs DEF TypesInv
    <3> SUFFICES ASSUME NEW i \in Ids
                 PROVE  ~Upset(i)' => Wished(i)'
      BY DEF KeepInv
    <3>2. CASE calls[s].op \in {"archive", "restore"} /\ calls[s].id = i
      BY <3>1, <3>2 DEF Upset
    <3>3. CASE ~(calls[s].op \in {"archive", "restore"} /\ calls[s].id = i)
      <4>1. \A r \in Slots : Decides(r, i) \/ Decides(r, i)' => calls'[r] = calls[r]
        BY <3>1, <3>3 DEF Decides
      <4> QED
        BY <2>1, <4>1, KeepSame DEF KeepInv
    <3> QED
      BY <3>2, <3>3
  <2> QED
    BY <1>6, <2>2, <2>3 DEF Lose
<1>7. CASE \E i \in Ids, f \in Fields : AgentEdits(i, f)
  <2>1. PICK j \in Ids, f \in Fields : AgentEdits(j, f)
    BY <1>7
  <2>2. hist'.keep = hist.keep /\ hist.spoilt \subseteq hist'.spoilt
    BY <1>2, <2>1 DEF AgentEdits, Histories
  <2>3. \A i \in Ids : table'[i].at = table[i].at
    BY <1>2, <2>1 DEF AgentEdits, Written, TableOK, Rowed
  <2> QED
    BY <1>1, <2>1, <2>2, <2>3 DEF AgentEdits
<1>8. CASE UNCHANGED vars
  BY <1>1, <1>8 DEF vars
<1> QED
  BY <1>3, <1>4, <1>5, <1>6, <1>7, <1>8 DEF Next

LEMMA KeepInit ==
  ASSUME Init
  PROVE  KeepInv
<1>1. \A i \in Ids : Deleting(i) = {} /\ Restoring(i) = {}
  BY FreeIs DEF Init, Deleting, Restoring
<1>2. \A i \in Ids : table[i].at # "archived" /\ hist.keep[i] = TRUE /\ undo = None
  BY DEF Init
<1> QED
  BY <1>1, <1>2 DEF KeepInv, Wished

\* A deletion that was undone is undone and another one holds, however the undo
\* met the deletion's request: useUndoableDelete waits for it, and the toast
\* offers the newest deletion only.  Rows whose student was told that a wish
\* failed, or that were deleted twice at once, are left out.
THEOREM WishesWin == Spec => []UndoWins
<1>1. Init => KeepInv
  BY KeepInit
<1>2. BaseInv /\ KeepInv /\ [Next]_vars => KeepInv'
  BY KeepStep
<1>3. BaseInv /\ KeepInv => UndoWins
  <2> SUFFICES ASSUME BaseInv, KeepInv, Quiet, NEW i \in Ids, i \notin hist.spoilt,
                      table[i].at # "absent"
               PROVE  table[i].at = "active" <=> hist.keep[i]
    BY DEF UndoWins
  <2>1. Deleting(i) = {} /\ Restoring(i) = {} /\ ~Upset(i)
    BY DEF Quiet, Deleting, Restoring, Upset
  <2>2. table[i].at \in {"active", "archived"} /\ hist.keep[i] \in BOOLEAN
    BY DEF BaseInv, TypesInv, TableOK, Rowed, RestOK, Histories
  <2> QED
    BY <2>1, <2>2 DEF KeepInv, Wished
<1> QED
  BY <1>1, <1>2, <1>3, BaseHolds, PTL DEF Spec

(***************************************************************************)
(* The last edit of every field wins.                                      *)
(***************************************************************************)
\* The student was told that an edit of row i failed, or soon will be.
Spoilt(i) ==
  \/ i \in hist.spoilt
  \/ \E v \in Visits : active[v][i] # None /\ active[v][i].st \in {"refused", "lost"}

\* Where the student's last edit of the field is: in the queue of visit v, in
\* its request under way, or in the row.
Arrives(v, i, f) ==
  IF queued[v][i] # None /\ f \in DOMAIN queued[v][i].patch
  THEN queued[v][i].patch[f] = hist.edit[i][f]
  ELSE IF active[v][i] # None /\ active[v][i].st = "sent" /\ f \in DOMAIN active[v][i].patch
  THEN active[v][i].patch[f] = hist.edit[i][f]
  ELSE table[i].val[f] = hist.edit[i][f]

EditOf(i) ==
  /\ \A v \in Visits \ hist.visits[i] : active[v][i] = None
  /\ ~Spoilt(i) => \A v \in Visits, f \in Fields : hist.visits[i] \subseteq {v} => Arrives(v, i, f)

EditInv == \A i \in Ids : EditOf(i)

\* A step that leaves the row's edits and contents.
LEMMA EditSame ==
  ASSUME NEW i \in Ids, EditOf(i),
         \A v \in Visits : active'[v][i] = active[v][i] /\ queued'[v][i] = queued[v][i],
         hist'.edit[i] = hist.edit[i], hist'.visits[i] = hist.visits[i],
         i \in hist.spoilt => i \in hist'.spoilt,
         i \in hist'.spoilt \/ table'[i].val = table[i].val
  PROVE  EditOf(i)'
BY DEF EditOf, Spoilt, Arrives

LEMMA EditUpdate ==
  ASSUME BaseInv, EditInv, NEW s \in Slots, NEW k \in shown, NEW f \in Fields,
         useUpdateInList(s, k, f)
  PROVE  EditInv'
<1> SUFFICES ASSUME NEW i \in Ids
             PROVE  EditOf(i)'
  BY DEF EditInv
<1> DEFINE n == count.ops + 1
           p == [x \in {f} |-> n]
<1>1. n \in 1..MaxOps /\ k \in Keys /\ visit \in Visits /\ p \in Patches
      /\ n \in Nat
  <2>1. n \in 1..MaxOps /\ k \in Keys /\ visit \in Visits
    BY BegunIs, ShownIsKey DEF BaseInv, TypesInv, RestOK
  <2> HIDE DEF n
  <2>2. p \in Patches
    BY <2>1, OnePatch
  <2> QED
    BY <2>1, <2>2
<1>2. QueuesOK /\ enqueue(s, k, p) /\ table' = table
  BY DEF useUpdateInList, BaseInv, TypesInv
<1>3. DOMAIN p = {f} /\ p[f] = n
  OBVIOUS
<1>4. /\ hist \in Histories
      /\ k \in Temps => hist' = hist
      /\ k \notin Temps => hist' = [hist EXCEPT !.edit[k][f] = n, !.visits[k] = @ \cup {visit}]
  BY DEF useUpdateInList, BaseInv, TypesInv, RestOK
<1> HIDE DEF p, n
<1>5. EditOf(i) /\ i \notin Temps
  BY ListAssumption DEF EditInv, Temps, TempId, Ids
<1>6. /\ \A v \in Visits, j \in Keys :
              v # visit \/ j # k => active'[v][j] = active[v][j] /\ queued'[v][j] = queued[v][j]
      /\ active[visit][k] = None =>
              /\ active'[visit][k].patch = p
              /\ active'[visit][k].st = "sent"
              /\ active'[visit][k] # None
              /\ queued' = queued
      /\ active[visit][k] # None =>
              /\ active' = active
              /\ queued'[visit][k].patch =
                   IF queued[visit][k] = None THEN p ELSE Over(p, queued[visit][k].patch)
  BY <1>1, <1>2, EnqueuedIs
<1>7. i \in Keys
  BY DEF Keys
<1>8. CASE i # k
  <2>1. hist'.edit[i] = hist.edit[i] /\ hist'.visits[i] = hist.visits[i] /\ hist'.spoilt = hist.spoilt
    BY <1>4, <1>8 DEF Histories
  <2>2. \A v \in Visits : active'[v][i] = active[v][i] /\ queued'[v][i] = queued[v][i]
    BY <1>6, <1>7, <1>8
  <2> QED
    BY <1>2, <1>5, <2>1, <2>2, EditSame
<1>9. CASE i = k
  <2> DEFINE e == [hist.edit EXCEPT ![k][f] = n]
             w == [hist.visits EXCEPT ![k] = @ \cup {visit}]
  <2>1. hist' = [hist EXCEPT !.edit = e, !.visits = w]
    BY <1>4, <1>5, <1>9
  <2>2. e[i][f] = n /\ (\A g \in Fields : g # f => e[i][g] = hist.edit[i][g])
        /\ w[i] = hist.visits[i] \cup {visit}
    BY <1>4, <1>9 DEF Histories
  <2> HIDE DEF e, w
  <2>3. /\ hist'.edit[i][f] = n
        /\ \A g \in Fields : g # f => hist'.edit[i][g] = hist.edit[i][g]
        /\ hist'.visits[i] = hist.visits[i] \cup {visit}
        /\ hist'.spoilt = hist.spoilt
    BY <1>4, <2>1, <2>2 DEF Histories
  <2>4. Spoilt(i) => Spoilt(i)'
    BY <1>6, <1>7, <1>9, <2>3 DEF Spoilt
  <2>5. \A v \in Visits \ hist'.visits[i] : active'[v][i] = None
    BY <1>5, <1>6, <1>7, <1>9, <2>3 DEF EditOf
  <2>6. ASSUME ~Spoilt(i)', NEW v \in Visits, NEW g \in Fields, hist'.visits[i] \subseteq {v}
        PROVE  Arrives(v, i, g)'
    <3>1. v = visit /\ hist.visits[i] \subseteq {v}
      BY <2>3, <2>6
    <3>2. Arrives(v, i, g)
      BY <1>5, <2>4, <2>6, <3>1 DEF EditOf
    <3>3. CASE active[v][i] = None
      <4>1. queued[v][i] = None
        BY <1>7, <3>3 DEF BaseInv, QueueInv, RowQueue
      <4>2. queued'[v][i] = None /\ active'[v][i] # None /\ active'[v][i].st = "sent"
            /\ active'[v][i].patch = p
        BY <1>6, <1>9, <3>1, <3>3, <4>1
      <4> QED
        BY <1>2, <1>3, <2>3, <3>2, <3>3, <4>1, <4>2 DEF Arrives
    <3>4. CASE active[v][i] # None
      <4>1. active'[v][i] = active[v][i]
            /\ queued'[v][i].patch = IF queued[v][i] = None THEN p ELSE Over(p, queued[v][i].patch)
        BY <1>6, <1>9, <3>1, <3>4
      <4>2. queued'[v][i] # None
        <5>1. active[visit][k] # None
          BY <1>9, <3>1, <3>4
        <5>2. queued'[visit][k] # None
          BY <1>1, <1>2, <5>1, WaitsIs
        <5> QED
          BY <1>9, <3>1, <5>2
      <4> DEFINE q == queued[v][i].patch
      <4>5. /\ DOMAIN Over(p, q) = DOMAIN p \cup DOMAIN q
            /\ \A x \in DOMAIN p : Over(p, q)[x] = p[x]
            /\ \A x \in DOMAIN q : x \notin DOMAIN p => Over(p, q)[x] = q[x]
        BY OverIs
      <4> HIDE DEF q
      <4>6. queued'[v][i].patch = IF queued[v][i] = None THEN p ELSE Over(p, q)
        BY <4>1 DEF q
      <4>3. CASE g = f
        <5>1. f \in DOMAIN queued'[v][i].patch /\ queued'[v][i].patch[f] = n
          BY <1>3, <4>5, <4>6
        <5> QED
          BY <2>3, <4>2, <4>3, <5>1 DEF Arrives
      <4>4. CASE g # f
        <5>1. CASE queued[v][i] = None
          <6>1. g \notin DOMAIN queued'[v][i].patch
            BY <1>3, <4>1, <4>4, <5>1
          <6> QED
            BY <1>2, <2>3, <3>2, <4>1, <4>4, <5>1, <6>1 DEF Arrives
        <5>2. CASE queued[v][i] # None
          <6>1. /\ g \in DOMAIN queued'[v][i].patch <=> g \in DOMAIN q
                /\ g \in DOMAIN q => queued'[v][i].patch[g] = q[g]
            BY <1>3, <4>4, <4>5, <4>6, <5>2
          <6> QED
            BY <1>2, <2>3, <3>2, <4>1, <4>2, <4>4, <5>2, <6>1 DEF Arrives, q
        <5> QED
          BY <5>1, <5>2
      <4> QED
        BY <4>3, <4>4
    <3> QED
      BY <3>3, <3>4
  <2> QED
    BY <2>5, <2>6 DEF EditOf
<1> QED
  BY <1>8, <1>9

LEMMA EditReturns ==
  ASSUME BaseInv, EditInv, NEW u \in Visits, NEW k \in Keys, UpdateReturns(u, k)
  PROVE  EditInv'
<1> SUFFICES ASSUME NEW i \in Ids
             PROVE  EditOf(i)'
  BY DEF EditInv
<1> DEFINE a == active[u][k]
           ok == a.st = "ok"
<1>1. /\ QueuesOK /\ flushQueued(u, k) /\ a # None /\ a.st # "sent" /\ table' = table
      /\ a \in Sent \cup Answered /\ hist \in Histories
  BY DEF UpdateReturns, BaseInv, TypesInv, QueuesOK, RestOK
<1>2. /\ hist'.edit = hist.edit /\ hist'.visits = hist.visits
      /\ hist'.spoilt = hist.spoilt \cup (IF ~ok /\ k \in Ids THEN {k} ELSE {})
  <2>1. hist' = Told(ok, k) \/ hist' = Fresh(Told(ok, k))
    BY DEF UpdateReturns
  <2> QED
    BY <1>1, <2>1 DEF Told, Fresh, Histories
<1>3. EditOf(i) /\ i \in Keys
  BY DEF EditInv, Keys
<1>4. /\ \A v \in Visits, j \in Keys :
           v # u \/ j # k => active'[v][j] = active[v][j] /\ queued'[v][j] = queued[v][j]
      /\ queued'[u][k] = None
      /\ queued[u][k] = None => active'[u][k] = None
      /\ queued[u][k] # None => /\ active'[u][k] # None /\ active'[u][k].st = "sent"
                                /\ active'[u][k].patch = queued[u][k].patch
  BY <1>1, FlushIs
<1>5. CASE i # k
  <2>1. \A v \in Visits : active'[v][i] = active[v][i] /\ queued'[v][i] = queued[v][i]
    BY <1>3, <1>4, <1>5
  <2> QED
    BY <1>1, <1>2, <1>3, <1>5, <2>1, EditSame
<1>6. CASE i = k /\ ~ok
  <2>1. Spoilt(i)'
    BY <1>2, <1>6 DEF Spoilt
  <2>2. \A v \in Visits \ hist'.visits[i] : active'[v][i] = None
    BY <1>1, <1>2, <1>3, <1>4, <1>6 DEF EditOf
  <2> QED
    BY <2>1, <2>2 DEF EditOf
<1>7. CASE i = k /\ ok
  <2>1. \A v \in Visits \ hist'.visits[i] : active'[v][i] = None
    BY <1>1, <1>2, <1>3, <1>4, <1>7 DEF EditOf
  <2>2. Spoilt(i) => Spoilt(i)'
    BY <1>1, <1>2, <1>3, <1>4, <1>7 DEF Spoilt
  <2>3. ASSUME ~Spoilt(i)', NEW v \in Visits, NEW g \in Fields, hist'.visits[i] \subseteq {v}
        PROVE  Arrives(v, i, g)'
    <3>1. Arrives(v, i, g) /\ v = u
      BY <1>1, <1>2, <1>3, <1>7, <2>2, <2>3 DEF EditOf
    <3> QED
      BY <1>1, <1>2, <1>4, <1>7, <3>1 DEF Arrives
  <2> QED
    BY <2>1, <2>3 DEF EditOf
<1> QED
  BY <1>5, <1>6, <1>7

LEMMA EditServed ==
  ASSUME BaseInv, EditInv, NEW u \in Visits, NEW k \in Keys, update_activity(u, k),
         queued' = queued, hist' = hist
  PROVE  EditInv'
<1> SUFFICES ASSUME NEW i \in Ids
             PROVE  EditOf(i)'
  BY DEF EditInv
<1> DEFINE a == active[u][k]
<1>1. TableOK /\ QueuesOK
  BY DEF BaseInv, TypesInv
<1>2. /\ \A v \in Visits, j \in Keys : v # u \/ j # k => active'[v][j] = active[v][j]
      /\ a # None /\ active'[u][k] # None /\ a \in Sent
      /\ active'[u][k].patch = a.patch
      /\ RowAnswered(u, k)
  BY <1>1, UpdatedIs
<1>3. a.st = "sent"
  BY DEF update_activity
<1>4. EditOf(i) /\ i \in Keys
  BY DEF EditInv, Keys
<1>5. CASE i # k
  <2>1. \A v \in Visits : active'[v][i] = active[v][i]
    BY <1>2, <1>4, <1>5
  <2>2. table'[i] = table[i]
    BY <1>1, <1>2, <1>5 DEF RowAnswered, TableOK
  <2> QED
    BY <1>4, <2>1, <2>2, EditSame
<1>6. CASE i = k
  <2>1. \A v \in Visits \ hist'.visits[i] : active'[v][i] = None
    BY <1>2, <1>4, <1>6 DEF EditOf
  <2>2. CASE active'[u][k].st = "refused"
    <3>1. Spoilt(i)'
      BY <1>2, <1>6, <2>2 DEF Spoilt
    <3> QED
      BY <2>1, <3>1 DEF EditOf
  <2>3. CASE active'[u][k].st = "ok" /\ table' = [table EXCEPT ![k] = Edited(@, a.patch)]
    <3>1. Spoilt(i) => Spoilt(i)'
      BY <1>2, <1>3, <1>4, <1>6, <2>3 DEF Spoilt
    <3>2. \A g \in Fields : table'[i].val[g] = IF g \in DOMAIN a.patch THEN a.patch[g]
                                               ELSE table[i].val[g]
      <4>1. table'[i] = Edited(table[i], a.patch) /\ table[i] \in Rowed
        BY <1>1, <1>6, <2>3 DEF TableOK
      <4>2. Edited(table[i], a.patch).val =
              [g \in Fields |-> IF g \in DOMAIN a.patch THEN a.patch[g] ELSE table[i].val[g]]
        BY <4>1 DEF Edited, Rowed
      <4> QED
        BY <4>1, <4>2
    <3>3. ASSUME ~Spoilt(i)', NEW v \in Visits, NEW g \in Fields, hist'.visits[i] \subseteq {v}
          PROVE  Arrives(v, i, g)'
      <4>1. Arrives(v, i, g) /\ v = u
        BY <1>2, <1>4, <1>6, <3>1, <3>3 DEF EditOf
      <4> QED
        BY <1>2, <1>3, <1>6, <2>3, <3>2, <4>1 DEF Arrives
    <3> QED
      BY <2>1, <3>3 DEF EditOf
  <2> QED
    BY <1>2, <2>2, <2>3 DEF RowAnswered
<1> QED
  BY <1>5, <1>6

LEMMA EditStep ==
  ASSUME BaseInv, EditInv, [Next]_vars
  PROVE  EditInv'
\* A step that leaves the edits, and the contents of the rows but for those the
\* agent edits.
<1>1. ASSUME active' = active, queued' = queued,
             hist'.edit = hist.edit, hist'.visits = hist.visits,
             hist.spoilt \subseteq hist'.spoilt,
             \A i \in Ids : i \in hist'.spoilt \/ table'[i].val = table[i].val
      PROVE  EditInv'
  BY <1>1, EditSame DEF EditInv
<1>2. hist \in Histories /\ TypesInv /\ TableOK /\ QueuesOK
  BY DEF BaseInv, TypesInv, RestOK
<1>3. CASE Student
  <2>1. ASSUME NEW s \in Slots, useCreateInList(s) \/ useReorderList(s)
        PROVE  EditInv'
    BY <1>1, <2>1 DEF useCreateInList, useReorderList
  <2>2. ASSUME NEW s \in Slots, undoDelete(s)
        PROVE  EditInv'
    <3>1. hist'.edit = hist.edit /\ hist'.visits = hist.visits /\ hist'.spoilt = hist.spoilt
      BY <1>2, <2>2 DEF undoDelete, Histories
    <3> QED
      BY <1>1, <2>2, <3>1 DEF undoDelete
  <2>3. ASSUME NEW s \in Slots, NEW k \in shown, archive(s, k)
        PROVE  EditInv'
    <3> DEFINE twice == {calls[r].id : r \in Deleting(k)}
    <3>1. hist' = hist \/ hist' = [hist EXCEPT !.keep[k] = FALSE, !.spoilt = @ \cup twice]
      BY <2>3 DEF archive
    <3> HIDE DEF twice
    <3>2. hist'.edit = hist.edit /\ hist'.visits = hist.visits
          /\ hist.spoilt \subseteq hist'.spoilt
      BY <1>2, <3>1 DEF Histories
    <3> QED
      BY <1>1, <2>3, <3>2 DEF archive
  <2>4. ASSUME clearPending \/ Remount \/ Focus
        PROVE  EditInv'
    <3>1. table' = table /\ active' = active /\ queued' = queued
      BY <2>4 DEF clearPending, Remount, Focus
    <3>2. hist'.edit = hist.edit /\ hist'.visits = hist.visits /\ hist'.spoilt = hist.spoilt
      BY <1>2, <2>4 DEF clearPending, Remount, Focus, Histories
    <3> QED
      BY <1>1, <3>1, <3>2
  <2> QED
    BY <1>3, <2>1, <2>2, <2>3, <2>4, EditUpdate DEF Student
<1>4. CASE Page
  <2>1. ASSUME NEW s \in Slots, MutationReturns(s)
        PROVE  EditInv'
    <3>1. table' = table /\ active' = active /\ queued' = queued
      BY <2>1 DEF MutationReturns
    <3>2. hist'.edit = hist.edit /\ hist'.visits = hist.visits
          /\ hist.spoilt \subseteq hist'.spoilt
      BY <1>2, <2>1 DEF MutationReturns, Fresh, Told, Histories
    <3> QED
      BY <1>1, <3>1, <3>2
  <2>2. ASSUME ReadReturns \/ invalidateFromChange
        PROVE  EditInv'
    <3>1. table' = table /\ active' = active /\ queued' = queued
      BY <2>2 DEF ReadReturns, invalidateFromChange
    <3>2. hist'.edit = hist.edit /\ hist'.visits = hist.visits /\ hist'.spoilt = hist.spoilt
      BY <1>2, <2>2 DEF ReadReturns, invalidateFromChange, Histories
    <3> QED
      BY <1>1, <3>1, <3>2
  <2> QED
    BY <1>4, <2>1, <2>2, EditReturns DEF Page, Keys
<1>5. CASE Server
  <2>1. CASE list_activities
    BY <1>1, <2>1 DEF list_activities
  <2>2. ASSUME NEW s \in Slots, ServedBy(s), Serve, active' = active
        PROVE  EditInv'
    BY <1>1, <2>2 DEF ServedBy, Serve
  <2>3. ASSUME NEW v \in Visits, NEW k \in Keys, update_activity(v, k), Serve
        PROVE  EditInv'
    BY <2>3, EditServed DEF Serve
  <2> QED
    BY <1>2, <1>5, <2>1, <2>2, <2>3, ServedIs DEF Server, Serve, Keys
<1>6. CASE Lose
  <2>1. table' = table /\ hist' = hist /\ queued' = queued
    BY <1>6 DEF Lose
  <2>2. CASE active' = active
    BY <1>1, <2>1, <2>2
  <2>3. ASSUME NEW v \in Visits, NEW k \in Keys, LosesEdit(v, k)
        PROVE  EditInv'
    <3>1. /\ \A u \in Visits, j \in Keys : u # v \/ j # k => active'[u][j] = active[u][j]
          /\ active'[v][k] # None /\ active'[v][k].st = "lost"
      BY <1>2, <2>3, LostEditIs
    <3> SUFFICES ASSUME NEW i \in Ids
                 PROVE  EditOf(i)'
      BY DEF EditInv
    <3>2. EditOf(i) /\ i \in Keys
      BY DEF EditInv, Keys
    <3>3. CASE i # k
      BY <2>1, <3>1, <3>2, <3>3, EditSame
    <3>4. CASE i = k
      <4>1. Spoilt(i)'
        BY <3>1, <3>4 DEF Spoilt
      <4>2. \A u \in Visits \ hist'.visits[i] : active'[u][i] = None
        BY <2>1, <2>3, <3>1, <3>2, <3>4 DEF EditOf, LosesEdit
      <4> QED
        BY <4>1, <4>2 DEF EditOf
    <3> QED
      BY <3>3, <3>4
  <2> QED
    BY <1>6, <2>2, <2>3 DEF Lose, Keys, LosesEdit
<1>7. CASE \E i \in Ids, f \in Fields : AgentEdits(i, f)
  <2>1. PICK j \in Ids, f \in Fields : AgentEdits(j, f)
    BY <1>7
  <2>2. hist'.edit = hist.edit /\ hist'.visits = hist.visits /\ hist'.spoilt = hist.spoilt \cup {j}
    BY <1>2, <2>1 DEF AgentEdits, Histories
  <2>3. \A i \in Ids : i # j => table'[i] = table[i]
    BY <1>2, <2>1 DEF AgentEdits, Written, TableOK
  <2> QED
    BY <1>1, <2>1, <2>2, <2>3 DEF AgentEdits
<1>8. CASE UNCHANGED vars
  BY <1>1, <1>8 DEF vars
<1> QED
  BY <1>3, <1>4, <1>5, <1>6, <1>7, <1>8 DEF Next

LEMMA EditInit ==
  ASSUME Init
  PROVE  EditInv
<1> SUFFICES ASSUME NEW i \in Ids
             PROVE  EditOf(i)
  BY DEF EditInv
<1>1. \A v \in Visits : active[v][i] = None /\ queued[v][i] = None
  BY DEF Init, Keys
<1>2. \A f \in Fields : table[i].val[f] = 0 /\ hist.edit[i][f] = 0
  BY DEF Init
<1> QED
  BY <1>1, <1>2 DEF EditOf, Arrives

\* The student's last edit of each field is what is stored: of edits that wait,
\* enqueue keeps the newest value of a field, and the row's requests go one after
\* the other.  Rows whose student was told that an edit failed, that the agent
\* edited, or that were edited in two visits of the page are left out.
THEOREM LastEditsWin == Spec => []LastEditWins
<1>1. Init => EditInv
  BY EditInit
<1>2. BaseInv /\ EditInv /\ [Next]_vars => EditInv'
  BY EditStep
<1>3. BaseInv /\ EditInv => LastEditWins
  <2> SUFFICES ASSUME BaseInv, EditInv, Quiet, NEW i \in Ids, i \notin hist.spoilt,
                      Cardinality(hist.visits[i]) < 2
               PROVE  table[i].val = hist.edit[i]
    BY DEF LastEditWins
  <2>1. \A v \in Visits : active[v][i] = None /\ queued[v][i] = None
    <3> SUFFICES ASSUME NEW v \in Visits
                 PROVE  active[v][i] = None /\ queued[v][i] = None
      OBVIOUS
    <3>1. RowQueue(v, i) /\ Edits(v, i) = {}
      BY DEF BaseInv, QueueInv, Keys, Quiet, Edits
    <3> QED
      BY <3>1 DEF RowQueue, Held, Carried
  <2>2. ~Spoilt(i)
    BY <2>1 DEF Spoilt
  <2>3. table[i].val \in [Fields -> Int] /\ hist.edit[i] \in [Fields -> Nat]
        /\ hist.visits[i] \in SUBSET Visits
    BY DEF BaseInv, TypesInv, TableOK, Rowed, RestOK, Histories
  <2>4. \E v \in Visits : hist.visits[i] \subseteq {v}
    <3>1. IsFiniteSet(Visits)
      BY FS_Interval, ListAssumption DEF Visits
    <3>2. IsFiniteSet(hist.visits[i])
      BY <2>3, <3>1, FS_Subset
    <3>3. 1 \in Visits
      BY ListAssumption DEF Visits
    <3>4. CASE hist.visits[i] = {}
      BY <3>3, <3>4
    <3>5. CASE hist.visits[i] # {}
      <4>1. PICK v \in hist.visits[i] : TRUE
        BY <3>5
      <4>2. Cardinality(hist.visits[i] \ {v}) = Cardinality(hist.visits[i]) - 1
            /\ IsFiniteSet(hist.visits[i] \ {v})
        BY <3>2, <4>1, FS_RemoveElement
      <4>3. hist.visits[i] \ {v} = {}
        <5>1. Cardinality(hist.visits[i] \ {v}) \in Nat /\ Cardinality(hist.visits[i]) \in Nat
          BY <3>2, <4>2, FS_CardinalityType
        <5>2. Cardinality(hist.visits[i] \ {v}) = 0
          BY <4>2, <5>1
        <5> QED
          BY <4>2, <5>2, FS_EmptySet
      <4> QED
        BY <2>3, <4>1, <4>3
    <3> QED
      BY <3>4, <3>5
  <2>5. \A f \in Fields : table[i].val[f] = hist.edit[i][f]
    BY <2>1, <2>2, <2>4 DEF EditInv, EditOf, Arrives
  <2> QED
    BY <2>3, <2>5
<1> QED
  BY <1>1, <1>2, <1>3, BaseHolds, PTL DEF Spec

(***************************************************************************)
(* The page at rest shows the server's rows.                               *)
(***************************************************************************)
\* A list is never taken for the lack of one: the code's list is an array, and
\* its lack undefined.
NoneIsNoList == None \notin SUBSET RowRecords

Idle == \A s \in Slots : calls[s] = Free

\* Before the list was read nothing is under way.
BusyInv == cache = None => Idle /\ undo = None

\* Unless an event is on its way, or the student saw a read fail: what a read
\* found is what the server has, and so is the list when nothing is under way.
SeenInv ==
  /\ ~event /\ ~hist.stale /\ read # None /\ read.st = "ok" => read.list = ListOf(table)
  /\ ~event /\ ~hist.stale /\ read = None /\ Idle /\ cache # None => cache = ListOf(table)
  /\ cache = None /\ read = None => hist.stale

LEMMA SeenSame ==
  ASSUME SeenInv, read' = read, cache' = cache, hist'.stale = hist.stale, Idle' => Idle,
         (table' = table /\ event' = event) \/ event' = TRUE
  PROVE  SeenInv'
BY DEF SeenInv, ListOf

LEMMA SeenSent ==
  ASSUME read' = [st |-> "sent"]
  PROVE  SeenInv'
<1>1. [st |-> "sent"] # None /\ [st |-> "sent"].st # "ok"
  BY NoneAssumption DEF Reads
<1> QED
  BY <1>1 DEF SeenInv

\* While an edit's request is under way there is an edit.
LEMMA BusyIs ==
  ASSUME BaseInv, BusyInv, NEW v \in Visits, NEW k \in Keys, active[v][k] # None
  PROVE  ~Idle /\ cache # None
<1>1. RowQueue(v, k)
  BY DEF BaseInv, QueueInv
<1>2. Edits(v, k) # {}
  BY <1>1 DEF RowQueue
<1> QED
  BY <1>2, FreeIs DEF BusyInv, Idle, Edits

LEMMA BusyStep ==
  ASSUME NoneIsNoList, BaseInv, BusyInv, [Next]_vars
  PROVE  BusyInv' /\ (cache # None => cache' # None)
<1>1. cache # None => cache' # None
  <2>1. cache # None => IsList(cache')
    BY TypeStep DEF BaseInv
  <2> QED
    BY <2>1 DEF IsList, NoneIsNoList
<1> SUFFICES ASSUME cache' = None
             PROVE  Idle' /\ undo' = None
  BY <1>1 DEF BusyInv
<1>2. cache = None /\ Idle /\ undo = None /\ TypesInv
  BY <1>1 DEF BusyInv, BaseInv
<1>3. ASSUME calls' = calls, undo' \in {undo, None}
      PROVE  Idle' /\ undo' = None
  BY <1>2, <1>3 DEF Idle
<1>4. CASE Student
  <2>1. ASSUME clearPending \/ Remount \/ Focus
        PROVE  Idle' /\ undo' = None
    BY <1>3, <2>1 DEF clearPending, Remount, Focus
  <2>2. \A s \in Slots : ~useCreateInList(s) /\ ~undoDelete(s) /\ ~useReorderList(s)
    BY <1>2, BegunIs DEF undoDelete
  <2>3. shown = {}
    BY <1>2 DEF shown
  <2> QED
    BY <1>4, <2>1, <2>2, <2>3 DEF Student
<1>5. CASE Page
  <2>1. \A s \in Slots : ~MutationReturns(s)
    BY <1>2, ReturnedIs DEF Idle
  <2>2. \A v \in Visits, k \in Keys : ~UpdateReturns(v, k)
    BY <1>2, BusyIs DEF UpdateReturns
  <2>3. ReadReturns \/ invalidateFromChange
    BY <1>5, <2>1, <2>2 DEF Page, Keys
  <2> QED
    BY <1>3, <2>3 DEF ReadReturns, invalidateFromChange
<1>6. CASE Server
  <2>1. CASE list_activities
    BY <1>3, <2>1 DEF list_activities
  <2>2. CASE Serve
    <3>1. undo' = undo
      BY <2>2 DEF Serve
    <3>2. \A s \in Slots : ~ServedBy(s)
      BY <1>2 DEF Idle, ServedBy
    <3>3. \A v \in Visits, k \in Keys : ~update_activity(v, k)
      BY <1>2, BusyIs DEF update_activity
    <3> QED
      BY <1>2, <2>2, <3>2, <3>3, ServedIs DEF Serve, Keys
  <2> QED
    BY <1>6, <2>1, <2>2 DEF Server
<1>7. CASE Lose
  <2>1. undo' = undo /\ \A s \in Slots : calls[s].op = "none"
    BY <1>2, <1>7, FreeIs DEF Lose, Idle
  <2> QED
    BY <1>3, <1>7, <2>1 DEF Lose
<1>8. CASE \E i \in Ids, f \in Fields : AgentEdits(i, f)
  BY <1>3, <1>8 DEF AgentEdits
<1>9. CASE UNCHANGED vars
  BY <1>3, <1>9 DEF vars
<1> QED
  BY <1>4, <1>5, <1>6, <1>7, <1>8, <1>9 DEF Next

\* Unless the list's first read is under way, an answer leads to a new read.
LEMMA AnewIs ==
  ASSUME invalidateQueries, cache # None
  PROVE  read' = [st |-> "sent"]
BY DEF invalidateQueries

LEMMA SeenStep ==
  ASSUME NoneIsNoList, BaseInv, BusyInv, SeenInv, [Next]_vars
  PROVE  SeenInv'
<1>1. TypesInv /\ hist \in Histories /\ ReadOK /\ (cache # None => cache' # None)
  BY BusyStep DEF BaseInv, TypesInv, RestOK
<1>2. CASE Student
  <2>1. ASSUME NEW s \in Slots, Begun(s), read' = None, cache # None
        PROVE  SeenInv'
    BY <1>1, <2>1 DEF Begun, SeenInv, Idle
  <2>2. ASSUME NEW s \in Slots, useCreateInList(s) \/ useReorderList(s)
        PROVE  SeenInv'
    <3>1. read' = None
      BY <2>2 DEF useCreateInList, useReorderList, Start
    <3>2. Begun(s) /\ cache # None
      BY <1>1, <2>2, BegunIs
    <3> QED
      BY <2>1, <3>1, <3>2
  <2>3. ASSUME NEW s \in Slots, NEW k \in shown, archive(s, k)
        PROVE  SeenInv'
    <3>1. read' = None
      BY <2>3 DEF archive, Start
    <3>2. Begun(s) /\ cache # None
      BY <1>1, <2>3, BegunIs
    <3> QED
      BY <2>1, <3>1, <3>2
  <2>4. ASSUME NEW s \in Slots, NEW k \in shown, NEW f \in Fields, useUpdateInList(s, k, f)
        PROVE  SeenInv'
    <3>1. read' = None
      BY <2>4 DEF useUpdateInList, Start
    <3>2. Begun(s) /\ cache # None
      BY <1>1, <2>4, BegunIs
    <3> QED
      BY <2>1, <3>1, <3>2
  <2>5. ASSUME NEW s \in Slots, undoDelete(s)
        PROVE  SeenInv'
    <3>1. calls'[s] # Free
      <4>1. [op |-> "restore", st |-> "sent", id |-> undo.id].op = "restore"
        OBVIOUS
      <4>2. calls'[s].op \in {"archive", "restore"}
        BY <2>5, <4>1, UndoneIs DEF BaseInv
      <4> QED
        BY <4>2, FreeIs
    <3>2. hist'.stale = hist.stale
      BY <1>1, <2>5 DEF undoDelete, Histories
    <3>3. UNCHANGED <<read, cache, table, event>>
      BY <2>5 DEF undoDelete
    <3> QED
      BY <3>1, <3>2, <3>3, SeenSame DEF Idle
  <2>6. CASE clearPending
    BY <2>6, SeenSame DEF clearPending, Idle
  <2>7. CASE Remount
    <3>1. CASE read = None
      BY <2>7, <3>1, SeenSent DEF Remount
    <3>2. CASE read # None
      <4>1. hist'.stale = hist.stale
        BY <1>1, <2>7, <3>2 DEF Remount, Histories
      <4>2. UNCHANGED <<read, cache, table, event, calls>>
        BY <2>7, <3>2 DEF Remount
      <4> QED
        BY <4>1, <4>2, SeenSame DEF Idle
    <3> QED
      BY <3>1, <3>2
  <2>8. CASE Focus
    BY <2>8, SeenSent DEF Focus
  <2> QED
    BY <1>2, <2>2, <2>3, <2>4, <2>5, <2>6, <2>7, <2>8 DEF Student
<1>3. CASE Page
  <2>1. ASSUME NEW s \in Slots, MutationReturns(s)
        PROVE  SeenInv'
    <3>1. cache # None
      BY <1>1, <2>1, ReturnedIs DEF BusyInv, Idle
    <3> QED
      BY <2>1, <3>1, AnewIs, SeenSent DEF MutationReturns
  <2>2. ASSUME NEW v \in Visits, NEW k \in Keys, UpdateReturns(v, k)
        PROVE  SeenInv'
    <3> DEFINE a == active[v][k]
               last == {s \in a.by : calls[s].mutationId = latest[v][k]}
    <3>1. a # None /\ a.by = Carried(v, k) /\ RowQueue(v, k)
      BY <2>2 DEF UpdateReturns, Carried, BaseInv, QueueInv
    <3>2. CASE last # {}
      <4>1. cache # None
        BY <2>2, <3>1, BusyIs
      <4>2. invalidateQueries
        BY <2>2, <3>2 DEF UpdateReturns
      <4> QED
        BY <4>1, <4>2, AnewIs, SeenSent
    <3>3. CASE last = {}
      <4>1. UNCHANGED <<cache, read, table, event>> /\ hist' = Told(a.st = "ok", k)
        BY <2>2, <3>3 DEF UpdateReturns
      <4>2. hist'.stale = hist.stale
        BY <1>1, <4>1 DEF Told, Histories
      <4>3. PICK s \in Held(v, k) : TRUE
        BY <3>1, <3>3 DEF RowQueue, IsLatest
      <4>4. s \in Slots /\ calls[s].op = "update" /\ s \notin a.by
        BY <3>1, <4>3 DEF RowQueue, Edits
      <4>5. calls'[s] = calls[s]
        BY <2>2, <4>4 DEF UpdateReturns
      <4>6. ~Idle'
        BY <4>4, <4>5, FreeIs DEF Idle
      <4> QED
        BY <4>1, <4>2, <4>6, SeenSame
    <3> QED
      BY <3>2, <3>3
  <2>3. CASE ReadReturns
    <3>1. read # None /\ read' = None
      BY <2>3 DEF ReadReturns
    <3>2. CASE read.st = "ok"
      <4>1. cache' = read.list /\ hist' = hist /\ table' = table /\ event' = event
        BY <2>3, <3>2 DEF ReadReturns
      <4>2. cache' # None
        BY <1>1, <3>1, <3>2, <4>1 DEF ReadOK, IsList, NoneIsNoList
      <4> QED
        BY <3>1, <3>2, <4>1, <4>2 DEF SeenInv, ListOf
    <3>3. CASE read.st # "ok"
      <4>1. hist'.stale = TRUE
        BY <1>1, <2>3, <3>3 DEF ReadReturns, Histories
      <4> QED
        BY <3>1, <4>1 DEF SeenInv
    <3> QED
      BY <3>2, <3>3
  <2>4. CASE invalidateFromChange
    <3>1. CASE cache = None /\ read # None
      <4>1. hist'.stale = TRUE
        BY <1>1, <2>4, <3>1 DEF invalidateFromChange, Histories
      <4> QED
        BY <4>1 DEF SeenInv
    <3>2. CASE ~(cache = None /\ read # None)
      <4>1. read' = [st |-> "sent"]
        BY <2>4, <3>2 DEF invalidateFromChange, invalidateQueries
      <4> QED
        BY <4>1, SeenSent
    <3> QED
      BY <3>1, <3>2
  <2> QED
    BY <1>3, <2>1, <2>2, <2>3, <2>4 DEF Page, Keys
<1>4. CASE Server
  <2>1. CASE list_activities
    <3> DEFINE m == [st |-> "ok", list |-> ListOf(table)]
    <3>1. read' = m /\ table' = table
      BY <2>1 DEF list_activities
    <3>2. m \in Reads
      BY <1>1, ListIs DEF Reads, TypesInv, TableOK, IsList
    <3>3. m # None /\ m.list = ListOf(table)
      BY <3>2, NoneAssumption
    <3> HIDE DEF m
    <3> QED
      BY <3>1, <3>3 DEF SeenInv, ListOf
  <2>2. ASSUME NEW s \in Slots, ServedBy(s), Serve
        PROVE  SeenInv'
    <3>1. ~Idle' /\ ((table' = table /\ event' = event) \/ event' = TRUE)
      BY <2>2 DEF ServedBy, Idle
    <3>2. UNCHANGED <<read, cache, hist>>
      BY <2>2 DEF Serve
    <3> QED
      BY <3>1, <3>2, SeenSame
  <2>3. ASSUME NEW v \in Visits, NEW k \in Keys, update_activity(v, k), Serve
        PROVE  SeenInv'
    <3>1. (table' = table /\ event' = event) \/ event' = TRUE
      <4>1. TableOK /\ QueuesOK
        BY DEF BaseInv, TypesInv
      <4>2. RowAnswered(v, k)
        BY <2>3, <4>1, UpdatedIs
      <4> QED
        BY <4>2 DEF RowAnswered
    <3>2. UNCHANGED <<read, cache, hist, calls>>
      BY <2>3 DEF Serve, update_activity
    <3> QED
      BY <3>1, <3>2, SeenSame DEF Idle
  <2> QED
    BY <1>1, <1>4, <2>1, <2>2, <2>3, ServedIs DEF Server, Serve, Keys
<1>5. CASE Lose
  <2>1. UNCHANGED <<cache, hist, table, event>>
    BY <1>5 DEF Lose
  <2>2. CASE read' = [st |-> "lost"]
    <3>1. [st |-> "lost"] # None /\ [st |-> "lost"].st # "ok"
      BY NoneAssumption DEF Reads
    <3> QED
      BY <2>2, <3>1 DEF SeenInv
  <2>3. ASSUME NEW s \in Slots, calls[s].op \notin {"none", "update"},
               calls' = [calls EXCEPT ![s].st = "lost"], read' = read
        PROVE  SeenInv'
    <3>1. calls'[s] # Free
      BY <1>1, <2>3, LostIs DEF TypesInv
    <3> QED
      BY <2>1, <2>3, <3>1, SeenSame DEF Idle
  <2>4. CASE read' = read /\ calls' = calls
    BY <2>1, <2>4, SeenSame DEF Idle
  <2> QED
    BY <1>5, <2>2, <2>3, <2>4 DEF Lose
<1>6. CASE \E i \in Ids, f \in Fields : AgentEdits(i, f)
  <2>1. PICK i \in Ids, f \in Fields : AgentEdits(i, f)
    BY <1>6
  <2>2. UNCHANGED <<cache, read, calls>> /\ event' = TRUE
    BY <2>1 DEF AgentEdits, Written
  <2>3. hist'.stale = hist.stale
    BY <1>1, <2>1 DEF AgentEdits, Histories
  <2> QED
    BY <2>2, <2>3, SeenSame DEF Idle
<1>7. CASE UNCHANGED vars
  BY <1>7, SeenSame DEF vars, Idle
<1> QED
  BY <1>2, <1>3, <1>4, <1>5, <1>6, <1>7 DEF Next

\* However much was edited, created, deleted, restored and reordered at once,
\* and in part refused, the page at rest shows the server's rows: every answer
\* and every change event leads to a new read, and a read that a mutation
\* overtook is cancelled.  Only a read that failed leaves the page behind,
\* until the next one.
THEOREM PageConverges ==
  ASSUME NoneIsNoList
  PROVE  Spec => []Converges
<1>1. Init => BusyInv /\ SeenInv
  <2>1. Init => read = [st |-> "sent"] /\ cache = None /\ Idle /\ undo = None
    BY DEF Init, Idle
  <2>2. [st |-> "sent"] # None /\ [st |-> "sent"].st # "ok"
    BY NoneAssumption DEF Reads
  <2> QED
    BY <2>1, <2>2 DEF BusyInv, SeenInv
<1>2. BaseInv /\ BusyInv /\ SeenInv /\ [Next]_vars => BusyInv' /\ SeenInv'
  BY BusyStep, SeenStep
<1>3. BaseInv /\ SeenInv => Converges
  <2> SUFFICES ASSUME BaseInv, SeenInv, Quiet, ~hist.stale, cache # None
               PROVE  cache = ListOf(table)
    BY DEF Converges
  <2>1. Idle
    BY DEF Quiet, Idle, BaseInv, TypesInv, CallsOK, CallOK
  <2> QED
    BY <2>1 DEF SeenInv, Quiet
<1> QED
  BY <1>1, <1>2, <1>3, BaseHolds, PTL DEF Spec
=============================================================================
