----------------------------- MODULE ActivityList -----------------------------
(***************************************************************************)
(* The activities and honors page of the web client: one cached list, the  *)
(* optimistic hooks that create, edit, archive, restore and reorder its    *)
(* rows, the per-row queue of edits, the undo of a deletion, and the       *)
(* server's table behind them.  The page sorts the rows it is given by     *)
(* sort_order, so the cached list is a set; a row's contents are, for each *)
(* field, the number of the edit that wrote it.                            *)
(***************************************************************************)
EXTENDS Integers, FiniteSets, Functions

CONSTANTS
  Rows,         \* the rows there are at the start
  News,         \* the ids of rows created later
  Fields,       \* the fields of a row
  Cap,          \* ACTIVITY_CAP or HONOR_CAP
  RestoreLast,  \* activities come back at the end, honors in their place
  Slots,        \* mutations that may be under way at once
  MaxMixed,     \* the same, when they are not all of one kind
  MaxOps,       \* mutations the student starts
  MaxVisits,    \* times the page is opened
  MaxUpsets,    \* requests lost, rows edited by the agent and page changes
  Ops,          \* what the student does, see ListAssumption
  None

ASSUME ListAssumption ==
  /\ Rows \cup News \subseteq Nat /\ Rows \cap News = {}
  /\ Slots \subseteq Nat \ {0}
  /\ RestoreLast \in BOOLEAN
  /\ {MaxOps, MaxUpsets, MaxMixed, Cap} \subseteq Nat
  /\ MaxVisits \in Nat \ {0}
  /\ Ops \subseteq {"create", "update", "archive", "undo", "reorder"}

VARIABLES
  table,   \* the server's rows: where each is, its sort_order and contents
  event,   \* a change event is on its way to the tab
  cache,   \* the cached list, None before it is read
  read,    \* the list's read: None, sent, what it found, or lost
  calls,   \* the mutations under way, by slot
  active,  \* by visit and row, the edit request under way
  queued,  \* by visit and row, the edits waiting behind it
  latest,  \* by visit and row, the mutation that edited the row last
  visit,   \* how often the page has been opened
  undo,    \* the deletion the undo toast offers to take back
  count,   \* bounds: mutations begun, edits of the agent, faults
  hist     \* history: for each row the student's last edit of every field and
           \* last wish to keep it, and what was refused, lost or not his

vars == <<table, event, cache, read, calls, active, queued, latest, visit,
          undo, count, hist>>

Ids == Rows \cup News
TempId(s) == 0 - s
Temps == {TempId(s) : s \in Slots}
Patches == UNION {[F -> 1..MaxOps] : F \in (SUBSET Fields) \ {{}}}
Visits == 1..MaxVisits

\* A row as the page has it, the states of a request, and the kinds of value
\* that may also be None.
RowRecords == [id : Ids \cup Temps, sort : Nat, val : [Fields -> Int]]
States == {"sent", "ok", "refused", "lost"}
Reads == [st : {"sent", "lost"}] \cup [st : {"ok"}, list : SUBSET RowRecords]
Waiting == [patch : Patches, by : SUBSET Slots]
Sent == [patch : Patches, by : SUBSET Slots, st : States]
Answered == [patch : Patches, by : SUBSET Slots, st : States, body : RowRecords]
Undoable == [id : Ids \cup Temps, slot : Slots \cup {None}]

ASSUME NoneAssumption ==
  /\ IsFiniteSet(Rows \cup News)
  /\ None \notin Slots
  /\ None \notin Reads
  /\ None \notin Waiting \cup Sent \cup Answered
  /\ None \notin Undoable

Undisturbed == count.agent + count.faults + visit - 1 < MaxUpsets

Free == [op |-> "none"]
FirstFree(s) ==
  calls[s] = Free /\ \A r \in Slots : calls[r] = Free => s <= r
\* The fields that either patch has, with p's value where both have one.
Over(p, q) ==
  [f \in DOMAIN p \cup DOMAIN q |-> IF f \in DOMAIN p THEN p[f] ELSE q[f]]
Edited(row, patch) ==
  [row EXCEPT !.val = [f \in Fields |-> IF f \in DOMAIN patch THEN patch[f]
                                        ELSE row.val[f]]]
-----------------------------------------------------------------------------
(* The cached list.                                                        *)

replaceById(list, id, row) ==
  IF list = None THEN {row}
  ELSE {IF r.id = id THEN row ELSE r : r \in list}

patchById(list, id, patch) ==
  IF list = None THEN None
  ELSE {IF r.id = id THEN Edited(r, patch) ELSE r : r \in list}

removeById(list, id) ==
  IF list = None THEN None ELSE {r \in list : r.id # id}

appendItem(list, row) == (IF list = None THEN {} ELSE list) \cup {row}

replaceTempById(list, temp, row) ==
  IF list # None /\ \E r \in list : r.id = temp
  THEN replaceById(list, temp, row) ELSE appendItem(list, row)

insertBySortOrder(list, row) ==
  appendItem(removeById(list, row.id), row)

tempActivity(s) ==
  [id |-> TempId(s),
   sort |-> 1 + IF cache = None THEN 0 ELSE Cardinality(cache),
   val |-> [f \in Fields |-> 0]]

\* Fault: an answer does not lead to a new read.
invalidateNothing == UNCHANGED read

\* invalidateQueries: the list is read anew, unless its first read is running.
invalidateQueries ==
  read' = IF cache = None /\ read # None THEN read ELSE [st |-> "sent"]

shown == IF cache = None THEN {} ELSE {r.id : r \in cache}

ListOf(t) ==
  {[id |-> i, sort |-> t[i].sort, val |-> t[i].val] :
     i \in {j \in Ids : t[j].at = "active"}}

Init ==
  /\ table = [i \in Ids |-> [at |-> IF i \in Rows THEN "active" ELSE "absent",
                             sort |-> IF i \in Rows THEN i ELSE 0,
                             val |-> [f \in Fields |-> 0]]]
  /\ event = FALSE /\ cache = None /\ read = [st |-> "sent"]
  /\ calls = [s \in Slots |-> Free]
  /\ active = [v \in Visits |-> [i \in Ids \cup Temps |-> None]]
  /\ queued = active
  /\ latest = [v \in Visits |-> [i \in Ids \cup Temps |-> 0]]
  /\ visit = 1 /\ undo = None
  /\ count = [ops |-> 0, agent |-> 0, faults |-> 0]
  /\ hist = [edit |-> [i \in Ids |-> [f \in Fields |-> 0]],
             keep |-> [i \in Ids |-> TRUE], visits |-> [i \in Ids |-> {}],
             spoilt |-> {}, stale |-> FALSE]
-----------------------------------------------------------------------------
(* The student.  Each mutation cancels the list's read, keeps the list as  *)
(* it was to roll back to, and writes what it expects.                     *)

Start(s, call) ==
  /\ FirstFree(s) /\ count.ops < MaxOps
  /\ LET busy == {r \in Slots : calls[r] # Free}
     IN Cardinality(busy) < MaxMixed \/ {call.op} = {calls[r].op : r \in busy}
  /\ count' = [count EXCEPT !.ops = @ + 1]
  /\ calls' = [calls EXCEPT ![s] = Over(call, [prev |-> cache])]
  /\ read' = None

\* addActivity; the button is off while a creation runs or the list is full.
useCreateInList(s) ==
  /\ "create" \in Ops
  /\ cache # None /\ Cardinality(cache) < Cap
  /\ ~\E r \in Slots : calls[r].op = "create"
  /\ Start(s, [op |-> "create", st |-> "sent"])
  /\ cache' = appendItem(cache, tempActivity(s))
  /\ UNCHANGED <<table, event, active, queued, latest, visit, undo, hist>>

\* Fault: of two edits that wait, the older one's value wins.
enqueueOlderWins(s, id, patch) ==
  IF active[visit][id] = None
  THEN /\ active' = [active EXCEPT ![visit][id] =
                       [patch |-> patch, by |-> {s}, st |-> "sent"]]
       /\ UNCHANGED queued
  ELSE /\ queued' = [queued EXCEPT ![visit][id] =
                       IF @ = None THEN [patch |-> patch, by |-> {s}]
                       ELSE [patch |-> Over(@.patch, patch), by |-> @.by \cup {s}]]
       /\ UNCHANGED active

\* enqueue: the row's first edit is sent; later ones wait, merged into one
\* patch in which the newer value of a field wins.
enqueue(s, id, patch) ==
  IF active[visit][id] = None
  THEN /\ active' = [active EXCEPT ![visit][id] =
                       [patch |-> patch, by |-> {s}, st |-> "sent"]]
       /\ UNCHANGED queued
  ELSE /\ queued' = [queued EXCEPT ![visit][id] =
                       IF @ = None THEN [patch |-> patch, by |-> {s}]
                       ELSE [patch |-> Over(patch, @.patch), by |-> @.by \cup {s}]]
       /\ UNCHANGED active

\* useQueuedUpdateInList and useUpdateInList's onMutate.
useUpdateInList(s, id, f) ==
  LET n == count.ops + 1
      patch == [x \in {f} |-> n]
  IN  /\ "update" \in Ops
      /\ id \in shown
      /\ Start(s, [op |-> "update", st |-> "sent", id |-> id, visit |-> visit,
                   mutationId |-> n])
      /\ latest' = [latest EXCEPT ![visit][id] = n]
      /\ cache' = patchById(cache, id, patch)
      /\ enqueue(s, id, patch)
      /\ hist' = IF id \in Temps THEN hist
                 ELSE [hist EXCEPT
                         !.edit[id][f] = n, !.visits[id] = @ \cup {visit}]
      /\ UNCHANGED <<table, event, visit, undo>>

Deleting(id) == {r \in Slots : calls[r].op = "archive" /\ calls[r].id = id}

\* useUndoableDelete's archive: the toast offers the newest deletion only.
archive(s, id) ==
  /\ "archive" \in Ops
  /\ id \in shown
  /\ Start(s, [op |-> "archive", st |-> "sent", id |-> id, undo |-> FALSE])
  /\ cache' = removeById(cache, id)
  /\ undo' = [id |-> id, slot |-> s]
  /\ hist' = IF id \in Temps THEN hist
             ELSE [hist EXCEPT !.keep[id] = FALSE,
                               !.spoilt = @ \cup {calls[r].id : r \in Deleting(id)}]
  /\ UNCHANGED <<table, event, active, queued, latest, visit>>

\* Fault: the row is restored at once, be its deletion under way or not.
undoDeleteAtOnce(s) ==
  /\ "undo" \in Ops
  /\ undo # None
  /\ FirstFree(s) /\ count.ops < MaxOps
  /\ calls' = [calls EXCEPT ![s] =
                 [op |-> "restore", st |-> "sent", id |-> undo.id]]
  /\ count' = [count EXCEPT !.ops = @ + 1]
  /\ undo' = None
  /\ hist' = IF undo.id \in Temps THEN hist
             ELSE [hist EXCEPT !.keep[undo.id] = TRUE]
  /\ UNCHANGED <<table, event, cache, read, active, queued, latest, visit>>

\* undo: the row is restored now, or as soon as its deletion has succeeded.
undoDelete(s) ==
  LET waits == undo.slot # None
      id == undo.id
  IN  /\ "undo" \in Ops
      /\ undo # None
      /\ IF waits
         THEN /\ s = undo.slot
              /\ calls' = [calls EXCEPT ![s].undo = TRUE]
              /\ UNCHANGED count
         ELSE /\ FirstFree(s) /\ count.ops < MaxOps
              /\ calls' = [calls EXCEPT ![s] =
                             [op |-> "restore", st |-> "sent", id |-> id]]
              /\ count' = [count EXCEPT !.ops = @ + 1]
      /\ undo' = None
      /\ hist' = IF id \in Temps THEN hist
                 ELSE [hist EXCEPT !.keep[id] = TRUE]
      /\ UNCHANGED <<table, event, cache, read, active, queued, latest, visit>>

\* The undo window closes, or the toast is dismissed.
clearPending ==
  /\ undo # None
  /\ undo' = None
  /\ UNCHANGED <<table, event, cache, read, calls, active, queued, latest,
                 visit, count, hist>>

\* A drag or a move: the rows on screen in another order.  The list is sorted
\* at once, which the page, sorting by sort_order, does not show.
useReorderList(s) ==
  /\ "reorder" \in Ops
  /\ Cardinality(shown) > 1
  /\ \E ids \in Bijection(shown, 0..Cardinality(shown) - 1) :
       Start(s, [op |-> "reorder", st |-> "sent", ids |-> ids])
  /\ UNCHANGED <<table, event, cache, active, queued, latest, visit, undo, hist>>

\* The page is left and opened again: its hooks start afresh, what the old ones
\* had under way goes on, and the list is read.
Remount ==
  /\ visit < MaxVisits /\ Undisturbed
  /\ visit' = visit + 1
  /\ undo' = None
  /\ read' = IF read = None THEN [st |-> "sent"] ELSE read
  /\ hist' = [hist EXCEPT !.stale = @ /\ read # None]
  /\ UNCHANGED <<table, event, cache, calls, active, queued, latest, count>>

\* The list is read again on focus.
Focus ==
  /\ hist.stale /\ read = None
  /\ read' = [st |-> "sent"]
  /\ hist' = [hist EXCEPT !.stale = FALSE]
  /\ UNCHANGED <<table, event, cache, calls, active, queued, latest, visit,
                 undo, count>>
-----------------------------------------------------------------------------
(* Answers, as the hooks take them.                                        *)

\* handleMutationError, the history's view: the student was told it failed.
Told(ok, id) ==
  IF ok \/ id \notin Ids THEN hist ELSE [hist EXCEPT !.spoilt = @ \cup {id}]

Fresh(h) == [h EXCEPT !.stale = FALSE]

\* useCreateInList's, useArchiveFromList's, useRestoreToList's and
\* useReorderList's onSuccess or onError, then onSettled; a deletion that was
\* undone meanwhile goes on to restore the row.
Returned(call, ok, s) ==
  CASE ~ok /\ call.op # "restore" -> call.prev
    [] ok /\ call.op = "create" ->
         replaceTempById(cache, TempId(s), call.body)
    [] ok /\ call.op = "restore" -> insertBySortOrder(cache, call.body)
    [] ok /\ call.op = "reorder" -> call.body
    [] OTHER -> cache

MutationReturns(s) ==
  LET call == calls[s]
      ok == call.st = "ok"
      restores == call.op = "archive" /\ call.undo /\ ok
  IN  /\ call.op \in {"create", "archive", "restore", "reorder"}
      /\ call.st # "sent"
      /\ cache' = Returned(call, ok, s)
      /\ calls' = [calls EXCEPT ![s] =
                     IF restores THEN [op |-> "restore", st |-> "sent",
                                       id |-> call.id]
                     ELSE Free]
      /\ undo' = IF undo = None \/ undo.slot # s THEN undo
                 ELSE IF ok THEN [undo EXCEPT !.slot = None] ELSE None
      /\ hist' = Fresh(IF call.op \in {"archive", "restore"}
                       THEN Told(ok, call.id) ELSE hist)
      /\ invalidateQueries
      /\ UNCHANGED <<table, event, active, queued, latest, visit, count>>

\* Fault: what waited is forgotten.
flushQueuedDrops(v, id) ==
  /\ active' = [active EXCEPT ![v][id] = None]
  /\ queued' = [queued EXCEPT ![v][id] = None]

\* flushQueued: what waited is sent as one request.
flushQueued(v, id) ==
  /\ active' = [active EXCEPT ![v][id] =
                  IF queued[v][id] = None THEN None
                  ELSE Over(queued[v][id], [st |-> "sent"])]
  /\ queued' = [queued EXCEPT ![v][id] = None]

\* useUpdateInList's handlers for every edit the request carried: only the
\* row's latest edit touches the list, and reads it again.  (That an older edit
\* is answered after a newer one failed cannot happen behind the queue.)
UpdateReturns(v, id) ==
  LET a == active[v][id]
      ok == a.st = "ok"
      last == {s \in a.by : calls[s].mutationId = latest[v][id]}
  IN  /\ a # None /\ a.st # "sent"
      /\ calls' = [s \in Slots |-> IF s \in a.by THEN Free ELSE calls[s]]
      /\ flushQueued(v, id)
      /\ IF last = {}
         THEN UNCHANGED <<cache, read>> /\ hist' = Told(ok, id)
         ELSE /\ cache' = IF ok THEN replaceById(cache, id, a.body)
                          ELSE calls[CHOOSE s \in last : TRUE].prev
              /\ invalidateQueries
              /\ hist' = Fresh(Told(ok, id))
      /\ UNCHANGED <<table, event, latest, visit, undo, count>>

ReadReturns ==
  /\ read # None /\ read.st # "sent"
  /\ read' = None
  /\ IF read.st = "ok" THEN cache' = read.list /\ UNCHANGED hist
     ELSE UNCHANGED cache /\ hist' = [hist EXCEPT !.stale = TRUE]
  /\ UNCHANGED <<table, event, calls, active, queued, latest, visit, undo, count>>

\* invalidateFromChange, on a change event of the stream.  One that comes while
\* the list is first read changes nothing, and the read may be the older.
invalidateFromChange ==
  /\ event
  /\ event' = FALSE
  /\ invalidateQueries
  /\ hist' = [hist EXCEPT !.stale = cache = None /\ read # None]
  /\ UNCHANGED <<table, cache, calls, active, queued, latest, visit, undo, count>>
-----------------------------------------------------------------------------
(* The server.  A write is a transaction, followed by its change event.    *)

Written(t) == table' = t /\ event' = TRUE
Refused == UNCHANGED <<table, event>>
Used == {table[i].sort : i \in {j \in Ids : table[j].at # "absent"}}
next_sort_order ==
  IF Used = {} THEN 0 ELSE 1 + CHOOSE m \in Used : \A n \in Used : n <= m

Answer(s, st, body) ==
  calls' = [calls EXCEPT ![s] = Over([@ EXCEPT !.st = st], [body |-> body])]

RowOf(t, i) == [id |-> i, sort |-> t[i].sort, val |-> t[i].val]

create_activity(s) ==
  LET free == {i \in News : table[i].at = "absent"}
  IN  /\ calls[s].op = "create" /\ calls[s].st = "sent"
      /\ IF Cardinality(ListOf(table)) < Cap
         THEN \E i \in free :
                LET t == [table EXCEPT ![i].at = "active",
                                       ![i].sort = next_sort_order]
                IN  Written(t) /\ Answer(s, "ok", RowOf(t, i))
         ELSE Refused /\ Answer(s, "refused", None)

archive_activity(s) ==
  LET i == calls[s].id
  IN  /\ calls[s].op = "archive" /\ calls[s].st = "sent"
      /\ IF i \in Ids /\ table[i].at = "active"
         THEN /\ Written([table EXCEPT ![i].at = "archived"])
              /\ Answer(s, "ok", None)
         ELSE Refused /\ Answer(s, "refused", None)

restore_activity(s) ==
  LET i == calls[s].id
      t == [table EXCEPT ![i].at = "active",
                         ![i].sort = IF RestoreLast THEN next_sort_order ELSE @]
  IN  /\ calls[s].op = "restore" /\ calls[s].st = "sent"
      /\ IF /\ i \in Ids /\ table[i].at = "archived"
            /\ Cardinality(ListOf(table)) < Cap
         THEN Written(t) /\ Answer(s, "ok", RowOf(t, i))
         ELSE Refused /\ Answer(s, "refused", None)

reorder_activities(s) ==
  LET ids == calls[s].ids
      t == [i \in Ids |-> IF i \in DOMAIN ids
                          THEN [table[i] EXCEPT !.sort = ids[i]] ELSE table[i]]
  IN  /\ calls[s].op = "reorder" /\ calls[s].st = "sent"
      /\ IF DOMAIN ids = {r.id : r \in ListOf(table)}
         THEN Written(t) /\ Answer(s, "ok", ListOf(t))
         ELSE Refused /\ Answer(s, "refused", None)

update_activity(v, id) ==
  LET a == active[v][id]
      t == [table EXCEPT ![id] = Edited(@, a.patch)]
  IN  /\ a # None /\ a.st = "sent"
      /\ IF id \in Ids /\ table[id].at = "active"
         THEN /\ Written(t)
              /\ active' = [active EXCEPT ![v][id] =
                              Over([a EXCEPT !.st = "ok"], [body |-> RowOf(t, id)])]
         ELSE /\ Refused
              /\ active' = [active EXCEPT ![v][id].st = "refused"]
      /\ UNCHANGED calls

list_activities ==
  /\ read # None /\ read.st = "sent"
  /\ read' = [st |-> "ok", list |-> ListOf(table)]
  /\ UNCHANGED <<table, event, cache, calls, active, queued, latest, visit,
                 undo, count, hist>>

Serve ==
  /\ \/ \E s \in Slots :
          /\ \/ create_activity(s) \/ archive_activity(s)
             \/ restore_activity(s) \/ reorder_activities(s)
          /\ UNCHANGED active
     \/ \E v \in Visits, id \in Ids \cup Temps : update_activity(v, id)
  /\ UNCHANGED <<cache, read, queued, latest, visit, undo, count, hist>>

\* The agent edits a row from a chat.
AgentEdits(i, f) ==
  /\ Undisturbed /\ table[i].at = "active"
  /\ count' = [count EXCEPT !.agent = @ + 1]
  /\ Written([table EXCEPT ![i].val[f] = 0 - count.agent - 1])
  /\ hist' = [hist EXCEPT !.spoilt = @ \cup {i}]
  /\ UNCHANGED <<cache, read, calls, active, queued, latest, visit, undo>>

\* A request fails before the server sees it or its answer after.
Lose ==
  /\ Undisturbed
  /\ count' = [count EXCEPT !.faults = @ + 1]
  /\ \/ /\ read # None
        /\ read' = [st |-> "lost"]
        /\ UNCHANGED <<calls, active>>
     \/ \E s \in Slots :
          /\ calls[s].op \notin {"none", "update"}
          /\ calls' = [calls EXCEPT ![s].st = "lost"]
          /\ UNCHANGED <<read, active>>
     \/ \E v \in Visits, id \in Ids \cup Temps :
          /\ active[v][id] # None
          /\ active' = [active EXCEPT ![v][id].st = "lost"]
          /\ UNCHANGED <<read, calls>>
  /\ UNCHANGED <<table, event, cache, queued, latest, visit, undo, hist>>
-----------------------------------------------------------------------------
Student ==
  \/ \E s \in Slots :
       \/ useCreateInList(s) \/ undoDelete(s) \/ useReorderList(s)
       \/ \E id \in shown :
            \/ archive(s, id)
            \/ \E f \in Fields : useUpdateInList(s, id, f)
  \/ clearPending \/ Remount \/ Focus

Page ==
  \/ \E s \in Slots : MutationReturns(s)
  \/ \E v \in Visits, id \in Ids \cup Temps : UpdateReturns(v, id)
  \/ ReadReturns \/ invalidateFromChange

Server == Serve \/ list_activities

Next ==
  Student \/ Page \/ Server \/ Lose \/ \E i \in Ids, f \in Fields : AgentEdits(i, f)

Spec == Init /\ [][Next]_vars
-----------------------------------------------------------------------------
\* The rows, the cached list and the requests of the queue have their types; a
\* request for edits always carries at least one.
TypeOK ==
  /\ \A i \in Ids : /\ table[i].at \in {"absent", "active", "archived"}
                    /\ table[i].sort \in Nat
                    /\ table[i].val \in [Fields -> Int]
  /\ cache = None \/ \A r \in cache : r.id \in Ids \cup Temps
  /\ \A v \in Visits, i \in Ids \cup Temps :
       /\ active[v][i] # None => active[v][i].patch \in Patches
       /\ queued[v][i] # None => queued[v][i].patch \in Patches
  /\ visit \in Visits /\ event \in BOOLEAN

Quiet ==
  /\ ~event /\ read = None
  /\ \A s \in Slots : calls[s].op = "none"

\* Whatever was edited, created, deleted, restored and reordered at once,
\* answered in whatever order and in part refused, the page at rest shows the
\* server's rows: no rolled-back row, ghost of a creation or missed change
\* stays.
Converges == (Quiet /\ ~hist.stale /\ cache # None) => cache = ListOf(table)

\* The student's last edit of each field is what is stored, unless he was told
\* that an edit of the row failed; edits of one visit only, for two visits of
\* the page send their edits side by side.
LastEditWins ==
  Quiet => \A i \in Ids \ hist.spoilt :
             Cardinality(hist.visits[i]) < 2 => table[i].val = hist.edit[i]

\* A deletion that was undone is undone and another one holds, however the undo
\* met the deletion's request; but a row that another answer has put back on
\* screen may be deleted twice at once, and then only one of the two is undone.
UndoWins ==
  Quiet => \A i \in Ids \ hist.spoilt :
             table[i].at # "absent" =>
               (table[i].at = "active" <=> hist.keep[i])

\* No edit is stranded: each one is carried by its row's request under way, or
\* waits in the queue that the request's answer empties.
NoEditStranded ==
  \A s \in Slots :
    calls[s].op = "update" =>
      LET a == active[calls[s].visit][calls[s].id]
          q == queued[calls[s].visit][calls[s].id]
      IN  a # None /\ (s \in a.by \/ (q # None /\ s \in q.by))
=============================================================================
