----------------------------- MODULE GachaPull ------------------------------
(***************************************************************************)
(* backend/src/gacha/gacha.service.ts: concurrent pull and pullBulk        *)
(* requests, with the administrator's operations that touch the same rows  *)
(* running between their steps.                                            *)
(*                                                                         *)
(* A request is a thread with one step per await: find the event, get its  *)
(* items, then an interactive Prisma transaction (guarded UPDATE of the    *)
(* balance, INSERT of the history rows, COMMIT), then the emission of the  *)
(* feed events.  The transaction runs at Postgres' default READ COMMITTED: *)
(* the balance row stays locked from the UPDATE to the end, the event and  *)
(* item rows the INSERT references are share-locked from the INSERT to the *)
(* end, and nothing the transaction wrote is visible before COMMIT.  The   *)
(* locks are read off the program counters of the requests.                *)
(*                                                                         *)
(* Which list the item cache answers with is the subject of EventItems;    *)
(* here it is any list of items the event has ever had that passes the     *)
(* pull-time check, because a cached list may be older than the table.     *)
(***************************************************************************)
EXTENDS Integers, FiniteSets

CONSTANTS
    Requests,       \* HTTP requests to POST /gacha/pull and /gacha/pull-bulk
    Users, Events, Items, Admins,
    EventOf,        \* EventOf[i]: the event an item is configured for
    PullCost,       \* system-config PULL_COST
    MaxBulk,        \* system-config MAX_BULK_PULL
    Counts,         \* the counts a request may ask for
    InitialCoins,   \* balance of each account at the start
    Balances        \* the balances an administrator may set

ASSUME ParametersAssumption ==
    /\ EventOf \in [Items -> Events]
    /\ PullCost \in Nat \ {0}
    /\ MaxBulk \in Nat \ {0}
    /\ Counts \subseteq Nat \ {0}
    /\ InitialCoins \in Nat
    /\ Balances \subseteq Nat

VARIABLES
    users,          \* ids in table users
    coins,          \* committed users.coins, of a deleted account the last one
    events,         \* ids in table gacha_events
    active,         \* committed gacha_events.is_active
    items,          \* ids in table gacha_items
    logs,           \* committed rows of gacha_logs
    req,            \* what each request asks for
    pc,             \* how far each request is
    list,           \* the item list each request was given
    draft,          \* the rows its transaction has inserted
    feed,           \* rows announced to the admin feed
    admin,          \* the delete each administrator has checked, or NoDelete
    granted         \* history variable: coins given (or taken) by overwrites

database == <<users, coins, events, active, items, logs>>
requests == <<req, pc, list, draft>>
vars == <<database, requests, feed, admin, granted>>

LogRows == [request : Requests, n : Nat \ {0},
            user : Users, event : Events, item : Items]

InTxLeaked == {"createLogs", "commit", "failed"}  \* mutant: never rolled back
InTx == {"createLogs", "commit"}
Answered == {"ok", "refused", "failed", "unanswered"}
Steps == {"idle", "loadEvent", "getItems", "deduct", "emit"}
           \cup InTx \cup Answered
NoDelete == [op |-> "none"]
Targets == [op : {"user"}, target : Users] \cup [op : {"item"}, target : Items]
             \cup [op : {"event"}, target : Events] \cup {NoDelete}

-----------------------------------------------------------------------------
(* Row locks, read off the requests' positions. *)

BalanceLocked(u) == \E r \in Requests : pc[r] \in InTx /\ req[r].user = u

Referenced(r) == IF pc[r] = "commit" THEN draft[r] ELSE {}
ItemShared(i) == \E r \in Requests : \E row \in Referenced(r) : row.item = i
EventShared(e) == \E r \in Requests : \E row \in Referenced(r) : row.event = e

AmountOfOneDraw(r) == PullCost  \* mutant: a bulk pull charged once
Amount(r) == PullCost * req[r].count

(* The history row of draw k; and the rows of a pull, one per draw. *)
RowFromZero(r, k, i) ==  \* mutant: draws counted from zero
    [request |-> r, n |-> k - 1, user |-> req[r].user, event |-> req[r].event, item |-> i]
RowFor(r, k, i) ==
    [request |-> r, n |-> k, user |-> req[r].user, event |-> req[r].event, item |-> i]
NewRowsDistinct(r, picked) ==  \* mutant: equal draws inserted once
    {RowFor(r, 1, picked[k]) : k \in 1..req[r].count}
NewRows(r, picked) == {RowFor(r, k, picked[k]) : k \in 1..req[r].count}

Advance(r, step) == pc' = [pc EXCEPT ![r] = step]

-----------------------------------------------------------------------------
Init ==
    /\ users = Users
    /\ coins = [u \in Users |-> InitialCoins]
    /\ events = Events
    /\ active \in [Events -> BOOLEAN]
    /\ items = Items
    /\ logs = {}
    /\ req \in [Requests -> [user : Users, event : Events, count : Counts]]
    /\ pc = [r \in Requests |-> "idle"]
    /\ list = [r \in Requests |-> {}]
    /\ draft = [r \in Requests |-> {}]
    /\ feed = {}
    /\ admin = [a \in Admins |-> NoDelete]
    /\ granted = [u \in Users |-> 0]

(* The request arrives; pullBulk refuses a count above MAX_BULK_PULL. *)
Receive(r) ==
    /\ pc[r] = "idle"
    /\ Advance(r, IF req[r].count > MaxBulk THEN "refused" ELSE "loadEvent")
    /\ UNCHANGED <<database, req, list, draft, feed, admin, granted>>

(* The event must exist and be active now, outside the transaction. *)
LoadEvent(r) ==
    /\ pc[r] = "loadEvent"
    /\ LET e == req[r].event
       IN  Advance(r, IF e \in events /\ active[e] THEN "getItems" ELSE "refused")
    /\ UNCHANGED <<database, req, list, draft, feed, admin, granted>>

(* The cache answers with a non-empty list that totals 100 ... *)
GetItems(r) ==
    /\ pc[r] = "getItems"
    /\ \E l \in SUBSET {i \in Items : EventOf[i] = req[r].event} :
         /\ l # {}
         /\ list' = [list EXCEPT ![r] = l]
    /\ Advance(r, "deduct")
    /\ UNCHANGED <<database, req, draft, feed, admin, granted>>

(* ... or with one that is empty or does not, and the pull is refused. *)
RefuseItems(r) ==
    /\ pc[r] = "getItems"
    /\ Advance(r, "refused")
    /\ UNCHANGED <<database, req, list, draft, feed, admin, granted>>

DeductReadFirst(r) ==  \* mutant: balance read and judged without the row lock
    /\ pc[r] = "deduct"
    /\ LET u == req[r].user
       IN  Advance(r, IF u \in users /\ coins[u] >= Amount(r)
                      THEN "createLogs" ELSE "refused")
    /\ UNCHANGED <<database, req, list, draft, feed, admin, granted>>

(* UPDATE users SET coins = coins - amount WHERE id = ... AND coins >= amount.
   It waits for the row lock, then judges the balance it finds. *)
Deduct(r) ==
    /\ pc[r] = "deduct"
    /\ ~BalanceLocked(req[r].user)
    /\ LET u == req[r].user
       IN  Advance(r, IF u \in users /\ coins[u] >= Amount(r)
                      THEN "createLogs" ELSE "refused")
    /\ UNCHANGED <<database, req, list, draft, feed, admin, granted>>

(* The INSERT: one row per draw, each of an item of the list.  A foreign key
   that finds no item or no event aborts the whole transaction. *)
CreateLogs(r) ==
    /\ pc[r] = "createLogs"
    /\ \E picked \in [1..req[r].count -> list[r]] :
         IF /\ req[r].event \in events
            /\ \A k \in 1..req[r].count : picked[k] \in items
         THEN /\ draft' = [draft EXCEPT ![r] = NewRows(r, picked)]
              /\ Advance(r, "commit")
         ELSE /\ Advance(r, "failed")
              /\ UNCHANGED draft
    /\ UNCHANGED <<database, req, list, feed, admin, granted>>

PublishUnpaid(r, step) ==  \* mutant: the deduction left out of the transaction
    /\ logs' = logs \cup draft[r]
    /\ Advance(r, step)
    /\ UNCHANGED <<users, coins, events, active, items, req, list, draft, feed, admin, granted>>

(* COMMIT makes the deduction and the rows visible together. *)
Publish(r, step) ==
    /\ coins' = [coins EXCEPT ![req[r].user] = @ - Amount(r)]
    /\ logs' = logs \cup draft[r]
    /\ Advance(r, step)
    /\ UNCHANGED <<users, events, active, items, req, list, draft, feed, admin, granted>>

(* COMMIT succeeds and the service goes on to announce the pull. *)
Commit(r) == pc[r] = "commit" /\ Publish(r, "emit")

(* The connection or the process dies after COMMIT took effect and before the
   service heard of it: the caller gets no success, nothing is emitted. *)
CommitUnheard(r) == pc[r] = "commit" /\ Publish(r, "unanswered")

EmitPullsEarly(r) ==  \* mutant: announced before COMMIT
    /\ pc[r] = "commit"
    /\ feed' = feed \cup draft[r]
    /\ UNCHANGED <<database, requests, admin, granted>>

(* Each draw is announced on its own; an emission that fails is only logged. *)
EmitPulls(r) ==
    /\ pc[r] = "emit"
    /\ \E sent \in SUBSET draft[r] : feed' = feed \cup sent
    /\ Advance(r, "ok")
    /\ UNCHANGED <<database, req, list, draft, admin, granted>>

(* The process, the connection or the transaction's timeout ends the request;
   Postgres rolls an open transaction back. *)
Fail(r) ==
    /\ \/ /\ pc[r] \in {"loadEvent", "getItems", "deduct"} \cup InTx
          /\ Advance(r, "failed")
          /\ draft' = [draft EXCEPT ![r] = {}]
       \/ /\ pc[r] = "emit"
          /\ Advance(r, "unanswered")
          /\ UNCHANGED draft
    /\ UNCHANGED <<database, req, list, feed, admin, granted>>

-----------------------------------------------------------------------------
(* PUT /admin/users/:id with coins: an absolute overwrite, one UPDATE. *)
UpdateUserCoins(u, c) ==
    /\ u \in users
    /\ ~BalanceLocked(u)
    /\ coins' = [coins EXCEPT ![u] = c]
    /\ granted' = [granted EXCEPT ![u] = @ + (c - coins[u])]
    /\ UNCHANGED <<users, events, active, items, logs, requests, feed, admin>>

(* PUT /admin/events/:id with isActive. *)
UpdateEventActive(e, b) ==
    /\ e \in events
    /\ active' = [active EXCEPT ![e] = b]
    /\ UNCHANGED <<users, coins, events, items, logs, requests, feed, admin, granted>>

(* The three removes share a shape: count the history rows, refuse when there
   are any, then delete in a second statement. *)
CountLogs(a, op, t) ==
    /\ admin[a] = NoDelete
    /\ admin' = [admin EXCEPT ![a] = [op |-> op, target |-> t]]
    /\ UNCHANGED <<database, requests, feed, granted>>

CountUserLogs(a, u) ==
    /\ u \in users
    /\ \A row \in logs : row.user # u
    /\ CountLogs(a, "user", u)

CountItemLogs(a, i) ==
    /\ i \in items
    /\ \A row \in logs : row.item # i
    /\ CountLogs(a, "item", i)

CountEventLogs(a, e) ==
    /\ e \in events
    /\ \A row \in logs : row.event # e
    /\ CountLogs(a, "event", e)

Finish(a) == admin' = [admin EXCEPT ![a] = NoDelete]

(* DELETE of the user waits for the balance lock, then cascades to the rows. *)
DeleteUser(a, u) ==
    /\ admin[a] = [op |-> "user", target |-> u]
    /\ ~BalanceLocked(u)
    /\ users' = users \ {u}
    /\ logs' = {row \in logs : row.user # u}
    /\ Finish(a)
    /\ UNCHANGED <<coins, events, active, items, requests, feed, granted>>

DeleteItemUnrestricted(a, i) ==  \* mutant: only the count protects the rows
    /\ admin[a] = [op |-> "item", target |-> i]
    /\ ~ItemShared(i)
    /\ items' = items \ {i}
    /\ Finish(a)
    /\ UNCHANGED <<users, coins, events, active, logs, requests, feed, granted>>

(* DELETE of the item waits for share locks; ON DELETE RESTRICT makes it fail
   when a row refers to the item by then. *)
DeleteItem(a, i) ==
    /\ admin[a] = [op |-> "item", target |-> i]
    /\ ~ItemShared(i)
    /\ items' = IF \E row \in logs : row.item = i THEN items ELSE items \ {i}
    /\ Finish(a)
    /\ UNCHANGED <<users, coins, events, active, logs, requests, feed, granted>>

DeleteEventCascading(a, e) ==  \* mutant: the rows cascade with the event
    /\ admin[a] = [op |-> "event", target |-> e]
    /\ ~EventShared(e)
    /\ events' = events \ {e}
    /\ items' = {i \in items : EventOf[i] # e}
    /\ logs' = {row \in logs : row.event # e}
    /\ Finish(a)
    /\ UNCHANGED <<users, coins, active, requests, feed, granted>>

(* DELETE of the event cascades to its items first (their constraint is the
   older one), so a row that refers to one of them makes it fail as well. *)
DeleteEvent(a, e) ==
    /\ admin[a] = [op |-> "event", target |-> e]
    /\ ~EventShared(e)
    /\ IF \E row \in logs : row.event = e
       THEN UNCHANGED <<events, items>>
       ELSE /\ events' = events \ {e}
            /\ items' = {i \in items : EventOf[i] # e}
    /\ Finish(a)
    /\ UNCHANGED <<users, coins, active, logs, requests, feed, granted>>

-----------------------------------------------------------------------------
Serve(r) ==
    \/ Receive(r) \/ LoadEvent(r) \/ GetItems(r) \/ RefuseItems(r)
    \/ Deduct(r) \/ CreateLogs(r) \/ Commit(r) \/ EmitPulls(r)

Administer ==
    \/ \E u \in Users, c \in Balances : UpdateUserCoins(u, c)
    \/ \E e \in Events, b \in BOOLEAN : UpdateEventActive(e, b)
    \/ \E a \in Admins :
         \/ \E u \in Users : CountUserLogs(a, u) \/ DeleteUser(a, u)
         \/ \E i \in Items : CountItemLogs(a, i) \/ DeleteItem(a, i)
         \/ \E e \in Events : CountEventLogs(a, e) \/ DeleteEvent(a, e)

Next ==
    \/ \E r \in Requests : Serve(r) \/ CommitUnheard(r) \/ Fail(r)
    \/ Administer

Spec == Init /\ [][Next]_vars

(* Node resumes every pending await: each request's own steps are fair. *)
FairSpec == Spec /\ \A r \in Requests : WF_vars(Serve(r))

-----------------------------------------------------------------------------
(* Properties. *)

(* Each variable stays in its range: the type invariant of the tables, the
   requests' program counters and the administrators' checked deletes. *)
TypeOK ==
    /\ users \subseteq Users
    /\ coins \in [Users -> Int]
    /\ events \subseteq Events
    /\ active \in [Events -> BOOLEAN]
    /\ items \subseteq Items
    /\ logs \subseteq LogRows
    /\ req \in [Requests -> [user : Users, event : Events, count : Counts]]
    /\ pc \in [Requests -> Steps]
    /\ list \in [Requests -> SUBSET Items]
    /\ draft \in [Requests -> SUBSET LogRows]
    /\ feed \subseteq LogRows
    /\ admin \in [Admins -> Targets]
    /\ granted \in [Users -> Int]

Committed == {"emit", "ok", "unanswered"}
RowsOf(r) == {row \in logs : row.request = r}

(* However pulls and overwrites interleave, no balance ever falls below zero:
   the guard of deductCoinsOrThrow holds when it is applied, so the CHECK
   constraint behind it never fires. *)
CoinsNonNegative == \A u \in Users : coins[u] >= 0

(* Coins are neither made nor lost: what an account has plus what its history
   rows cost is what it started with plus what administrators gave it. *)
LedgerConserved ==
    \A u \in users :
        coins[u] + PullCost * Cardinality({row \in logs : row.user = u})
            = InitialCoins + granted[u]

(* A pull, single or bulk, is all or nothing: once committed its account has
   exactly count rows of it; a pull that was refused or failed has none. *)
AllOrNothing ==
    \A r \in Requests :
        IF pc[r] \in Committed
        THEN req[r].user \in users => Cardinality(RowsOf(r)) = req[r].count
        ELSE RowsOf(r) = {}

(* No history row outlives what it refers to, although the list a pull draws
   from is read before its transaction and the removes count before they
   delete; and the item drawn is one of the event that was asked for. *)
ReferencesHold ==
    \A row \in logs :
        /\ row.user \in users
        /\ row.event \in events
        /\ row.item \in items
        /\ EventOf[row.item] = row.event

(* The admin feed announces only pulls that happened: every announced row is
   in the history, unless its account has been deleted since. *)
FeedTellsHistory == \A row \in feed : row \in logs \/ row.user \notin users

(* A step may remove a history row only by deleting the account it belongs
   to: removing items and events never costs a player his history. *)
HistoryKept == [][\A row \in logs : row \in logs' \/ row.user \notin users']_vars

(* README.md:499 of the repository: gacha_logs is append-only, nothing ever
   deletes a row.  AdminUsersService.remove can: it counts, a pull commits, and
   the DELETE cascades. *)
HistoryAppendOnly == [][logs \subseteq logs']_vars

(* Every pull that is received is answered or fails: no set of concurrent
   pulls waits for each other's balance lock forever. *)
EveryPullEnds ==
    \A r \in Requests : pc[r] \notin Answered /\ pc[r] # "idle" ~> pc[r] \in Answered

(* Seen from the committed tables, concurrent pulls are single steps of the
   ledger: balance and history change together or not at all. *)
Ledger == INSTANCE PullLedger WITH
              Rows <- LogRows, RowUser <- [row \in LogRows |-> row.user]
ImplementsLedger == Ledger!LedgerSpec
=============================================================================
