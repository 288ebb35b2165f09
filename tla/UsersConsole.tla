---------------------------- MODULE UsersConsole ----------------------------
(***************************************************************************)
(* The administrator's page of accounts: frontend-admin/src/app/users/     *)
(* page.tsx with features/users/hooks/useUsers.ts and its dialogs, over    *)
(* backend/src/admin/admin-users.service.ts and its cursor pages.          *)
(*                                                                         *)
(* Pages are loaded by a search that waits 300 ms, by a button, and after  *)
(* an account was made; a page replaces the list or is appended to it.  No *)
(* request is cancelled.  A change of one account is asked for, done by    *)
(* the server, answered, and only then written into the row displayed.     *)
(***************************************************************************)
EXTENDS Integers, Sequences, FiniteSets, SequencesExt

CONSTANTS
    Users,      \* ids of accounts
    Initial,    \* the lists of accounts the server may begin with, newest first; no two
                \* are taken to have the same createdAt
    Searches,   \* what is typed in the search box, each as the accounts whose e-mail contains it
    PageSize,
    Fields,     \* what an administrator changes of an account: "coins", "role", "isBanned"
    Handlers,   \* bound: handlers running at once
    MaxLoads,   \* bound: unanswered requests for a page
    MaxAsked,   \* bound: requests for a page in all; none is searched for after them
    MaxListed,  \* bound: rows displayed when a further page is asked for
    MaxClicks,  \* bound: handlers started in all; no dialog is opened after them
    None

ASSUME UsersAssumption ==
    /\ Users \in Searches /\ Searches \subseteq SUBSET Users
    /\ Initial \subseteq Seq(Users) /\ \A s \in Initial : IsInjective(s)
    /\ Fields \subseteq {"coins", "role", "isBanned"} /\ "isBanned" \in Fields
    /\ PageSize \in Nat \ {0} /\ MaxLoads \in Nat \ {0}
    /\ MaxAsked \in Nat /\ MaxListed \in Nat /\ MaxClicks \in Nat
    /\ None \notin Users \cup Handlers

VARIABLES
    db,         \* ids of the accounts in the server, newest first
    row,        \* their fields
    known,      \* ids given out, never again
    users,      \* the rows displayed
    cursor,     \* where the next page begins; None without one
    loading, loadingMore,
    search,     \* the search box
    timer,      \* the search waits to be sent
    loads,      \* the loadPage()s not ended, oldest first
    asked,      \* loadPage()s so far
    editing,    \* editingUserId
    creating,   \* UserCreateDialog is open
    handler,    \* the handlers running
    clicks,     \* handlers started so far
    confirming, \* the handler whose confirmation is asked for
    raced,      \* history: accounts whose change overlapped another, or a page already answered
    behind      \* history: the list was left incomplete, see ListWhole

server == <<db, row, known>>
page == <<users, cursor, loading, loadingMore, search, timer, loads, asked>>
dialogs == <<editing, creating, confirming>>
history == <<raced, behind>>
vars == <<server, page, dialogs, handler, clicks, history>>

Rows == [id : Users, data : [Fields -> BOOLEAN]]
Listed == {users[i].id : i \in DOMAIN users}
Shown(u) == (CHOOSE i \in DOMAIN users : users[i].id = u)
EditShown == editing \in Listed
Idle == [kind |-> "idle"]
Tasks == [kind : {"update", "delete", "create"}, step : {"ask", "send", "served"},
          user : Users \cup {None}, field : Fields, to : BOOLEAN, agreed : BOOLEAN,
          search : Searches,
          place : {"table", "edit", "create", "gone"}]

Request(after, replace, of) == [after |-> after, replace |-> replace, search |-> of,
                                got |-> None, fresh |-> TRUE]

-----------------------------------------------------------------------------
(* Pages. *)

Load(after, replace, of) ==
    /\ Len(loads) < MaxLoads /\ asked < MaxAsked
    /\ asked' = asked + 1
    /\ loads' = Append([i \in DOMAIN loads |-> [loads[i] EXCEPT !.fresh = FALSE]],
                       Request(after, replace, of))
    /\ loading' = (loading \/ replace)
    /\ loadingMore' = (loadingMore \/ ~replace)
    /\ UNCHANGED <<users, cursor>>

(* The elements of a sequence that are in S, in their order. *)
Select(seq, S) ==
    LET at == {i \in DOMAIN seq : seq[i] \in S}
    IN  [k \in 1..Cardinality(at) |-> seq[CHOOSE i \in at : Cardinality({j \in at : j <= i}) = k]]

(* The rows of a search from the cursor's row on, without the first: none when
   that row was deleted. *)
Matching(after, of) ==
    IF after = None THEN Select(db, of)
    ELSE IF after \notin ToSet(db) THEN <<>>
    ELSE LET from == SubSeq(db, CHOOSE i \in DOMAIN db : db[i] = after, Len(db))
             found == Select(from, of)
         IN  IF found = <<>> THEN <<>> ELSE Tail(found)

PageOf(ids, shown, next) == [items |-> [i \in 1..shown |-> [id |-> ids[i], data |-> row[ids[i]]]], next |-> next]

PageUncut(after, of) ==  \* mutant: the row that tells of a next page is not cut off
    LET ids == Matching(after, of)
    IN  IF Len(ids) > PageSize THEN PageOf(ids, PageSize + 1, ids[PageSize]) ELSE PageOf(ids, Len(ids), None)

PageSkipping(after, of) ==  \* mutant: the cursor is the row cut off
    LET ids == Matching(after, of)
    IN  IF Len(ids) > PageSize THEN PageOf(ids, PageSize, ids[PageSize + 1]) ELSE PageOf(ids, Len(ids), None)

Page(after, of) ==
    LET ids == Matching(after, of)
    IN  IF Len(ids) > PageSize THEN PageOf(ids, PageSize, ids[PageSize]) ELSE PageOf(ids, Len(ids), None)

(* The two loads of the page's start were answered. *)
Init ==
    /\ db \in Initial
    /\ known = ToSet(db)
    /\ row = [u \in Users |-> [f \in Fields |-> FALSE]]
    /\ search = Users /\ timer = FALSE
    /\ users = Page(None, Users).items /\ cursor = Page(None, Users).next
    /\ loading = FALSE /\ loadingMore = FALSE /\ loads = <<>> /\ asked = 0
    /\ editing = None /\ creating = FALSE /\ confirming = None
    /\ handler = [h \in Handlers |-> Idle] /\ clicks = 0
    /\ raced = {} /\ behind = FALSE

LoadServed(i) ==
    LET l == loads[i]
    IN  /\ l.got = None
        /\ loads' = [loads EXCEPT ![i].got = Page(l.after, l.search),
                                  ![i].fresh = @ /\ l.after \in ToSet(db) \cup {None}]
        /\ UNCHANGED <<server, users, cursor, loading, loadingMore, search, timer, asked, dialogs, handler,
                       clicks, history>>

(* The edit dialog of an account no longer listed is not rendered; its handlers
   go on. *)
InPlace(place) == {h \in Handlers : IF handler[h] = Idle THEN FALSE ELSE handler[h].place = place}
Leave(place) == [h \in Handlers |-> IF h \in InPlace(place) THEN [handler[h] EXCEPT !.place = "gone"]
                                    ELSE handler[h]]
Rerendered(rows) == IF EditShown /\ \A i \in DOMAIN rows : rows[i].id # editing
                    THEN Leave("edit") ELSE handler

(* The list is behind after an answer that is not the newest request's, or is
   another search's, and after a failed one. *)
LoadEnds(i, ok) ==
    LET l == loads[i]
        late == ~l.fresh \/ l.search # search
    IN  /\ ok => l.got # None
        /\ users' = IF ~ok THEN users ELSE IF l.replace THEN l.got.items ELSE users \o l.got.items
        /\ cursor' = IF ok THEN l.got.next ELSE cursor
        /\ behind' = IF l.replace /\ ok THEN late ELSE behind \/ late \/ l.replace
        /\ loads' = RemoveAt(loads, i)
        /\ loading' = FALSE /\ loadingMore' = FALSE
        /\ handler' = Rerendered(users')
        /\ UNCHANGED <<server, search, timer, asked, dialogs, clicks, raced>>

-----------------------------------------------------------------------------
(* The page; an open dialog covers it. *)

PageOpen == ~EditShown /\ ~creating /\ confirming = None
TableOpen == PageOpen /\ ~loading

(* Typing replaces the timer; what is loaded is the search it was set for. *)
TypeSearch(s) ==
    /\ PageOpen /\ s # search /\ asked < MaxAsked
    /\ search' = s /\ timer' = TRUE
    /\ UNCHANGED <<server, users, cursor, loading, loadingMore, loads, asked, dialogs, handler, clicks, history>>

TimerFires ==
    /\ timer /\ timer' = FALSE
    /\ Load(None, TRUE, search)
    /\ UNCHANGED <<server, search, dialogs, handler, clicks, history>>

Reload ==
    /\ PageOpen
    /\ Load(None, TRUE, search)
    /\ UNCHANGED <<server, search, timer, dialogs, handler, clicks, history>>

LoadMore ==
    /\ PageOpen /\ cursor # None /\ ~loadingMore /\ Len(users) < MaxListed
    /\ Load(cursor, FALSE, search)
    /\ UNCHANGED <<server, search, timer, dialogs, handler, clicks, history>>

Start(h, kind, step, u, field, to, place) ==
    /\ handler[h] = Idle /\ clicks < MaxClicks
    /\ clicks' = clicks + 1
    /\ handler' = [handler EXCEPT ![h] = [kind |-> kind, step |-> step, user |-> u, field |-> field,
                                          to |-> to, agreed |-> FALSE,
                                          search |-> IF kind = "create" THEN search ELSE Users, place |-> place]]
    /\ confirming' = IF step = "ask" THEN h ELSE confirming
    /\ UNCHANGED <<server, page, editing, creating, history>>

ToggleBan(h, u) ==
    /\ TableOpen /\ u \in Listed
    /\ Start(h, "update", "ask", u, "isBanned", ~users[Shown(u)].data.isBanned, "table")

DeleteUser(h, u) ==
    /\ TableOpen /\ u \in Listed
    /\ Start(h, "delete", "ask", u, "isBanned", FALSE, "table")

OpenEdit(u) ==
    /\ TableOpen /\ u \in Listed /\ clicks < MaxClicks
    /\ editing' = u
    /\ UNCHANGED <<server, page, creating, confirming, handler, clicks, history>>

OpenCreate ==
    /\ PageOpen /\ clicks < MaxClicks
    /\ creating' = TRUE
    /\ UNCHANGED <<server, page, editing, confirming, handler, clicks, history>>

-----------------------------------------------------------------------------
(* The dialogs. *)

(* Each control of the edit dialog is disabled while it saves. *)
Saving(field) == \E h \in InPlace("edit") : handler[h].field = field /\ handler[h].step # "ask"

SaveCoins(h) ==
    /\ "coins" \in Fields /\ EditShown /\ confirming = None /\ ~Saving("coins")
    /\ Start(h, "update", "send", editing, "coins", ~users[Shown(editing)].data.coins, "edit")

(* changeRole, and toggleBan of the dialog. *)
ChangeField(h, field) ==
    /\ EditShown /\ confirming = None /\ ~Saving(field)
    /\ Start(h, "update", "ask", editing, field, ~users[Shown(editing)].data[field], "edit")

CloseEdit ==
    /\ EditShown /\ confirming = None
    /\ editing' = None
    /\ handler' = Leave("edit")
    /\ UNCHANGED <<server, page, creating, confirming, clicks, history>>

SubmitCreate(h) ==
    /\ creating /\ InPlace("create") = {}
    /\ Start(h, "create", "send", None, "isBanned", FALSE, "create")

CloseCreate ==
    /\ creating
    /\ creating' = FALSE
    /\ handler' = Leave("create")
    /\ UNCHANGED <<server, page, editing, confirming, clicks, history>>

Settle(ok) ==
    /\ confirming # None
    /\ handler' = [handler EXCEPT ![confirming] = IF ok THEN [@ EXCEPT !.step = "send", !.agreed = TRUE]
                                                     ELSE Idle]
    /\ confirming' = None
    /\ UNCHANGED <<server, page, editing, creating, clicks, raced, behind>>

(* Every open dialog listens for the key. *)
Escape ==
    /\ confirming # None /\ EditShown
    /\ editing' = None /\ confirming' = None
    /\ handler' = [Leave("edit") EXCEPT ![confirming] = Idle]
    /\ UNCHANGED <<server, page, creating, clicks, history>>

-----------------------------------------------------------------------------
(* The requests of the handlers. *)

Overlapped(h) ==
    \/ \E g \in Handlers \ {h} : IF handler[g] = Idle THEN FALSE
                                 ELSE handler[g].step # "ask" /\ handler[g].user = handler[h].user
    \/ \E i \in DOMAIN loads : loads[i].got # None

ServedToggling(h) ==  \* mutant: what to change is computed after the confirmation
    LET t == handler[h]
    IN  /\ t.kind = "update" /\ t.step = "send" /\ t.user \in ToSet(db) /\ t.user \in Listed
        /\ handler' = [handler EXCEPT ![h].step = "served", ![h].to = ~users[Shown(t.user)].data[t.field]]
        /\ row' = [row EXCEPT ![t.user][t.field] = handler'[h].to]
        /\ UNCHANGED <<db, known, page, dialogs, clicks, history>>

(* AdminUsersService.update, remove and create, when they do not refuse: an
   account that is gone or has a history, an e-mail that is taken. *)
Updated(t) ==
    /\ t.kind = "update" /\ t.user \in ToSet(db)
    /\ row' = [row EXCEPT ![t.user][t.field] = t.to]
    /\ UNCHANGED <<db, known>>

Deleted(t) ==
    /\ t.kind = "delete" /\ t.user \in ToSet(db)
    /\ db' = Select(db, Users \ {t.user})
    /\ UNCHANGED <<row, known>>

Created(t) ==
    /\ t.kind = "create"
    /\ \E u \in Users \ known : db' = <<u>> \o db /\ known' = known \cup {u}
    /\ UNCHANGED row

(* What a request does at the server. *)
Served(h) ==
    LET t == handler[h]
    IN  /\ t.kind # "idle" /\ t.step = "send"
        /\ Updated(t) \/ Deleted(t) \/ Created(t)
        /\ handler' = [handler EXCEPT ![h].step = "served"]
        /\ raced' = IF t.user # None /\ Overlapped(h) THEN raced \cup {t.user} ELSE raced
        /\ UNCHANGED <<page, dialogs, clicks, behind>>

PatchToggling(t) ==  \* mutant: the row is flipped, not set to what was sent
    [i \in DOMAIN users |-> IF users[i].id = t.user THEN [users[i] EXCEPT !.data[t.field] = ~@] ELSE users[i]]

Patch(t) ==
    [i \in DOMAIN users |-> IF users[i].id = t.user THEN [users[i] EXCEPT !.data[t.field] = t.to] ELSE users[i]]

(* The answer: patchUser and deleteUser write it into the list as it is now;
   an account created loads the list of the search at the time of the click,
   and closes whichever form is open by now. *)
Answered(h) ==
    LET t == handler[h]
        shown == IF t.kind = "update" THEN Patch(t) ELSE Select(users, {r \in Rows : r.id # t.user})
    IN  /\ t.kind # "idle" /\ t.step = "served"
        /\ IF t.kind = "create"
           THEN /\ Load(None, TRUE, t.search)
                /\ creating' = FALSE
                /\ handler' = [Leave("create") EXCEPT ![h] = Idle]
           ELSE /\ users' = shown
                /\ UNCHANGED <<cursor, loading, loadingMore, loads, asked, creating>>
                /\ handler' = [Rerendered(shown) EXCEPT ![h] = Idle]
        /\ UNCHANGED <<server, search, timer, editing, confirming, clicks, history>>

(* Refused, or done with its answer lost: nothing is written into the list. *)
Failed(h) ==
    LET t == handler[h]
    IN  /\ t.kind # "idle" /\ t.step # "ask"
        /\ handler' = [handler EXCEPT ![h] = Idle]
        /\ IF t.step = "send" THEN UNCHANGED <<raced, behind, loads>>
           ELSE /\ raced' = raced \cup ({t.user} \ {None})
                /\ behind' = (behind \/ t.kind = "create")
                /\ loads' = [i \in DOMAIN loads |-> [loads[i] EXCEPT !.fresh = @ /\ loads[i].got = None]]
        /\ UNCHANGED <<server, users, cursor, loading, loadingMore, search, timer, asked, dialogs, clicks>>

-----------------------------------------------------------------------------
Click(h) ==
    \/ \E u \in Users : ToggleBan(h, u) \/ DeleteUser(h, u)
    \/ SaveCoins(h) \/ \E field \in Fields \ {"coins"} : ChangeField(h, field)
    \/ SubmitCreate(h)

Dialogs ==
    \/ \E u \in Users : OpenEdit(u)
    \/ OpenCreate \/ CloseEdit \/ CloseCreate \/ Escape \/ \E ok \in BOOLEAN : Settle(ok)

Pages ==
    \/ \E s \in Searches : TypeSearch(s)
    \/ TimerFires \/ Reload \/ LoadMore
    \/ \E i \in DOMAIN loads : LoadServed(i) \/ \E ok \in BOOLEAN : LoadEnds(i, ok)

Next == Pages \/ Dialogs \/ \E h \in Handlers : Click(h) \/ Served(h) \/ Answered(h) \/ Failed(h)

Spec == Init /\ [][Next]_vars

-----------------------------------------------------------------------------
(* Properties. *)

(* Tables, pages and handlers keep their types; no page is longer than its
   limit, and a confirmation belongs to a handler that waits for it. *)
TypeOK ==
    /\ db \in Seq(Users) /\ known \subseteq Users /\ row \in [Users -> [Fields -> BOOLEAN]]
    /\ users \in Seq(Rows) /\ cursor \in Users \cup {None}
    /\ {loading, loadingMore, timer, creating, behind} \subseteq BOOLEAN /\ search \in Searches
    /\ \A i \in DOMAIN loads :
          /\ loads[i].after \in Users \cup {None} /\ loads[i].search \in Searches
          /\ loads[i].got # None => loads[i].got.items \in Seq(Rows) /\ Len(loads[i].got.items) <= PageSize
    /\ editing \in Users \cup {None}
    /\ handler \in [Handlers -> Tasks \cup {Idle}] /\ clicks \in 0..MaxClicks /\ asked \in 0..MaxAsked
    /\ confirming # None => handler[confirming].kind # "idle" /\ handler[confirming].step = "ask"
    /\ raced \subseteq Users

Quiet == \A h \in Handlers : handler[h].kind # "idle" => handler[h].step # "served"

(* Once nothing is on its way each row displayed is the server's, also after
   pages and answers came in any order, unless a change of that account
   overlapped another one or a page answered before it, or its answer was
   lost. *)
RowsCurrent ==
    loads = <<>> /\ Quiet =>
        \A i \in DOMAIN users : \/ users[i].id \in raced
                                \/ users[i].id \in ToSet(db) /\ users[i].data = row[users[i].id]

(* Once nothing is on its way the list is the beginning of the search's
   accounts, none twice and none left out, and all of them when no further
   page is offered: whatever was searched, appended, created and deleted in
   between, unless an older answer or another search's came last, a request
   failed, or the account a page was to begin after had been deleted. *)
ListWhole ==
    loads = <<>> /\ ~timer /\ Quiet /\ ~behind =>
        LET all == Matching(None, search)
            ids == [i \in DOMAIN users |-> users[i].id]
            listed == Select(ids, ToSet(db))
        IN  IsPrefix(listed, all) /\ (cursor = None => listed = all)

(* Bans, roles and deletions happen only as the administrator confirmed them,
   though rows change under the question. *)
Agreed(kind, u) ==
    {handler[h] : h \in {g \in Handlers : IF handler[g] = Idle THEN FALSE
                            ELSE handler[g].agreed /\ handler[g].kind = kind /\ handler[g].user = u}}
OnlyAsConfirmed ==
    [][\A u \in ToSet(db) :
          /\ u \notin ToSet(db') => Agreed("delete", u) # {}
          /\ \A f \in Fields \ {"coins"} :
                row'[u][f] # row[u][f] =>
                    \E t \in Agreed("update", u) : t.field = f /\ t.to = row'[u][f]]_vars
=============================================================================
