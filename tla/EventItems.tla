----------------------------- MODULE EventItems -----------------------------
(***************************************************************************)
(* One event, its items with their drop rates, and the Redis copy of that  *)
(* list: backend/src/gacha/gacha-cache.service.ts read by pulls and event  *)
(* pages, backend/src/admin/admin-items.service.ts and                     *)
(* admin-events.service.ts writing.  The cache is keyed by event and no    *)
(* operation spans two events, so one event is the whole component.        *)
(*                                                                         *)
(* Every await is a step.  An administrator's write is check, then act,    *)
(* then delete the cached copy, with no transaction around it; a read that *)
(* misses queries the table and stores the answer, again step by step.     *)
(***************************************************************************)
EXTENDS Integers, FiniteSets, FiniteSetsExt

CONSTANTS
    Items,      \* ids the event's items may have
    Rates,      \* drop rates an administrator may enter, in percent
    Labels,     \* what else the list shows (names, rarities, images), as one value
    Readers,    \* requests that call getEventItems
    Admins,     \* requests of administrators
    MayFail,    \* whether requests may die between two steps
    NoItem,     \* the item of a task that is about the event itself
    Absent,     \* table entry of an id with no row
    Missing     \* cache with no entry

ASSUME RatesAssumption ==
    /\ IsFiniteSet(Items)
    /\ Rates \subseteq 0..100
    /\ NoItem \notin Items
    /\ Absent \notin Rates
    /\ Missing \notin [rate : [Items -> Rates \cup {Absent}], label : Labels]
    /\ MayFail \in BOOLEAN

VARIABLES
    exists,     \* the event has a row
    isActive,   \* its is_active
    ids,        \* item ids given out so far; a removed item's id never comes back
    rate,       \* the items of the event: rate[i], or Absent
    label,      \* their other columns
    cache,      \* event:<id>:items, a list once read from the table, or Missing
    reader,     \* how far each reader is, with the list it holds
    admin,      \* how far each administrator is, with what it was asked and read
    stranded,   \* history: the cached copy was left stale by a lost race or failure
    drifted     \* history: the totals went wrong by a raced check or a removal

vars == <<exists, isActive, ids, rate, label, cache, reader, admin, stranded, drifted>>

Rated == [Items -> Rates \cup {Absent}]
Lists == [rate : Rated, label : Labels]
Table == [rate |-> rate, label |-> label]
NoItems == [i \in Items |-> Absent]
Total(rates) == MapThenSumSet(LAMBDA i : rates[i], {i \in Items : rates[i] # Absent})

(* assertDropRatesEqual100 of a live event, assertDropRatesDoNotExceed100 of a
   draft. *)
InRange(rates, live) == IF live THEN Total(rates) = 100 ELSE Total(rates) <= 100

IdleReader == [step |-> "idle", list |-> Missing]
IdleAdmin == [step |-> "idle"]

RateOps == {"create", "update", "remove"}
EventOps == {"activate", "deactivate", "removeEvent"}
Task == [step : {"event", "siblings", "write", "invalidate"}, op : RateOps \cup {"relabel"} \cup EventOps,
         item : Items \cup {NoItem}, to : Rates \cup Labels \cup {Absent}, live : BOOLEAN, raced : BOOLEAN]

database == <<exists, isActive, ids, rate, label>>

-----------------------------------------------------------------------------
Init ==
    /\ exists = TRUE
    /\ isActive = FALSE
    /\ ids = {}
    /\ rate = NoItems
    /\ label \in Labels
    /\ cache = Missing
    /\ reader = [x \in Readers |-> IdleReader]
    /\ admin = [a \in Admins |-> IdleAdmin]
    /\ stranded = FALSE
    /\ drifted = FALSE

-----------------------------------------------------------------------------
(* getEventItems, called once the event was found to be active. *)

FindEvent(x) ==
    /\ reader[x].step = "idle"
    /\ exists /\ isActive
    /\ reader' = [reader EXCEPT ![x].step = "get"]
    /\ UNCHANGED <<database, cache, admin, stranded, drifted>>

GetCachedNull(x) ==  \* mutant: a miss taken for a hit
    /\ reader[x].step = "get"
    /\ reader' = [reader EXCEPT ![x] = [step |-> "return", list |-> cache]]
    /\ UNCHANGED <<database, cache, admin, stranded, drifted>>

(* redis.get: a hit is returned as it is, a miss goes to the table. *)
GetCached(x) ==
    /\ reader[x].step = "get"
    /\ reader' = [reader EXCEPT ![x] = IF cache = Missing
                                       THEN [step |-> "findMany", list |-> Missing]
                                       ELSE [step |-> "return", list |-> cache]]
    /\ UNCHANGED <<database, cache, admin, stranded, drifted>>

FindItems(x) ==
    /\ reader[x].step = "findMany"
    /\ reader' = [reader EXCEPT ![x] = [step |-> "set", list |-> Table]]
    /\ UNCHANGED <<database, cache, admin, stranded, drifted>>

(* redis.set stores what the table held when it was queried. *)
SetCached(x) ==
    /\ reader[x].step = "set"
    /\ cache' = reader[x].list
    /\ stranded' = (exists /\ reader[x].list # Table)
    /\ reader' = [reader EXCEPT ![x].step = "return"]
    /\ UNCHANGED <<database, admin, drifted>>

(* The caller goes on with the list: a pull refuses it when it is empty or its
   total is not 100, and draws from it otherwise. *)
Return(x) ==
    /\ reader[x].step = "return"
    /\ reader' = [reader EXCEPT ![x] = IdleReader]
    /\ UNCHANGED <<database, cache, admin, stranded, drifted>>

(* A Redis or database error, or the death of the process, ends the request. *)
ReaderFails(x) ==
    /\ MayFail
    /\ reader[x].step # "idle"
    /\ reader' = [reader EXCEPT ![x] = IdleReader]
    /\ UNCHANGED <<database, cache, admin, stranded, drifted>>

(* The backstop TTL. *)
Expire ==
    /\ cache # Missing
    /\ cache' = Missing
    /\ stranded' = FALSE
    /\ UNCHANGED <<database, reader, admin, drifted>>

-----------------------------------------------------------------------------
(* Administrators.  A task starts with what the request asks for; the row it
   is about is read first, and the request ends there when it is not found. *)

Start(a, op, i, v, step, live) ==
    /\ admin[a] = IdleAdmin
    /\ admin' = [admin EXCEPT ![a] = [step |-> step, op |-> op, item |-> i, to |-> v,
                                      live |-> live, raced |-> FALSE]]
    /\ UNCHANGED <<database, cache, reader, stranded, drifted>>

At(a, ops, step) == admin[a].step = step /\ admin[a].op \in ops

End(a) == admin' = [admin EXCEPT ![a] = IdleAdmin]

Reject(a) == End(a) /\ UNCHANGED <<database, cache, reader, stranded, drifted>>

Continue(a, step, live) ==
    /\ admin' = [admin EXCEPT ![a].step = step, ![a].live = live]
    /\ UNCHANGED <<database, cache, reader, stranded, drifted>>

(* POST /admin/events/:id/items, whose item will get a fresh id; PUT and
   DELETE /admin/items/:id, which find the item first.  An item that has been
   drawn is not removed, and GachaPull says how; here any item may be. *)
CreateItem(a, i, v) ==
    /\ i \notin ids
    /\ \A b \in Admins : admin[b] # IdleAdmin => admin[b].item # i
    /\ Start(a, "create", i, v, "event", FALSE)

UpdateItem(a, i, v) == rate[i] # Absent /\ Start(a, "update", i, v, "event", FALSE)

(* PUT without a drop rate checks nothing; a new image is stored the same way. *)
RelabelItem(a, i, v) == rate[i] # Absent /\ Start(a, "relabel", i, v, "write", FALSE)

RemoveItem(a, i) == rate[i] # Absent /\ Start(a, "remove", i, Absent, "write", FALSE)

(* The event is found, and with it whether it is live. *)
ReadEvent(a) ==
    /\ At(a, {"create", "update"}, "event")
    /\ IF exists THEN Continue(a, "siblings", isActive) ELSE Reject(a)

(* Over the siblings' rates and the new one. *)
CheckSiblings(a) ==
    /\ At(a, {"create", "update"}, "siblings")
    /\ IF InRange([rate EXCEPT ![admin[a].item] = admin[a].to], admin[a].live)
       THEN Continue(a, "write", admin[a].live)
       ELSE Reject(a)

CheckActivationAtMost(a) ==  \* mutant: an incomplete event may go live
    /\ At(a, {"activate"}, "siblings")
    /\ IF Total(rate) <= 100 THEN Continue(a, "write", FALSE) ELSE Reject(a)

(* The items of an event that goes live must total exactly 100. *)
CheckActivation(a) ==
    /\ At(a, {"activate"}, "siblings")
    /\ IF Total(rate) = 100 THEN Continue(a, "write", FALSE) ELSE Reject(a)

(* PUT /admin/events/:id with isActive: activation checks the items unless
   the event was already live when it was read. *)
SetActive(a, b) ==
    /\ exists
    /\ Start(a, IF b THEN "activate" ELSE "deactivate", NoItem, Absent,
             IF b /\ ~isActive THEN "siblings" ELSE "write", isActive)

(* DELETE /admin/events/:id. *)
RemoveEvent(a) == exists /\ Start(a, "removeEvent", NoItem, Absent, "write", FALSE)

-----------------------------------------------------------------------------
(* The writes. *)

(* What the checks are there to prevent. *)
OutOfRange == exists /\ ~InRange(rate, isActive)

(* A write invalidates what the other administrators have checked. *)
Mark(a, step) ==
    admin' = [b \in Admins |-> IF b = a
                               THEN IF step = "idle" THEN IdleAdmin
                                                     ELSE [admin[a] EXCEPT !.step = step]
                               ELSE IF admin[b] = IdleAdmin THEN IdleAdmin
                                                            ELSE [admin[b] EXCEPT !.raced = TRUE]]

Wrote(a, step, cause) ==
    /\ Mark(a, step)
    /\ drifted' = (OutOfRange' /\ (drifted \/ cause))
    /\ UNCHANGED <<cache, reader, stranded>>

(* The row the write is about must still be there; a new item needs its event. *)
WriteItem(a) ==
    /\ At(a, RateOps, "write")
    /\ LET t == admin[a]
           found == IF t.op = "create" THEN exists ELSE rate[t.item] # Absent
       IN  IF found
           THEN /\ rate' = [rate EXCEPT ![t.item] = t.to]
                /\ ids' = ids \cup {t.item}
                /\ UNCHANGED <<exists, isActive, label>>
                /\ Wrote(a, "invalidate", t.raced \/ t.op = "remove")
           ELSE Reject(a)

WriteLabel(a) ==
    /\ At(a, {"relabel"}, "write")
    /\ IF rate[admin[a].item] # Absent
       THEN /\ label' = admin[a].to
            /\ admin' = [admin EXCEPT ![a].step = "invalidate"]
            /\ UNCHANGED <<exists, isActive, ids, rate, cache, reader, stranded, drifted>>
       ELSE Reject(a)

WriteActive(a) ==
    /\ At(a, {"activate", "deactivate"}, "write")
    /\ IF exists
       THEN /\ isActive' = (admin[a].op = "activate")
            /\ UNCHANGED <<exists, ids, rate, label>>
            /\ Wrote(a, "invalidate", admin[a].raced)
       ELSE Reject(a)

(* The items cascade; the cached copy is left to its TTL. *)
WriteRemoval(a) ==
    /\ At(a, {"removeEvent"}, "write")
    /\ exists' = FALSE
    /\ isActive' = FALSE
    /\ rate' = NoItems
    /\ UNCHANGED <<ids, label>>
    /\ Wrote(a, "idle", FALSE)

InvalidateLive(a) ==  \* mutant: a draft's copy thought not to matter
    /\ admin[a].step = "invalidate"
    /\ cache' = IF isActive THEN Missing ELSE cache
    /\ stranded' = (stranded /\ ~isActive)
    /\ End(a)
    /\ UNCHANGED <<database, reader, drifted>>

Invalidate(a) ==
    /\ admin[a].step = "invalidate"
    /\ cache' = Missing
    /\ stranded' = FALSE
    /\ End(a)
    /\ UNCHANGED <<database, reader, drifted>>

(* The copy differs from the table. *)
Stale == exists /\ cache # Missing /\ cache # Table

(* The request dies, or redis.del fails: a write already done stays. *)
AdminFails(a) ==
    /\ MayFail
    /\ admin[a] # IdleAdmin
    /\ stranded' = (stranded \/ (admin[a].step = "invalidate" /\ Stale))
    /\ End(a)
    /\ UNCHANGED <<database, cache, reader, drifted>>

-----------------------------------------------------------------------------
Read(x) ==
    \/ FindEvent(x) \/ GetCached(x) \/ FindItems(x) \/ SetCached(x) \/ Return(x)
    \/ ReaderFails(x)

Administer(a) ==
    \/ \E i \in Items, v \in Rates : CreateItem(a, i, v) \/ UpdateItem(a, i, v)
    \/ \E i \in Items, v \in Labels : RelabelItem(a, i, v)
    \/ \E i \in Items : RemoveItem(a, i)
    \/ \E b \in BOOLEAN : SetActive(a, b)
    \/ RemoveEvent(a)
    \/ ReadEvent(a) \/ CheckSiblings(a) \/ CheckActivation(a)
    \/ WriteItem(a) \/ WriteLabel(a) \/ WriteActive(a)
    \/ WriteRemoval(a) \/ Invalidate(a) \/ AdminFails(a)

Next ==
    \/ \E x \in Readers : Read(x)
    \/ \E a \in Admins : Administer(a)
    \/ Expire

Spec == Init /\ [][Next]_vars

-----------------------------------------------------------------------------
(* Properties. *)

(* The table, the copy, the lists readers hold and the tasks of administrators
   stay in their ranges; a list is held from the moment it was read. *)
TypeOK ==
    /\ exists \in BOOLEAN /\ isActive \in BOOLEAN
    /\ ids \subseteq Items
    /\ rate \in Rated /\ label \in Labels
    /\ cache \in Lists \cup {Missing}
    /\ reader \in [Readers -> [step : {"idle", "get", "findMany"}, list : {Missing}]
                                \cup [step : {"set", "return"}, list : Lists]]
    /\ admin \in [Admins -> Task \cup {IdleAdmin}]
    /\ stranded \in BOOLEAN /\ drifted \in BOOLEAN

(* A copy that differs from the table is about to be deleted by the write that
   made it differ, unless a fill stored a list that was overtaken or a request
   failed between its write and its invalidation: no write path forgets. *)
StaleOnlyIfStranded ==
    Stale => stranded \/ \E a \in Admins : admin[a].step = "invalidate"

(* Totals go wrong (above 100, or not 100 while live) only by removing an item
   or by a check that another administrator's write has overtaken: each single
   check before a write is the right one. *)
TotalsDriftOnlyByRace == OutOfRange => drifted

(* README.md:373 of the repository: with invalidation on write the cache is
   either absent or exactly correct.  Asked only while no administrator is
   between two steps. *)
CacheExact == (\A a \in Admins : admin[a] = IdleAdmin) => ~Stale

(* README.md:371: item writes to an active event must keep the total exactly
   100, so a live event's odds are always well-defined.  Removals, which the
   README excepts, are those that make an id absent. *)
LiveWritesKeepTotal ==
    [][(isActive' /\ \E i \in Items : rate'[i] \notin {rate[i], Absent}) => Total(rate') = 100]_vars
=============================================================================
