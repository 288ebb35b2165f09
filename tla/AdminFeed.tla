------------------------------ MODULE AdminFeed ------------------------------
(***************************************************************************)
(* The administrator's live feed of pulls: from the emission after a       *)
(* commit in backend/src/gacha/gacha.service.ts, through the queue, its    *)
(* worker and the subject of backend/src/queue, over the stream of         *)
(* admin-history.controller.ts, to the list that                           *)
(* frontend-admin/src/features/history/hooks/useHistoryFeed.ts shows.      *)
(*                                                                         *)
(* The queue is in Redis and survives the process; emissions under way,    *)
(* subject and streams do not.  The page has one EventSource, which        *)
(* connects again by itself, with the token it was opened with.            *)
(***************************************************************************)
EXTENDS Integers, Sequences, FiniteSets, SequencesExt

CONSTANTS
    Draws,       \* draws of all pulls
    PullOf,      \* the pull each is a draw of
    MaxLive,     \* length of the list displayed
    MaxCrashes,  \* bound: crashes of the backend
    MaxBreaks,   \* bound: connections lost otherwise
    None

ASSUME FeedAssumption ==
    /\ IsFiniteSet(Draws) /\ None \notin [draw : Draws, published : BOOLEAN]
    /\ MaxLive \in Nat \ {0} /\ MaxCrashes \in Nat /\ MaxBreaks \in Nat

VARIABLES
    rows,       \* draws in the history
    emit,       \* of these, the ones whose emission is under way in the process
    queue,      \* jobs waiting, the next one first
    active,     \* the job of the worker, and whether it was published
    orphans,    \* jobs whose worker died
    stalled,    \* jobs that were an orphan once
    valid,      \* the token in the stream's URL has not expired
    admin,      \* the account is an administrator's and not banned
    es,         \* the EventSource with its request; "closed" after a refusal, "failed"
                \* after another error, both for good
    wire,       \* messages sent on the open connection
    live,       \* the list displayed, newest first
    shown,      \* history: draws displayed so far
    missed,     \* history: draws whose announcement was lost, or published to nobody
    crashes, breaks

jobs == <<emit, queue, active, orphans, stalled>>
account == <<valid, admin>>
display == <<live, shown>>
vars == <<rows, jobs, account, es, wire, display, missed, crashes, breaks>>

Pulls == {PullOf[d] : d \in Draws}
DrawsOf(p) == {d \in Draws : PullOf[d] = p}

-----------------------------------------------------------------------------
Init ==
    /\ rows = {} /\ emit = {}
    /\ queue = <<>> /\ active = None /\ orphans = {} /\ stalled = {}
    /\ valid = TRUE /\ admin = TRUE
    /\ es = "connecting" /\ wire = <<>>
    /\ live = <<>> /\ shown = {} /\ missed = {}
    /\ crashes = 0 /\ breaks = 0

-----------------------------------------------------------------------------
(* Emission and queue. *)

(* After the commit every draw is emitted, all at once. *)
Pull(p) ==
    /\ DrawsOf(p) \cap rows = {}
    /\ rows' = rows \cup DrawsOf(p)
    /\ emit' = emit \cup DrawsOf(p)
    /\ UNCHANGED <<queue, active, orphans, stalled, account, es, wire, display, missed, crashes, breaks>>

EmitAgain(d) ==  \* mutant: emitted once more after it succeeded
    /\ d \in emit
    /\ queue' = Append(queue, d)
    /\ UNCHANGED <<rows, emit, active, orphans, stalled, account, es, wire, display, missed, crashes, breaks>>

Emit(d) ==
    /\ d \in emit
    /\ emit' = emit \ {d}
    /\ queue' = Append(queue, d)
    /\ UNCHANGED <<rows, active, orphans, stalled, account, es, wire, display, missed, crashes, breaks>>

(* The error is logged and nothing is tried again. *)
EmitFails(d) ==
    /\ d \in emit
    /\ emit' = emit \ {d}
    /\ missed' = missed \cup {d}
    /\ UNCHANGED <<rows, queue, active, orphans, stalled, account, es, wire, display, crashes, breaks>>

(* The worker takes one job at a time; its rate limit only delays it. *)
Take ==
    /\ active = None /\ queue # <<>>
    /\ active' = [draw |-> Head(queue), published |-> FALSE]
    /\ queue' = Tail(queue)
    /\ UNCHANGED <<rows, emit, orphans, stalled, account, es, wire, display, missed, crashes, breaks>>

PublishTwice ==  \* mutant: processed again when the job completes
    /\ active # None
    /\ active' = IF active.published THEN None ELSE [active EXCEPT !.published = TRUE]
    /\ IF es = "open" THEN wire' = Append(wire, active.draw) /\ UNCHANGED missed
       ELSE missed' = missed \cup {active.draw} /\ UNCHANGED wire
    /\ UNCHANGED <<rows, emit, queue, orphans, stalled, account, es, display, crashes, breaks>>

(* process: to whoever is subscribed now. *)
Publish ==
    /\ active # None /\ ~active.published
    /\ active' = [active EXCEPT !.published = TRUE]
    /\ IF es = "open" THEN wire' = Append(wire, active.draw) /\ UNCHANGED missed
       ELSE missed' = missed \cup {active.draw} /\ UNCHANGED wire
    /\ UNCHANGED <<rows, emit, queue, orphans, stalled, account, es, display, crashes, breaks>>

Complete ==
    /\ active # None /\ active.published
    /\ active' = None
    /\ UNCHANGED <<rows, emit, queue, orphans, stalled, account, es, wire, display, missed, crashes, breaks>>

(* BullMQ finds a job without a worker and lets it run once more, next; a job
   it finds so again has failed. *)
Recover(d) ==
    /\ d \in orphans
    /\ orphans' = orphans \ {d}
    /\ stalled' = stalled \cup {d}
    /\ IF d \in stalled THEN missed' = missed \cup {d} /\ UNCHANGED queue
       ELSE queue' = <<d>> \o queue /\ UNCHANGED missed
    /\ UNCHANGED <<rows, emit, active, account, es, wire, display, crashes, breaks>>

-----------------------------------------------------------------------------
(* The stream. *)

(* The token, and the account as it is now. *)
Admit ==
    /\ es = "connecting" /\ valid /\ admin
    /\ es' = "admitted"
    /\ UNCHANGED <<rows, jobs, account, wire, display, missed, crashes, breaks>>

(* After any answer but 200 an EventSource is closed for good: a refusal ... *)
Refuse ==
    /\ es = "connecting" /\ ~(valid /\ admin)
    /\ es' = "closed"
    /\ UNCHANGED <<rows, jobs, account, wire, display, missed, crashes, breaks>>

(* ... or an error, whoever asks: the account cannot be looked up. *)
RequestFails ==
    /\ es = "connecting"
    /\ es' = "failed"
    /\ UNCHANGED <<rows, jobs, account, wire, display, missed, crashes, breaks>>

(* Nest subscribes to what stream() returned; nothing earlier is replayed. *)
Subscribe ==
    /\ es = "admitted"
    /\ es' = "open"
    /\ UNCHANGED <<rows, jobs, account, wire, display, missed, crashes, breaks>>

(* The listener for "pull". *)
Deliver ==
    /\ wire # <<>>
    /\ LET all == <<Head(wire)>> \o live
       IN  live' = SubSeq(all, 1, IF Len(all) < MaxLive THEN Len(all) ELSE MaxLive)
    /\ shown' = shown \cup {Head(wire)}
    /\ wire' = Tail(wire)
    /\ UNCHANGED <<rows, jobs, account, es, missed, crashes, breaks>>

Connected == es \in {"connecting", "admitted", "open"}

DisconnectClosing ==  \* mutant: onerror closes the EventSource
    /\ es' = IF Connected THEN "closed" ELSE es
    /\ wire' = <<>>

(* The request fails or the connection breaks, with what was sent on it. *)
Disconnect ==
    /\ es' = IF Connected THEN "waiting" ELSE es
    /\ wire' = <<>>

Break ==
    /\ Connected /\ breaks < MaxBreaks
    /\ breaks' = breaks + 1
    /\ Disconnect
    /\ missed' = missed \cup ToSet(wire)
    /\ UNCHANGED <<rows, jobs, account, display, crashes>>

Reconnect ==
    /\ es = "waiting"
    /\ es' = "connecting"
    /\ UNCHANGED <<rows, jobs, account, wire, display, missed, crashes, breaks>>

-----------------------------------------------------------------------------
(* The world. *)

CrashRemoving ==  \* mutant: a job is removed when it is taken
    /\ crashes < MaxCrashes
    /\ crashes' = crashes + 1
    /\ Disconnect
    /\ missed' = missed \cup emit \cup ToSet(wire)
    /\ emit' = {} /\ active' = None
    /\ UNCHANGED <<rows, queue, orphans, stalled, account, display, breaks>>

(* The backend dies and starts again: emissions, subject and streams are gone,
   the worker's job is left behind. *)
Crash ==
    /\ crashes < MaxCrashes
    /\ crashes' = crashes + 1
    /\ Disconnect
    /\ missed' = missed \cup emit \cup ToSet(wire)
    /\ emit' = {} /\ active' = None
    /\ orphans' = IF active = None THEN orphans ELSE orphans \cup {active.draw}
    /\ UNCHANGED <<rows, queue, stalled, account, display, breaks>>

Expire ==
    /\ valid /\ valid' = FALSE
    /\ UNCHANGED <<rows, jobs, admin, es, wire, display, missed, crashes, breaks>>

(* Ban and demotion, and their reversal. *)
SetAdmin ==
    /\ admin' = ~admin
    /\ UNCHANGED <<rows, jobs, valid, es, wire, display, missed, crashes, breaks>>

Worker == Take \/ Publish \/ Complete

Next ==
    \/ \E p \in Pulls : Pull(p)
    \/ \E d \in Draws : Emit(d) \/ EmitFails(d) \/ Recover(d)
    \/ Worker
    \/ Admit \/ Refuse \/ RequestFails \/ Subscribe \/ Deliver \/ Break \/ Reconnect
    \/ Crash \/ Expire \/ SetAdmin

Spec == Init /\ [][Next]_vars

(* Redis answers, the worker runs, BullMQ looks for stalled jobs, what is on
   the connection arrives or is lost, a request is answered in some way, and the
   browser connects again. *)
FairSpec ==
    /\ Spec
    /\ \A d \in Draws : WF_vars(Emit(d) \/ EmitFails(d)) /\ WF_vars(Recover(d))
    /\ WF_vars(Worker) /\ WF_vars(Deliver)
    /\ WF_vars(Admit \/ Refuse \/ RequestFails) /\ WF_vars(Subscribe) /\ WF_vars(Reconnect)

-----------------------------------------------------------------------------
(* Properties. *)

(* Queue, stream and list keep their types; each draw is in one place of the
   pipeline at a time, messages are only on an open connection, and what is
   announced is in the history. *)
TypeOK ==
    /\ rows \subseteq Draws /\ emit \subseteq rows /\ orphans \subseteq rows /\ stalled \subseteq rows
    /\ queue \in Seq(rows) /\ IsInjective(queue)
    /\ active # None => /\ active \in [draw : rows, published : BOOLEAN]
                        /\ active.draw \notin emit \cup ToSet(queue) \cup orphans
    /\ emit \cap ToSet(queue) = {} /\ orphans \cap (emit \cup ToSet(queue)) = {}
    /\ valid \in BOOLEAN /\ admin \in BOOLEAN
    /\ es \in {"connecting", "admitted", "open", "waiting", "closed", "failed"}
    /\ wire \in Seq(rows) /\ (es # "open" => wire = <<>>)
    /\ live \in Seq(shown) /\ Len(live) <= MaxLive
    /\ shown \subseteq rows /\ missed \subseteq rows
    /\ crashes \in 0..MaxCrashes /\ breaks \in 0..MaxBreaks

(* A draw is listed twice only if the backend died while its job ran: a page
   that reconnects is not sent again what it has. *)
RepeatedOnlyIfStalled ==
    \A i, j \in DOMAIN live : i # j /\ live[i] = live[j] => live[i] \in stalled

(* README.md:375, the feed side: every pull in the history reaches the list
   in the end, unless its emission or the connection failed, nobody listened
   when it was published, or the backend died under its job twice. *)
PullsReachFeed == \A d \in Draws : d \in rows ~> d \in shown \cup missed

(* README.md:1023, the browser's reconnection: a stream that is not open, on
   its way or lost with its connection, opens again, unless it is refused for
   its token or its account or its request is answered with an error. *)
StreamReturns ==
    es \notin {"open", "closed", "failed"} ~> es \in {"open", "failed"} \/ ~valid \/ ~admin
=============================================================================
