---------------------------- MODULE AuthSession -----------------------------
(***************************************************************************)
(* One account's session: the rotating refresh token the server keeps      *)
(* (backend/src/auth) and the browser that uses it (frontend-user/src/lib),*)
(* whose tabs share one localStorage and have one refresh in flight each.  *)
(*                                                                         *)
(* An access token and the refresh secret issued with it are one pair,     *)
(* numbered in the order the server stores them; 0 is no pair.  The        *)
(* server's handlers read the user's row, work on that copy, and write in  *)
(* a later step.  A call that is answered 401 waits for its tab's refresh  *)
(* and is sent once more; the refresh is known by the call that began it.  *)
(***************************************************************************)
EXTENDS Integers, FiniteSets

CONSTANTS
    Tabs,           \* tabs of the browser, each with its module-level promise
    Calls,          \* apiFetch calls to endpoints that need the access token
    TabOf,          \* TabOf[c]: the tab that makes call c
    Logins,         \* logins, in this browser or elsewhere
    None            \* no refresh in flight

ASSUME SessionAssumption ==
    /\ TabOf \in [Calls -> Tabs]
    /\ IsFiniteSet(Calls) /\ IsFiniteSet(Logins)
    /\ Calls \cap Logins = {}
    /\ None \notin Calls

VARIABLES
    account,        \* "open", "banned" or "deleted"
    stored,         \* the pair whose secret's hash the users row holds
    lapsed,         \* its expiry date has passed
    minted,         \* pairs issued so far
    expired,        \* pairs whose access token has expired
    retired,        \* history: pairs a refresh has exchanged for another
    handler,        \* POST /auth/refresh and /auth/login in the server
    logout,         \* a POST /auth/logout admitted by the guard
    session,        \* the pair in localStorage
    flight,         \* refreshInFlight of each tab
    call            \* how far each call is, and how often it took effect

server == <<account, stored, lapsed, minted, expired, retired>>
vars == <<server, handler, logout, session, flight, call>>

Pairs == 0..(1 + Cardinality(Calls) + Cardinality(Logins))
Ended == {"ok", "error"}

Accepts(pair) == account = "open" /\ pair # 0 /\ pair \notin expired

Reach(h, step) == handler' = [handler EXCEPT ![h].step = step]

-----------------------------------------------------------------------------
(* The browser has just logged in; its access token may have expired since. *)
Init ==
    /\ account = "open"
    /\ stored = 1 /\ minted = 1 /\ session = 1
    /\ lapsed = FALSE
    /\ expired \in SUBSET {1}
    /\ retired = {}
    /\ handler = [h \in Calls \cup Logins |-> [step |-> "idle", shown |-> 0, given |-> 0]]
    /\ logout = FALSE
    /\ flight = [t \in Tabs |-> None]
    /\ call = [c \in Calls |-> [step |-> "idle", bearer |-> 0, effects |-> 0]]

-----------------------------------------------------------------------------
(* The server. *)

(* login: the row is read and its password and ban are checked. *)
Login(l) ==
    /\ handler[l].step = "idle"
    /\ account = "open"
    /\ Reach(l, "issuing")
    /\ UNCHANGED <<server, logout, session, flight, call>>

(* refresh: every check is of the row as it was read. *)
CheckRefresh(c) ==
    /\ handler[c].step = "received"
    /\ Reach(c, IF account = "open" /\ ~lapsed /\ stored = handler[c].shown
                THEN "issuing" ELSE "refused")
    /\ UNCHANGED <<server, logout, session, flight, call>>

IssueUnrotated(h) ==  \* mutant: a refresh leaves the stored secret as it is
    /\ handler[h].step = "issuing"
    /\ minted' = minted + 1
    /\ stored' = IF h \in Calls THEN stored ELSE minted + 1
    /\ lapsed' = FALSE
    /\ retired' = retired \cup ({handler[h].shown} \ {0})
    /\ handler' = [handler EXCEPT ![h].step = "answered", ![h].given = minted + 1]
    /\ UNCHANGED <<account, expired, logout, session, flight, call>>

(* issueTokens overwrites what the row holds by now, whatever that is; on a
   deleted row the update fails. *)
Issue(h) ==
    /\ handler[h].step = "issuing"
    /\ IF account = "deleted"
       THEN Reach(h, "refused") /\ UNCHANGED <<minted, stored, lapsed, retired>>
       ELSE /\ minted' = minted + 1
            /\ stored' = minted + 1
            /\ lapsed' = FALSE
            /\ retired' = retired \cup ({handler[h].shown} \ {0})
            /\ handler' = [handler EXCEPT ![h].step = "answered",
                                          ![h].given = minted + 1]
    /\ UNCHANGED <<account, expired, logout, session, flight, call>>

(* The database or the process fails before the write. *)
HandlerFails(h) ==
    /\ handler[h].step \in {"received", "issuing"}
    /\ Reach(h, "refused")
    /\ UNCHANGED <<server, logout, session, flight, call>>

(* POST /auth/logout: the guard admits the bearer, then the row is cleared. *)
AdmitLogout ==
    /\ \E pair \in 1..minted : Accepts(pair)
    /\ logout' = TRUE
    /\ UNCHANGED <<server, handler, session, flight, call>>

Logout ==
    /\ logout
    /\ logout' = FALSE
    /\ stored' = IF account = "deleted" THEN stored ELSE 0
    /\ UNCHANGED <<account, lapsed, minted, expired, retired, handler, session, flight, call>>

(* PUT and DELETE /admin/users/:id. *)
SetAccount(to) ==
    /\ account # "deleted"
    /\ account' = to
    /\ UNCHANGED <<stored, lapsed, minted, expired, retired, handler, logout, session, flight, call>>

(* Time passes. *)
ExpireToken(pair) ==
    /\ expired' = expired \cup {pair}
    /\ UNCHANGED <<account, stored, lapsed, minted, retired, handler, logout, session, flight, call>>

Lapse ==
    /\ stored # 0
    /\ lapsed' = TRUE
    /\ UNCHANGED <<account, stored, minted, expired, retired, handler, logout, session, flight, call>>

-----------------------------------------------------------------------------
(* The browser. *)

(* saveSession after a login in this browser; or the login was another's. *)
TakeLogin(l) ==
    /\ handler[l].step = "answered"
    /\ session' \in {session, handler[l].given}
    /\ Reach(l, "done")
    /\ UNCHANGED <<server, logout, flight, call>>

(* The sign-out of the navigation bar only clears localStorage. *)
SignOut ==
    /\ session' = 0
    /\ UNCHANGED <<server, handler, logout, flight, call>>

Send(c) ==
    /\ call[c].step = "idle"
    /\ call' = [call EXCEPT ![c].step = "sent", ![c].bearer = session]
    /\ UNCHANGED <<server, handler, logout, session, flight>>

ServeUncounted(c) ==  \* mutant: the retrying flag is not passed on
    /\ call[c].step \in {"sent", "resent"}
    /\ IF Accepts(call[c].bearer)
       THEN call' = [call EXCEPT ![c].step = "ok", ![c].effects = @ + 1]
       ELSE call' = [call EXCEPT ![c].step = "unauthorized"]
    /\ UNCHANGED <<server, handler, logout, session, flight>>

(* JwtStrategy.validate, and the handler behind the guard when it passes. *)
Serve(c) ==
    /\ call[c].step \in {"sent", "resent"}
    /\ IF Accepts(call[c].bearer)
       THEN call' = [call EXCEPT ![c].step = "ok", ![c].effects = @ + 1]
       ELSE call' = [call EXCEPT ![c].step = IF @ = "sent" THEN "unauthorized" ELSE "error"]
    /\ UNCHANGED <<server, handler, logout, session, flight>>

LoseAndRetry(c) ==  \* mutant: a lost answer is treated like a 401
    /\ call[c].step \in {"sent", "resent", "ok"}
    /\ call' = [call EXCEPT ![c].step = "unauthorized"]
    /\ UNCHANGED <<server, handler, logout, session, flight>>

(* fetch throws: the request or its answer was lost. *)
Lose(c) ==
    /\ call[c].step \in {"sent", "resent", "ok"}
    /\ call' = [call EXCEPT ![c].step = "error"]
    /\ UNCHANGED <<server, handler, logout, session, flight>>

Await(c, starts) ==
    /\ call' = [call EXCEPT ![c].step = "waiting"]
    /\ IF starts
       THEN /\ flight' = [flight EXCEPT ![TabOf[c]] = c]
            /\ handler' = [handler EXCEPT ![c].step = "received", ![c].shown = session]
       ELSE UNCHANGED <<flight, handler>>
    /\ UNCHANGED <<server, logout, session>>

GiveUp(c) ==
    /\ call' = [call EXCEPT ![c].step = "error"]
    /\ UNCHANGED <<server, handler, logout, session, flight>>

HandleEachAlone(c) ==  \* mutant: every 401 starts a refresh of its own
    /\ call[c].step = "unauthorized"
    /\ IF session # 0 THEN Await(c, TRUE) ELSE GiveUp(c)

(* A 401 joins the tab's refresh, which it starts when none is in flight. *)
Handle(c) ==
    /\ call[c].step = "unauthorized"
    /\ IF session # 0 THEN Await(c, flight[TabOf[c]] = None) ELSE GiveUp(c)

SettleFirst(t, pair) ==  \* mutant: only the call that began the refresh hears of it
    /\ session' = pair
    /\ flight' = [flight EXCEPT ![t] = None]
    /\ call' = [call EXCEPT ![flight[t]] = IF pair = 0 THEN [@ EXCEPT !.step = "error"]
                  ELSE [@ EXCEPT !.step = "resent", !.bearer = pair]]
    /\ UNCHANGED <<server, logout>>

(* The tab's refresh ends and with it, before anything else runs in the tab,
   the waiting of its calls: they are sent again with what was stored, or fail
   and clear the session, whichever session that is by now. *)
Settle(t, pair) ==
    /\ session' = pair
    /\ flight' = [flight EXCEPT ![t] = None]
    /\ call' = [c \in Calls |->
                  IF TabOf[c] # t \/ call[c].step # "waiting" THEN call[c]
                  ELSE IF pair = 0 THEN [call[c] EXCEPT !.step = "error"]
                  ELSE [call[c] EXCEPT !.step = "resent", !.bearer = pair]]
    /\ UNCHANGED <<server, logout>>

Refreshed(t) ==
    /\ flight[t] # None
    /\ handler[flight[t]].step = "answered"
    /\ Settle(t, handler[flight[t]].given)
    /\ Reach(flight[t], "done")

RefreshRefused(t) ==
    /\ flight[t] # None
    /\ handler[flight[t]].step = "refused"
    /\ Settle(t, 0)
    /\ UNCHANGED handler

(* The connection breaks; the handler in the server goes on by itself. *)
RefreshLost(t) ==
    /\ flight[t] # None
    /\ Settle(t, 0)
    /\ UNCHANGED handler

-----------------------------------------------------------------------------
Answer(c) == CheckRefresh(c) \/ Issue(c) \/ HandlerFails(c)
Resume(t) == Refreshed(t) \/ RefreshRefused(t) \/ RefreshLost(t)

Next ==
    \/ \E c \in Calls : Send(c) \/ Serve(c) \/ Lose(c) \/ Handle(c) \/ Answer(c)
    \/ \E t \in Tabs : Resume(t)
    \/ \E l \in Logins : Login(l) \/ Issue(l) \/ HandlerFails(l) \/ TakeLogin(l)
    \/ \E to \in {"open", "banned", "deleted"} : SetAccount(to)
    \/ \E pair \in 1..minted : ExpireToken(pair)
    \/ AdmitLogout \/ Logout \/ Lapse \/ SignOut

Spec == Init /\ [][Next]_vars

-----------------------------------------------------------------------------
(* Properties. *)

(* The users row, the handlers, localStorage and the calls stay in range. *)
TypeOK ==
    /\ account \in {"open", "banned", "deleted"}
    /\ stored \in Pairs /\ session \in Pairs /\ minted \in Pairs
    /\ lapsed \in BOOLEAN /\ logout \in BOOLEAN
    /\ expired \subseteq 1..minted
    /\ retired \subseteq 1..minted
    /\ handler \in [Calls \cup Logins ->
         [step : {"idle", "received", "issuing", "answered", "refused", "done"},
          shown : Pairs, given : Pairs]]
    /\ flight \in [Tabs -> Calls \cup {None}]
    /\ call \in [Calls ->
         [step : {"idle", "sent", "unauthorized", "waiting", "resent"} \cup Ended,
          bearer : Pairs, effects : Nat]]

(* Once a refresh has exchanged a secret the row never holds it again, however
   late another handler writes what it decided on an older copy of the row. *)
RetiredStaysOut == stored \notin retired

(* README.md:548 of the repository: a previously-presented refresh token can
   never be reused; no secret is exchanged for new tokens twice.  It rests on
   the tab's single refresh in flight, not on the server. *)
ExchangedOnce ==
    [][\A c \in Calls :
         handler[c].step = "issuing" /\ handler'[c].step = "answered"
             => handler[c].shown \notin retired]_vars

(* The replay after a refresh never repeats what the first attempt did: a pull
   behind apiFetch is charged at most once. *)
EffectOnce == \A c \in Calls : call[c].effects <= 1

(* A call never waits for a refresh that nobody runs: the refresh of its tab is
   in flight, the call that began it waits as well, and its request is in the
   server or has come back.  Failures, other calls' refreshes and a sign-out
   in between leave none behind. *)
NoneStranded ==
    \A c \in Calls :
        call[c].step = "waiting" =>
            \E r \in Calls : /\ flight[TabOf[c]] = r /\ TabOf[r] = TabOf[c]
                             /\ call[r].step = "waiting"
                             /\ handler[r].step \in {"received", "issuing", "answered", "refused"}
=============================================================================
