------------------------------ MODULE GachaPage ------------------------------
(***************************************************************************)
(* The player's summon page: frontend-user/src/features/gacha/hooks/       *)
(* useGacha.ts with useRevealSequence.ts, and what app/gacha/page.tsx and  *)
(* components/RarityReveal.tsx let the player do in each state.            *)
(*                                                                         *)
(* The page starts requests and goes on; answers arrive in any order.  A   *)
(* pull's answer is held back while a reveal plays, a row of timers that   *)
(* React cleans up and restarts whenever its inputs change.  An effect is  *)
(* one step with the state change that triggers it; a timer is its own.    *)
(***************************************************************************)
EXTENDS Integers, Sequences, SequencesExt

CONSTANTS
    Events,        \* active events
    Linked,        \* the event of the ?eventId= link, or NoEvent
    Coins,         \* balance of the account when the page opens
    Cost,          \* PULL_COST
    DefaultCount,  \* MULTI_PULL_COUNT before the configuration arrives
    ServerCount,   \* and after
    Raws,          \* rarities of drawn items, each the set of tier words in its text
    Speeds,        \* SPEED_OPTIONS
    MaxLoads,      \* bound: unanswered requests for an event's items
    NoEvent, None

Tiers == <<"common", "rare", "legendary">>

ASSUME PageAssumption ==
    /\ Linked \in Events \cup {NoEvent} /\ NoEvent \notin Events
    /\ Coins \in Nat /\ Cost \in Nat \ {0} /\ MaxLoads \in Nat \ {0}
    /\ DefaultCount \in Nat \ {0} /\ ServerCount \in Nat \ {0}
    /\ Raws \subseteq SUBSET ToSet(Tiers) /\ 1 \in Speeds

VARIABLES
    place,         \* "checking", "page", or "login" once the page was left
    due,           \* initial requests not answered yet
    profile,       \* coins of the profile as displayed, or None before it arrives
    multiCount,    \* config.MULTI_PULL_COUNT
    events,        \* the list offered
    selected,      \* selectedEventId
    loads,         \* unanswered getEvent requests, oldest first
    items,         \* event whose items are displayed, or NoEvent
    skipAnimation, speed, reduced,
    call,          \* the pull in flight, with what its click captured; "pulling" is call # None
    error,
    pending,       \* the answer being revealed; "revealing" is pending # None
    result, multi, \* result and multiResult
    phase, timers, \* of the reveal: its phase, and the steps whose timer is set
    skip,          \* the Skip button of this reveal was pressed
    coins,         \* the account's balance at the server
    unheard,       \* history: the answer to the last served pull was lost
    overtaken      \* history: the items displayed came from a request that was not the newest

lists == <<due, multiCount, events, selected, loads, items, overtaken>>
settings == <<skipAnimation, speed, reduced>>
reveal == <<pending, phase, timers, skip>>
outcome == <<profile, result, multi>>
server == <<coins, unheard>>
vars == <<place, lists, settings, call, error, reveal, outcome, server>>

-----------------------------------------------------------------------------
(* matchRarity, normalizeRarity: the rarest tier named in the text, else common. *)
Tier(raw) ==
    LET named == {i \in 1..3 : Tiers[i] \in raw}
    IN  IF named = {} THEN Tiers[1] ELSE Tiers[CHOOSE i \in named : \A j \in named : j <= i]

Timeline ==
    [common    |-> <<"charging", "portal", "burst", "cardEmerge">>,
     rare      |-> <<"charging", "portal", "buildup", "flash", "burst", "cardEmerge">>,
     legendary |-> <<"charging", "portal", "freeze", "spark", "flash", "burst", "pillars", "cardEmerge">>]

Phases == (UNION {ToSet(Timeline[t]) : t \in DOMAIN Timeline}) \cup {"idle", "revealed"}

Answers == [kind : {"single", "multi"}, raw : Raws, coins : 0..Coins]

ASSUME NoneAssumption == None \notin Answers

Init ==
    /\ place = "checking"
    /\ due = {} /\ profile = None /\ multiCount = DefaultCount
    /\ events = {} /\ selected = NoEvent /\ loads = <<>> /\ items = NoEvent
    /\ skipAnimation = FALSE /\ speed = 1 /\ reduced \in BOOLEAN
    /\ call = None /\ error = FALSE
    /\ pending = None /\ result = None /\ multi = None
    /\ phase = "idle" /\ timers = {} /\ skip = FALSE
    /\ coins = Coins /\ unheard = FALSE /\ overtaken = FALSE

-----------------------------------------------------------------------------
(* Opening the page. *)

(* useRequireAuth: without a session the player is sent to /login. *)
Check(signedIn) ==
    /\ place = "checking"
    /\ place' = IF signedIn THEN "page" ELSE "login"
    /\ due' = IF signedIn THEN {"config", "profile", "events"} ELSE {}
    /\ UNCHANGED <<multiCount, events, selected, loads, items, overtaken, settings, call, error,
                   reveal, outcome, server>>

(* A failure keeps the defaults. *)
LoadConfig(ok) ==
    /\ place = "page" /\ "config" \in due
    /\ due' = due \ {"config"}
    /\ multiCount' = IF ok THEN ServerCount ELSE multiCount
    /\ UNCHANGED <<place, events, selected, loads, items, overtaken, settings, call, error,
                   reveal, outcome, server>>

(* A failure sends the player to /login. *)
RefreshProfile(ok) ==
    /\ place = "page" /\ "profile" \in due
    /\ due' = due \ {"profile"}
    /\ profile' = IF ok THEN coins ELSE None
    /\ place' = IF ok THEN place ELSE "login"
    /\ UNCHANGED <<multiCount, events, selected, loads, items, overtaken, settings, call, error,
                   reveal, result, multi, server>>

SelectOnce(e) ==  \* mutant: the effect does not depend on selectedEventId
    /\ selected' = e
    /\ loads' = IF selected = NoEvent THEN Append(loads, [event |-> e, newest |-> TRUE]) ELSE loads
    /\ UNCHANGED <<items, overtaken>>

(* setSelectedEventId and the effect on it: another request, the older ones
   neither cancelled nor ignored. *)
Select(e) ==
    /\ selected' = e
    /\ loads' = IF e = selected THEN loads
                ELSE Append([i \in DOMAIN loads |-> [loads[i] EXCEPT !.newest = FALSE]],
                            [event |-> e, newest |-> TRUE])
    /\ UNCHANGED <<items, overtaken>>

(* The linked event if it is listed, else the first. *)
LoadEvents(list) ==
    /\ place = "page" /\ "events" \in due
    /\ due' = due \ {"events"}
    /\ events' = list
    /\ IF list = {} THEN UNCHANGED <<selected, loads, items, overtaken>>
       ELSE \E e \in list : (Linked \in list => e = Linked) /\ Select(e)
    /\ UNCHANGED <<place, multiCount, settings, call, error, reveal, outcome, server>>

(* getEvent answers, or fails and empties the list. *)
ShowItems(i, ok) ==
    /\ place = "page"
    /\ items' = IF ok THEN loads[i].event ELSE NoEvent
    /\ overtaken' = ~loads[i].newest
    /\ loads' = RemoveAt(loads, i)
    /\ UNCHANGED <<place, due, multiCount, events, selected, settings, call, error, reveal, outcome, server>>

-----------------------------------------------------------------------------
(* The reveal. *)

(* What RarityReveal renders: the animation with its Skip button, or the card
   or grid with Continue. *)
RevealView == IF phase = "revealed" THEN "reward" ELSE "cinematic"

(* What the page renders. *)
View ==
    IF place # "page" \/ profile = None THEN "skeleton"
    ELSE IF pending = None THEN "page" ELSE RevealView

(* applySingle, applyMulti. *)
Apply(p) ==
    /\ profile' = p.coins
    /\ IF p.kind = "single" THEN result' = p /\ UNCHANGED multi ELSE multi' = p /\ UNCHANGED result

RunKeepingTimers(p, collapsed) ==  \* mutant: the effect without its cleanup
    IF collapsed
    THEN phase' = "revealed" /\ UNCHANGED timers /\ Apply(p)
    ELSE /\ phase' = Timeline[Tier(p.raw)][1]
         /\ timers' = DOMAIN Timeline[Tier(p.raw)]
         /\ UNCHANGED outcome

RunWithoutEnd(p, collapsed) ==  \* mutant: no timer for the last step
    IF collapsed
    THEN phase' = "revealed" /\ timers' = {} /\ Apply(p)
    ELSE /\ phase' = Timeline[Tier(p.raw)][1]
         /\ timers' = DOMAIN Tail(Timeline[Tier(p.raw)])
         /\ UNCHANGED outcome

(* The effect of useRevealSequence, after its cleanup: the old timers are
   cleared; the reveal collapses to its end or starts from the first phase. *)
RunSequence(p, collapsed) ==
    IF collapsed
    THEN phase' = "revealed" /\ timers' = {} /\ Apply(p)
    ELSE /\ phase' = Timeline[Tier(p.raw)][1]
         /\ timers' = DOMAIN Timeline[Tier(p.raw)]
         /\ UNCHANGED outcome

FireEarly ==  \* mutant: committed as the first phase ends
    /\ pending # None /\ timers # {}
    /\ LET steps == Timeline[Tier(pending.raw)]
           k == CHOOSE k \in timers : \A j \in timers : k <= j
       IN  /\ timers' = timers \ {k}
           /\ phase' = IF k < Len(steps) THEN steps[k + 1] ELSE "revealed"
           /\ Apply(pending)
    /\ UNCHANGED <<place, lists, settings, call, error, pending, skip, server>>

(* The timer that is due first, whatever the speed: on to the next phase, or
   to the reward with onComplete, commitReveal. *)
Fire ==
    /\ pending # None /\ timers # {}
    /\ LET steps == Timeline[Tier(pending.raw)]
           k == CHOOSE k \in timers : \A j \in timers : k <= j
       IN  /\ timers' = timers \ {k}
           /\ IF k < Len(steps) THEN phase' = steps[k + 1] /\ UNCHANGED outcome
              ELSE phase' = "revealed" /\ Apply(pending)
    /\ UNCHANGED <<place, lists, settings, call, error, pending, skip, server>>

Skip ==
    /\ View = "cinematic"
    /\ skip' = TRUE
    /\ RunSequence(pending, TRUE)
    /\ UNCHANGED <<place, lists, settings, call, error, pending, server>>

DismissAnyTime ==  \* mutant: Continue is offered during the reveal
    /\ pending # None
    /\ pending' = None /\ phase' = "idle" /\ timers' = {} /\ skip' = FALSE
    /\ UNCHANGED <<place, lists, settings, call, error, outcome, server>>

(* Continue, dismissReveal: the overlay unmounts. *)
Dismiss ==
    /\ View = "reward"
    /\ pending' = None /\ phase' = "idle" /\ timers' = {} /\ skip' = FALSE
    /\ UNCHANGED <<place, lists, settings, call, error, outcome, server>>

-----------------------------------------------------------------------------
(* Pulling. *)

Ready == View # "skeleton" /\ events # {}

BeginKeepsMulti ==  \* mutant: setMultiResult(null) forgotten
    error' = FALSE /\ result' = None /\ UNCHANGED <<multi, profile>>

(* beginPull, once a summon button is pressed. *)
Begin == error' = FALSE /\ result' = None /\ multi' = None /\ UNCHANGED profile

PullWhileRevealing(kind) ==  \* mutant: disabled={pulling}
    /\ Ready /\ call = None
    /\ selected # NoEvent
    /\ call' = [step |-> "sent", kind |-> kind, immediate |-> skipAnimation \/ reduced,
                amount |-> Cost * (IF kind = "multi" THEN multiCount ELSE 1)]
    /\ Begin
    /\ UNCHANGED <<place, lists, settings, reveal, server>>

(* pull and pullTen up to their await: the buttons are disabled while a pull is
   in flight or revealed, and what the closure captured is kept. *)
Pull(kind) ==
    /\ Ready /\ call = None /\ pending = None
    /\ selected # NoEvent
    /\ call' = [step |-> "sent", kind |-> kind, immediate |-> skipAnimation \/ reduced,
                amount |-> Cost * (IF kind = "multi" THEN multiCount ELSE 1)]
    /\ Begin
    /\ UNCHANGED <<place, lists, settings, reveal, server>>

(* The server takes the whole price, if the balance pays for it. *)
Serve ==
    /\ call # None /\ call.step = "sent" /\ call.amount <= coins
    /\ coins' = coins - call.amount
    /\ call' = [call EXCEPT !.step = "served"]
    /\ unheard' = TRUE
    /\ UNCHANGED <<place, lists, settings, error, reveal, outcome>>

(* The answer: shown at once, or revealed first. *)
Answer(raw) ==
    /\ place = "page" /\ call # None /\ call.step = "served"
    /\ LET p == [kind |-> call.kind, raw |-> raw, coins |-> coins]
       IN  IF call.immediate
           THEN Apply(p) /\ UNCHANGED reveal
           ELSE pending' = p /\ skip' = FALSE /\ RunSequence(p, reduced)
    /\ call' = None
    /\ unheard' = FALSE
    /\ UNCHANGED <<place, lists, settings, error, coins>>

FailNoFinally ==  \* mutant: setPulling(false) only after a success
    /\ place = "page" /\ call # None
    /\ error' = TRUE
    /\ UNCHANGED <<place, lists, settings, call, reveal, outcome, server>>

(* A refusal, or the request or its answer is lost. *)
Fail ==
    /\ place = "page" /\ call # None
    /\ error' = TRUE
    /\ call' = None
    /\ UNCHANGED <<place, lists, settings, reveal, outcome, server>>

-----------------------------------------------------------------------------
(* The controls stay on the page below the overlay and are never disabled. *)

ChooseEvent(e) ==
    /\ Ready /\ e \in events /\ e # selected
    /\ Len(loads) < MaxLoads
    /\ Select(e)
    /\ UNCHANGED <<place, due, multiCount, events, settings, call, error, reveal, outcome, server>>

ToggleSkip ==
    /\ Ready
    /\ skipAnimation' = ~skipAnimation
    /\ UNCHANGED <<place, lists, speed, reduced, call, error, reveal, outcome, server>>

(* A new speed or motion preference reruns the effect of a mounted reveal. *)
Rerun(collapsed) ==
    IF pending = None THEN UNCHANGED <<phase, timers, outcome>> ELSE RunSequence(pending, collapsed)

ChooseSpeed(s) ==
    /\ Ready /\ s # speed
    /\ speed' = s
    /\ Rerun(skip \/ reduced)
    /\ UNCHANGED <<place, lists, skipAnimation, reduced, call, error, pending, skip, server>>

ChangeMotion ==
    /\ place = "page"
    /\ reduced' = ~reduced
    /\ Rerun(skip \/ reduced')
    /\ UNCHANGED <<place, lists, skipAnimation, speed, call, error, pending, skip, server>>

(* Continue on the grid of a bulk pull. *)
ClearResults ==
    /\ Ready /\ View = "page" /\ multi # None
    /\ result' = None /\ multi' = None
    /\ UNCHANGED <<place, lists, settings, call, error, reveal, profile, server>>

-----------------------------------------------------------------------------
Next ==
    \/ \E ok \in BOOLEAN : Check(ok) \/ LoadConfig(ok) \/ RefreshProfile(ok)
    \/ \E list \in SUBSET Events : LoadEvents(list)
    \/ \E i \in DOMAIN loads, ok \in BOOLEAN : ShowItems(i, ok)
    \/ \E kind \in {"single", "multi"} : Pull(kind)
    \/ Serve \/ (\E raw \in Raws : Answer(raw)) \/ Fail
    \/ Fire \/ Skip \/ Dismiss \/ ClearResults
    \/ \E e \in Events : ChooseEvent(e)
    \/ ToggleSkip \/ ChangeMotion \/ \E s \in Speeds : ChooseSpeed(s)

Spec == Init /\ [][Next]_vars

(* A fetch is answered or fails, and a timer that is set fires. *)
FairSpec == Spec /\ WF_vars(Serve) /\ WF_vars((\E raw \in Raws : Answer(raw)) \/ Fail) /\ WF_vars(Fire)

-----------------------------------------------------------------------------
(* Properties. *)

(* The page's state stays in its ranges; timers are set only under an overlay
   that is not at its end; the page never shows an overlay while a pull is in
   flight. *)
TypeOK ==
    /\ place \in {"checking", "page", "login"}
    /\ due \subseteq {"config", "profile", "events"}
    /\ profile \in 0..Coins \cup {None}
    /\ multiCount \in {DefaultCount, ServerCount}
    /\ events \subseteq Events /\ selected \in events \cup {NoEvent}
    /\ loads \in BoundedSeq([event : Events, newest : BOOLEAN], MaxLoads)
    /\ items \in Events \cup {NoEvent}
    /\ skipAnimation \in BOOLEAN /\ speed \in Speeds /\ reduced \in BOOLEAN
    /\ call \in [step : {"sent", "served"}, kind : {"single", "multi"}, immediate : BOOLEAN,
                 amount : Nat] \cup {None}
    /\ error \in BOOLEAN
    /\ pending \in Answers \cup {None} /\ result \in Answers \cup {None} /\ multi \in Answers \cup {None}
    /\ phase \in Phases /\ timers \subseteq 1..8 /\ skip \in BOOLEAN
    /\ pending = None <=> phase = "idle"
    /\ (timers # {}) => phase \notin {"idle", "revealed"}
    /\ call = None \/ pending = None
    /\ coins \in 0..Coins /\ unheard \in BOOLEAN /\ overtaken \in BOOLEAN

(* The page shows one outcome: an error, a single result or a grid, never what
   is left of an earlier pull beside the last one's. *)
OneOutcome ==
    /\ ~(error /\ (result # None \/ multi # None))
    /\ ~(result # None /\ multi # None)

(* At rest, with no pull in flight and no reveal on screen, the coins displayed
   are the account's, unless the last charge was never heard of: no way out of
   a reveal (end, Skip, reduced motion, a restart) loses the commit. *)
CoinsCurrentAtRest ==
    profile # None /\ call = None /\ pending = None => profile = coins \/ unheard

(* Whoever reaches the reward has it: it is on screen until the player goes on,
   unless the speed or motion setting restarts the reveal.  In particular no
   timer of the sequence that was skipped takes it away. *)
RewardStays ==
    [][phase = "revealed" /\ UNCHANGED <<speed, reduced>> => phase' = "revealed" \/ pending' = None]_vars

(* README.md:1047, second half: the outcome of a pull, and with it the new
   balance, is never displayed before the reveal has ended or been skipped. *)
NoSpoiler ==
    [][profile # None /\ outcome' # outcome /\ (result' # None \/ multi' # None)
         => phase' = "revealed" \/ pending' = None]_vars

(* The items displayed are those of the selected event, except while they are
   being asked for or when an older request was answered last. *)
ItemsMatchUnlessOvertaken ==
    items \notin {NoEvent, selected} => overtaken \/ \E i \in DOMAIN loads : loads[i].newest

(* A pull that was started ends, with its answer or an error, and the buttons
   come back. *)
PullingEnds == call # None ~> call = None \/ place = "login"

(* Once the settings stay as they are, a reveal reaches its reward. *)
RevealEnds == <>[][FALSE]_<<speed, reduced>> => (pending # None ~> phase = "revealed")
=============================================================================
