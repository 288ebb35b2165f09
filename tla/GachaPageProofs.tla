--------------------------- MODULE GachaPageProofs ---------------------------
(***************************************************************************)
(* Proofs about GachaPage, for any events, prices, speeds and rarities and *)
(* any number of requests for items.  They follow a pull from its click to *)
(* the end of its reveal: while it is in flight nothing of an earlier pull *)
(* is displayed, and while it is revealed its answer has the balance.      *)
(***************************************************************************)
EXTENDS GachaPage, SequenceTheorems, TLAPS

Loads == [event : Events, newest : BOOLEAN]

(* What has not been answered has had no effect. *)
Fresh == events = {} /\ selected = NoEvent /\ loads = <<>>
Unknown == profile = None /\ call = None /\ pending = None
Opening ==
    /\ place = "checking" => due = {} /\ Unknown /\ Fresh
    /\ "profile" \in due => Unknown
    /\ "events" \in due => Fresh

(* The newest request is for the event selected. *)
NewestIsSelected == \A i \in 1..Len(loads) : loads[i].newest => loads[i].event = selected

(* While a pull is in flight, no outcome is displayed; once it was charged, the
   charge is unheard of. *)
InFlight ==
    call # None =>
        /\ result = None /\ multi = None /\ ~error
        /\ call.step = "served" => unheard

(* Only the outcome p is displayed, if any. *)
ShowsOnly(p) ==
    /\ result \in {None, p} /\ multi \in {None, p}
    /\ p.kind = "single" => multi = None
    /\ p.kind # "single" => result = None

(* A reveal holds the balance, and displays it once it has ended. *)
Revealing ==
    /\ pending = None => timers = {}
    /\ pending # None =>
           /\ timers \subseteq DOMAIN Timeline[Tier(pending.raw)]
           /\ pending.coins = coins /\ ~error /\ ShowsOnly(pending)
           /\ phase = "revealed" => profile \in {coins, None}

(* Without a reveal the balance displayed is right or its change unheard of. *)
Balance == profile # None /\ pending = None => profile = coins \/ unheard

IInv ==
    /\ TypeOK /\ Opening /\ NewestIsSelected /\ InFlight /\ Revealing /\ Balance
    /\ OneOutcome /\ ItemsMatchUnlessOvertaken

-----------------------------------------------------------------------------
(* Sequences. *)

(* A bounded sequence is a sequence of at most that length. *)
LEMMA Bounded ==
    ASSUME NEW S, NEW n \in Nat, NEW s
    PROVE  s \in BoundedSeq(S, n) <=> s \in Seq(S) /\ Len(s) <= n
<1>1. ASSUME s \in BoundedSeq(S, n) PROVE s \in Seq(S) /\ Len(s) <= n
  <2>1. PICK m \in 0..n : s \in [1..m -> S]
    BY <1>1 DEF BoundedSeq, SeqOf
  <2>2. s \in Seq(S)
    BY <2>1, SeqDef
  <2>3. DOMAIN s = 1..m /\ DOMAIN s = 1..Len(s) /\ Len(s) \in Nat
    BY <2>1, <2>2, LenProperties
  <2> QED BY <2>1, <2>2, <2>3
<1>2. ASSUME s \in Seq(S), Len(s) <= n PROVE s \in BoundedSeq(S, n)
  <2>1. Len(s) \in 0..n /\ s \in [1..Len(s) -> S]
    BY <1>2, LenProperties
  <2> QED BY <2>1 DEF BoundedSeq, SeqOf
<1> QED BY <1>1, <1>2

(* What RemoveAt leaves: the elements after the one removed move up. *)
LEMMA Removal ==
    ASSUME NEW S, NEW s \in Seq(S), NEW i \in 1..Len(s)
    PROVE  /\ RemoveAt(s, i) \in Seq(S) /\ Len(RemoveAt(s, i)) = Len(s) - 1
           /\ \A j \in 1..Len(s) - 1 : RemoveAt(s, i)[j] = IF j < i THEN s[j] ELSE s[j + 1]
<1> DEFINE front == SubSeq(s, 1, i - 1)
           back == SubSeq(s, i + 1, Len(s))
<1>1. Len(s) \in Nat /\ \A j \in 1..Len(s) : s[j] \in S
  BY LenProperties, ElementOfSeq
<1>2. front \in Seq(S) /\ Len(front) = i - 1 /\ \A j \in 1..i - 1 : front[j] = s[j]
  <2>1. \A j \in 1..i - 1 : s[j] \in S
    BY <1>1
  <2>2. /\ front \in Seq(S) /\ Len(front) = IF 1 <= i - 1 THEN i - 1 - 1 + 1 ELSE 0
        /\ \A j \in 1..i - 1 - 1 + 1 : front[j] = s[1 + j - 1]
    BY <1>1, <2>1, SubSeqProperties
  <2> QED BY <2>2, <1>1
<1>3. /\ back \in Seq(S) /\ Len(back) = Len(s) - i
      /\ \A j \in 1..Len(s) - i : back[j] = s[i + j]
  <2>1. \A j \in i + 1..Len(s) : s[j] \in S
    BY <1>1
  <2>2. /\ back \in Seq(S) /\ Len(back) = IF i + 1 <= Len(s) THEN Len(s) - (i + 1) + 1 ELSE 0
        /\ \A j \in 1..Len(s) - (i + 1) + 1 : back[j] = s[i + 1 + j - 1]
    BY <1>1, <2>1, SubSeqProperties
  <2> QED BY <2>2, <1>1
<1> HIDE DEF front, back
<1>4. /\ front \o back \in Seq(S) /\ Len(front \o back) = Len(s) - 1
      /\ \A j \in 1..Len(s) - 1 : (front \o back)[j] =
             IF j <= i - 1 THEN front[j] ELSE back[j - (i - 1)]
  <2>1. /\ front \o back \in Seq(S) /\ Len(front \o back) = Len(front) + Len(back)
        /\ \A j \in 1..Len(front) + Len(back) : (front \o back)[j] =
               IF j <= Len(front) THEN front[j] ELSE back[j - Len(front)]
    BY <1>2, <1>3, ConcatProperties
  <2>2. Len(front) + Len(back) = Len(s) - 1
    BY <1>1, <1>2, <1>3
  <2> QED BY <1>2, <2>1, <2>2
<1>5. \A j \in 1..Len(s) - 1 : (front \o back)[j] = IF j < i THEN s[j] ELSE s[j + 1]
  <2> TAKE j \in 1..Len(s) - 1
  <2>1. CASE j < i
    <3>1. j \in 1..i - 1
      BY <1>1, <2>1
    <3> QED BY <1>1, <1>2, <1>4, <2>1, <3>1
  <2>2. CASE ~(j < i)
    <3>1. j - (i - 1) \in 1..Len(s) - i /\ i + (j - (i - 1)) = j + 1 /\ ~(j <= i - 1)
      BY <1>1, <2>2
    <3> QED BY <1>3, <1>4, <2>2, <3>1
  <2> QED BY <2>1, <2>2
<1>6. RemoveAt(s, i) = front \o back
  BY DEF RemoveAt, front, back
<1> QED BY <1>4, <1>5, <1>6

-----------------------------------------------------------------------------
(* The reveal's tables. *)

LEMMA TierKnown == ASSUME NEW raw PROVE Tier(raw) \in {"common", "rare", "legendary"}
<1> DEFINE named == {i \in 1..3 : Tiers[i] \in raw}
<1>1. Tiers[1] = "common" /\ Tiers[2] = "rare" /\ Tiers[3] = "legendary"
  BY DEF Tiers
<1>2. named # {} => \E i \in named : \A j \in named : j <= i
  <2>1. CASE 3 \in named
    BY <2>1
  <2>2. CASE 3 \notin named /\ 2 \in named
    BY <2>2
  <2>3. CASE 3 \notin named /\ 2 \notin named
    BY <2>3
  <2> QED BY <2>1, <2>2, <2>3
<1>3. named # {} => (CHOOSE i \in named : \A j \in named : j <= i) \in 1..3
  BY <1>2
<1> QED BY <1>1, <1>3 DEF Tier

LEMMA TimelinePhases ==
    ASSUME NEW t \in {"common", "rare", "legendary"}
    PROVE  /\ Len(Timeline[t]) \in 1..8 /\ DOMAIN Timeline[t] = 1..Len(Timeline[t])
           /\ \A k \in 1..Len(Timeline[t]) : Timeline[t][k] \in Phases \ {"idle", "revealed"}
<1>1. DOMAIN Timeline = {"common", "rare", "legendary"}
  BY DEF Timeline
<1>2. /\ Len(Timeline[t]) \in 1..8 /\ DOMAIN Timeline[t] = 1..Len(Timeline[t])
      /\ \A k \in 1..Len(Timeline[t]) : Timeline[t][k] \notin {"idle", "revealed"}
  <2>1. CASE t = "common"
    BY <2>1 DEF Timeline
  <2>2. CASE t = "rare"
    BY <2>2 DEF Timeline
  <2>3. CASE t = "legendary"
    BY <2>3 DEF Timeline
  <2> QED BY <2>1, <2>2, <2>3
<1>3. \A k \in DOMAIN Timeline[t] : Timeline[t][k] \in Phases
  <2>1. \A k \in DOMAIN Timeline[t] : Timeline[t][k] \in ToSet(Timeline[t])
    BY DEF ToSet
  <2>2. ToSet(Timeline[t]) \subseteq Phases
    BY <1>1 DEF Phases
  <2> QED BY <2>1, <2>2
<1> QED BY <1>2, <1>3

LEMMA FirstTimer ==
    ASSUME NEW T \in SUBSET (1..8), T # {}
    PROVE  \E k \in T : \A j \in T : k <= j
<1> SUFFICES ASSUME \A k \in T : \E j \in T : j < k PROVE FALSE
  OBVIOUS
<1>1. \A j \in T : j > 1
  OBVIOUS
<1>2. \A j \in T : j > 2
  BY <1>1
<1>3. \A j \in T : j > 3
  BY <1>2
<1>4. \A j \in T : j > 4
  BY <1>3
<1>5. \A j \in T : j > 5
  BY <1>4
<1>6. \A j \in T : j > 6
  BY <1>5
<1>7. \A j \in T : j > 7
  BY <1>6
<1>8. \A j \in T : j > 8
  BY <1>7
<1>9. PICK k \in T : TRUE
  OBVIOUS
<1>10. k \in 1..8 /\ k > 8
  BY <1>8, <1>9
<1> QED BY <1>10

(* What the effect and the timers do to the reveal of p: it ends, the outcome
   displayed, or is at a phase before, nothing displayed. *)
Moves(p) ==
    /\ phase' \in Phases \ {"idle"} /\ timers' \subseteq DOMAIN Timeline[Tier(p.raw)]
    /\ timers' # {} => phase' # "revealed"
    /\ \/ phase' = "revealed" /\ Apply(p)
       \/ phase' # "revealed" /\ UNCHANGED outcome

LEMMA Runs ==
    ASSUME NEW p \in Answers, NEW collapsed \in BOOLEAN, RunSequence(p, collapsed)
    PROVE  Moves(p)
<1>1. Tier(p.raw) \in {"common", "rare", "legendary"}
  BY TierKnown
<1>2. Timeline[Tier(p.raw)][1] \in Phases \ {"idle", "revealed"}
  <2> DEFINE steps == Timeline[Tier(p.raw)]
  <2>1. /\ Len(steps) \in 1..8
        /\ \A k \in 1..Len(steps) : steps[k] \in Phases \ {"idle", "revealed"}
    BY <1>1, TimelinePhases
  <2> HIDE DEF steps
  <2>2. 1 \in 1..Len(steps)
    BY <2>1
  <2>3. steps[1] \in Phases \ {"idle", "revealed"}
    BY <2>1, <2>2
  <2> QED BY <2>3 DEF steps
<1>3. "revealed" \in Phases
  BY DEF Phases
<1> QED BY <1>2, <1>3 DEF RunSequence, Moves

LEMMA Fires ==
    ASSUME TypeOK, Revealing, Fire
    PROVE  pending # None /\ Moves(pending)
<1> DEFINE steps == Timeline[Tier(pending.raw)]
           k == CHOOSE i \in timers : \A j \in timers : i <= j
<1>1. Tier(pending.raw) \in {"common", "rare", "legendary"}
  BY TierKnown
<1>2. /\ Len(steps) \in 1..8 /\ DOMAIN steps = 1..Len(steps)
      /\ \A i \in 1..Len(steps) : steps[i] \in Phases \ {"idle", "revealed"}
  BY <1>1, TimelinePhases
<1>3. pending # None /\ timers # {} /\ timers \subseteq 1..Len(steps)
  BY <1>2 DEF Fire, Revealing
<1>4. k \in timers /\ \A j \in timers : k <= j
  <2>1. timers \in SUBSET (1..8) /\ timers # {}
    BY <1>2, <1>3
  <2>2. \E i \in timers : \A j \in timers : i <= j
    BY <2>1, FirstTimer
  <2> QED BY <2>2
<1>5. /\ timers' = timers \ {k}
      /\ IF k < Len(steps) THEN phase' = steps[k + 1] /\ UNCHANGED outcome
         ELSE phase' = "revealed" /\ Apply(pending)
  BY DEF Fire
<1> HIDE DEF k, steps
<1>6. timers' \subseteq DOMAIN steps
  BY <1>2, <1>3, <1>5
<1>7. CASE k < Len(steps)
  <2>1. k + 1 \in 1..Len(steps)
    BY <1>2, <1>3, <1>4, <1>7
  <2> QED BY <1>2, <1>3, <1>5, <1>6, <1>7, <2>1 DEF steps, Moves
<1>8. CASE ~(k < Len(steps))
  <2>1. timers' = {}
    BY <1>2, <1>3, <1>4, <1>5, <1>8
  <2>2. "revealed" \in Phases
    BY DEF Phases
  <2> QED BY <1>3, <1>5, <1>6, <1>8, <2>1, <2>2 DEF steps, Moves
<1> QED BY <1>7, <1>8

-----------------------------------------------------------------------------
(* Steps of the reveal, whatever moves it. *)

LEMMA RevealKeeps ==
    ASSUME IInv, pending # None, Moves(pending),
           UNCHANGED <<place, lists, call, error, pending, server>>,
           skipAnimation' \in BOOLEAN, speed' \in Speeds, reduced' \in BOOLEAN, skip' \in BOOLEAN
    PROVE  IInv'
<1> USE DEF IInv, lists, server, outcome
<1>1. pending \in Answers /\ call = None /\ ShowsOnly(pending) /\ ~error /\ pending.coins = coins
  BY DEF TypeOK, Revealing
<1>2. Tier(pending.raw) \in {"common", "rare", "legendary"}
  BY TierKnown
<1>3. timers' \subseteq 1..8
  BY <1>2, TimelinePhases DEF Moves
<1>4. /\ ShowsOnly(pending)' /\ profile' \in 0..Coins \cup {None}
      /\ phase' = "revealed" => profile' \in {coins, None}
  BY <1>1 DEF Moves, Apply, ShowsOnly, TypeOK
<1>5. TypeOK'
  BY <1>1, <1>3, <1>4 DEF TypeOK, Moves, ShowsOnly
<1>6. Revealing' /\ Balance' /\ InFlight'
  BY <1>1, <1>4 DEF Revealing, Balance, InFlight, Moves
<1>7. OneOutcome'
  BY <1>1, <1>4 DEF OneOutcome, ShowsOnly
<1>8. Opening' /\ NewestIsSelected' /\ ItemsMatchUnlessOvertaken'
  BY <1>1 DEF Opening, Fresh, Unknown, NewestIsSelected, ItemsMatchUnlessOvertaken
<1> QED BY <1>5, <1>6, <1>7, <1>8

-----------------------------------------------------------------------------
(* Steps on the list of items. *)

LEMMA SelectKeeps ==
    ASSUME IInv, NEW e \in Events, Select(e), Len(loads) < MaxLoads
    PROVE  /\ selected' = e /\ items' = items /\ overtaken' = overtaken
           /\ loads' \in BoundedSeq(Loads, MaxLoads)
           /\ NewestIsSelected' /\ ItemsMatchUnlessOvertaken'
<1>1. loads \in Seq(Loads) /\ Len(loads) \in Nat /\ MaxLoads \in Nat
  <2>1. MaxLoads \in Nat
    BY PageAssumption
  <2> QED BY <2>1, Bounded, LenProperties DEF IInv, TypeOK, Loads
<1>2. selected' = e /\ items' = items /\ overtaken' = overtaken
  BY DEF Select
<1>3. CASE e = selected
  <2>1. loads' = loads
    BY <1>3 DEF Select
  <2> QED BY <1>2, <1>3, <2>1 DEF IInv, TypeOK, Loads, NewestIsSelected, ItemsMatchUnlessOvertaken
<1>4. CASE e # selected
  <2> DEFINE aged == [i \in DOMAIN loads |-> [loads[i] EXCEPT !.newest = FALSE]]
             asked == [event |-> e, newest |-> TRUE]
  <2>1. DOMAIN loads = 1..Len(loads) /\ \A i \in 1..Len(loads) : loads[i] \in Loads
    BY <1>1, LenProperties, ElementOfSeq
  <2>2. \A i \in 1..Len(loads) : [loads[i] EXCEPT !.newest = FALSE] \in Loads
    BY <2>1 DEF Loads
  <2>3. aged \in [1..Len(loads) -> Loads]
    BY <2>1, <2>2
  <2>4. aged \in Seq(Loads)
    BY <1>1, <2>3, SeqDef
  <2>5. Len(aged) = Len(loads)
    <3>1. DOMAIN aged = 1..Len(aged) /\ Len(aged) \in Nat
      BY <2>4, LenProperties
    <3> QED BY <1>1, <2>3, <3>1
  <2>6. \A i \in 1..Len(aged) : ~aged[i].newest
    BY <2>1, <2>5 DEF Loads
  <2>7. asked \in Loads
    BY DEF Loads
  <2>8. loads' = Append(aged, asked)
    BY <1>4 DEF Select
  <2> HIDE DEF aged, asked
  <2>9. /\ loads' \in Seq(Loads) /\ Len(loads') = Len(loads) + 1
        /\ \A i \in 1..Len(loads) : loads'[i] = aged[i]
        /\ loads'[Len(loads) + 1] = asked
    BY <2>4, <2>5, <2>7, <2>8, AppendProperties
  <2>10. loads' \in BoundedSeq(Loads, MaxLoads)
    BY <1>1, <2>9, Bounded
  <2>11. asked.event = e /\ asked.newest
    BY DEF asked
  <2>12. \A i \in 1..Len(loads') : loads'[i].newest => loads'[i] = asked
    BY <1>1, <2>5, <2>6, <2>9
  <2>13. \E i \in DOMAIN loads' : loads'[i].newest
    <3>1. Len(loads) + 1 \in DOMAIN loads'
      BY <1>1, <2>9, LenProperties
    <3> QED BY <2>9, <2>11, <3>1
  <2> QED BY <1>2, <2>10, <2>11, <2>12, <2>13 DEF NewestIsSelected, ItemsMatchUnlessOvertaken
<1> QED BY <1>2, <1>3, <1>4

LEMMA ShowItemsKeeps ==
    ASSUME IInv, NEW i \in DOMAIN loads, NEW ok \in BOOLEAN, ShowItems(i, ok)
    PROVE  IInv'
<1>1. loads \in Seq(Loads) /\ Len(loads) \in Nat /\ Len(loads) <= MaxLoads /\ MaxLoads \in Nat
  <2>1. MaxLoads \in Nat
    BY PageAssumption
  <2> QED BY <2>1, Bounded, LenProperties DEF IInv, TypeOK, Loads
<1>2. i \in 1..Len(loads) /\ loads[i] \in Loads
  BY <1>1, LenProperties, ElementOfSeq
<1>3. /\ loads' \in Seq(Loads) /\ Len(loads') = Len(loads) - 1
      /\ \A j \in 1..Len(loads) - 1 : loads'[j] = IF j < i THEN loads[j] ELSE loads[j + 1]
  BY <1>1, <1>2, Removal DEF ShowItems
<1>4. loads' \in BoundedSeq(Loads, MaxLoads)
  <2>1. Len(loads') <= MaxLoads
    BY <1>1, <1>3
  <2> QED BY <1>1, <1>3, <2>1, Bounded
<1>5. items' \in Events \cup {NoEvent} /\ overtaken' \in BOOLEAN
  BY <1>2 DEF ShowItems, Loads
<1>6. TypeOK'
  BY <1>4, <1>5 DEF IInv, TypeOK, Loads, ShowItems, settings, reveal, outcome, server
<1>7. NewestIsSelected'
  <2>1. \A j \in 1..Len(loads') : \E n \in 1..Len(loads) : loads'[j] = loads[n]
    BY <1>1, <1>2, <1>3
  <2>2. selected' = selected
    BY DEF ShowItems
  <2> QED BY <2>1, <2>2 DEF IInv, NewestIsSelected
<1>8. ItemsMatchUnlessOvertaken'
  BY <1>2 DEF IInv, ItemsMatchUnlessOvertaken, NewestIsSelected, ShowItems, Loads
<1>9. Opening'
  <2>1. loads # <<>>
    BY <1>1, <1>2
  <2> QED BY <2>1 DEF IInv, Opening, Fresh, Unknown, ShowItems, outcome, reveal
<1>10. InFlight' /\ Revealing' /\ Balance' /\ OneOutcome'
  BY DEF IInv, InFlight, Revealing, Balance, OneOutcome, ShowsOnly, ShowItems, reveal, outcome, server
<1> QED BY <1>4, <1>6, <1>7, <1>8, <1>9, <1>10 DEF IInv

-----------------------------------------------------------------------------
(* Opening the page. *)

LEMMA CheckKeeps ==
    ASSUME IInv, NEW signedIn \in BOOLEAN, Check(signedIn)
    PROVE  IInv'
<1> USE DEF IInv, Check, settings, reveal, outcome, server
<1>1. due = {} /\ Unknown /\ Fresh
  BY DEF Opening
<1>2. TypeOK'
  BY DEF TypeOK
<1>3. Opening'
  BY <1>1 DEF Opening, Fresh, Unknown
<1>4. NewestIsSelected' /\ ItemsMatchUnlessOvertaken'
  BY DEF NewestIsSelected, ItemsMatchUnlessOvertaken
<1>5. InFlight' /\ Revealing' /\ Balance' /\ OneOutcome'
  BY DEF InFlight, Revealing, Balance, OneOutcome, ShowsOnly
<1> QED BY <1>2, <1>3, <1>4, <1>5

LEMMA LoadConfigKeeps ==
    ASSUME IInv, NEW ok \in BOOLEAN, LoadConfig(ok)
    PROVE  IInv'
<1> USE DEF IInv, LoadConfig, settings, reveal, outcome, server
<1>1. TypeOK'
  BY DEF TypeOK
<1>2. Opening' /\ NewestIsSelected' /\ ItemsMatchUnlessOvertaken'
  BY DEF Opening, Fresh, Unknown, NewestIsSelected, ItemsMatchUnlessOvertaken
<1>3. InFlight' /\ Revealing' /\ Balance' /\ OneOutcome'
  BY DEF InFlight, Revealing, Balance, OneOutcome, ShowsOnly
<1> QED BY <1>1, <1>2, <1>3

LEMMA RefreshProfileKeeps ==
    ASSUME IInv, NEW ok \in BOOLEAN, RefreshProfile(ok)
    PROVE  IInv'
<1> USE DEF IInv, RefreshProfile, settings, reveal, server
<1>1. Unknown /\ profile' \in {coins, None}
  BY DEF Opening
<1>2. TypeOK'
  BY <1>1 DEF TypeOK
<1>3. Opening' /\ NewestIsSelected' /\ ItemsMatchUnlessOvertaken'
  BY DEF Opening, Fresh, Unknown, NewestIsSelected, ItemsMatchUnlessOvertaken
<1>4. InFlight' /\ Revealing' /\ Balance' /\ OneOutcome'
  BY <1>1 DEF Unknown, InFlight, Revealing, Balance, OneOutcome, ShowsOnly
<1> QED BY <1>2, <1>3, <1>4

LEMMA LoadEventsKeeps ==
    ASSUME IInv, NEW list \in SUBSET Events, LoadEvents(list)
    PROVE  IInv'
<1> USE DEF IInv, settings, reveal, outcome, server
<1>1. Fresh /\ "events" \notin due' /\ due' = due \ {"events"} /\ events' = list
      /\ UNCHANGED <<place, multiCount, settings, call, error, reveal, outcome, server>>
  BY DEF LoadEvents, Opening
<1>2. MaxLoads \in Nat \ {0} /\ Len(loads) = 0
  <2>1. loads = <<>>
    BY <1>1 DEF Fresh
  <2> QED BY <2>1, PageAssumption
<1>3. /\ selected' \in events' \cup {NoEvent} /\ items' = items /\ overtaken' = overtaken
      /\ loads' \in BoundedSeq(Loads, MaxLoads)
      /\ NewestIsSelected' /\ ItemsMatchUnlessOvertaken'
  <2>1. CASE list = {}
    <3>1. UNCHANGED <<selected, loads, items, overtaken>>
      BY <2>1 DEF LoadEvents
    <3> QED BY <1>1, <3>1 DEF Fresh, TypeOK, Loads, NewestIsSelected, ItemsMatchUnlessOvertaken
  <2>2. CASE list # {}
    <3>1. PICK e \in list : Select(e)
      BY <2>2 DEF LoadEvents
    <3>2. e \in Events /\ Len(loads) < MaxLoads
      BY <1>2
    <3> QED BY <1>1, <3>1, <3>2, SelectKeeps
  <2> QED BY <2>1, <2>2
<1>4. TypeOK'
  BY <1>1, <1>3 DEF TypeOK, Loads
<1>5. Opening'
  <2>1. place # "checking"
    BY DEF LoadEvents
  <2> QED BY <1>1, <2>1 DEF Opening, Unknown
<1>6. InFlight' /\ Revealing' /\ Balance' /\ OneOutcome'
  BY <1>1 DEF InFlight, Revealing, Balance, OneOutcome, ShowsOnly
<1> QED BY <1>3, <1>4, <1>5, <1>6

LEMMA ChooseEventKeeps ==
    ASSUME IInv, NEW e \in Events, ChooseEvent(e)
    PROVE  IInv'
<1> USE DEF IInv, settings, reveal, outcome, server
<1>1. /\ e \in events /\ Select(e) /\ Len(loads) < MaxLoads
      /\ UNCHANGED <<place, due, multiCount, events, settings, call, error, reveal, outcome, server>>
  BY DEF ChooseEvent
<1>2. /\ selected' = e /\ items' = items /\ overtaken' = overtaken
      /\ loads' \in BoundedSeq(Loads, MaxLoads)
      /\ NewestIsSelected' /\ ItemsMatchUnlessOvertaken'
  BY <1>1, SelectKeeps
<1>3. TypeOK'
  BY <1>1, <1>2 DEF TypeOK, Loads
<1>4. Opening'
  BY <1>1 DEF Opening, Unknown, Fresh
<1>5. InFlight' /\ Revealing' /\ Balance' /\ OneOutcome'
  BY <1>1 DEF InFlight, Revealing, Balance, OneOutcome, ShowsOnly
<1> QED BY <1>2, <1>3, <1>4, <1>5

-----------------------------------------------------------------------------
(* Pulling. *)

LEMMA PullKeeps ==
    ASSUME IInv, NEW kind \in {"single", "multi"}, Pull(kind)
    PROVE  IInv'
<1> USE DEF IInv, Pull, Begin, lists, settings, reveal, server
<1>1. place = "page" /\ profile # None /\ call = None /\ pending = None
  BY DEF Ready, View
<1>2. Cost * (IF kind = "multi" THEN multiCount ELSE 1) \in Nat
  <2>1. Cost \in Nat /\ multiCount \in Nat
    BY PageAssumption DEF TypeOK
  <2>2. \A m, n \in Nat : m * n \in Nat
    OBVIOUS
  <2> QED BY <2>1, <2>2
<1>3. /\ call' \in [step : {"sent", "served"}, kind : {"single", "multi"}, immediate : BOOLEAN,
                    amount : Nat] /\ call'.step = "sent"
  BY <1>2 DEF TypeOK
<1>4. TypeOK'
  BY <1>1, <1>3 DEF TypeOK
<1>5. Opening' /\ NewestIsSelected' /\ ItemsMatchUnlessOvertaken'
  BY <1>1 DEF Opening, Fresh, Unknown, NewestIsSelected, ItemsMatchUnlessOvertaken
<1>6. InFlight' /\ Revealing' /\ Balance' /\ OneOutcome'
  BY <1>1, <1>3 DEF InFlight, Revealing, Balance, OneOutcome
<1> QED BY <1>4, <1>5, <1>6

LEMMA ServeKeeps == IInv /\ Serve => IInv'
<1> SUFFICES ASSUME IInv, Serve PROVE IInv'
  OBVIOUS
<1> USE DEF IInv, Serve, lists, settings, reveal, outcome
<1>1. pending = None /\ call # None /\ Coins \in Nat
  BY PageAssumption DEF TypeOK
<1>2. /\ call' \in [step : {"sent", "served"}, kind : {"single", "multi"}, immediate : BOOLEAN,
                    amount : Nat]
      /\ coins' \in 0..Coins
  BY <1>1 DEF TypeOK
<1>3. TypeOK'
  BY <1>1, <1>2 DEF TypeOK
<1>4. Opening' /\ NewestIsSelected' /\ ItemsMatchUnlessOvertaken'
  BY <1>1 DEF Opening, Fresh, Unknown, NewestIsSelected, ItemsMatchUnlessOvertaken
<1>5. InFlight' /\ Revealing' /\ Balance' /\ OneOutcome'
  BY <1>1 DEF InFlight, Revealing, Balance, OneOutcome
<1> QED BY <1>3, <1>4, <1>5

LEMMA FailKeeps == IInv /\ Fail => IInv'
<1> SUFFICES ASSUME IInv, Fail PROVE IInv'
  OBVIOUS
<1> USE DEF IInv, Fail, lists, settings, reveal, outcome, server
<1>1. pending = None /\ result = None /\ multi = None
  BY DEF TypeOK, InFlight
<1>2. TypeOK'
  BY DEF TypeOK
<1>3. Opening' /\ NewestIsSelected' /\ ItemsMatchUnlessOvertaken'
  BY DEF Opening, Fresh, Unknown, NewestIsSelected, ItemsMatchUnlessOvertaken
<1>4. InFlight' /\ Revealing' /\ Balance' /\ OneOutcome'
  BY <1>1 DEF InFlight, Revealing, Balance, OneOutcome
<1> QED BY <1>2, <1>3, <1>4

LEMMA AnswerKeeps ==
    ASSUME IInv, NEW raw \in Raws, Answer(raw)
    PROVE  IInv'
<1> DEFINE p == [kind |-> call.kind, raw |-> raw, coins |-> coins]
<1> USE DEF IInv, lists, settings
<1>1. /\ place = "page" /\ call # None /\ call' = None /\ unheard' = FALSE
      /\ UNCHANGED <<place, lists, settings, error, coins>>
      /\ IF call.immediate THEN Apply(p) /\ UNCHANGED reveal
         ELSE pending' = p /\ skip' = FALSE /\ RunSequence(p, reduced)
  BY DEF Answer
<1>2. p \in Answers /\ p.coins = coins /\ p # None
  <2>1. p \in Answers
    BY <1>1 DEF TypeOK, Answers
  <2> QED BY <2>1, NoneAssumption
<1> HIDE DEF p
<1>3. pending = None /\ result = None /\ multi = None /\ ~error /\ timers = {} /\ phase = "idle"
  BY <1>1 DEF TypeOK, InFlight, Revealing
<1>4. NewestIsSelected' /\ ItemsMatchUnlessOvertaken'
  BY <1>1 DEF NewestIsSelected, ItemsMatchUnlessOvertaken
<1>5. Opening'
  BY <1>1 DEF Opening, Fresh, Unknown
<1>6. CASE call.immediate
  <2>1. Apply(p) /\ UNCHANGED reveal
    BY <1>1, <1>6
  <2>2. profile' = coins /\ result' \in {None, p} /\ multi' \in {None, p}
        /\ (result' = None \/ multi' = None)
    BY <1>2, <1>3, <2>1 DEF Apply
  <2>3. TypeOK'
    BY <1>1, <1>2, <1>3, <2>1, <2>2 DEF TypeOK, reveal
  <2>4. InFlight' /\ Revealing' /\ Balance' /\ OneOutcome'
    BY <1>1, <1>3, <2>1, <2>2 DEF InFlight, Revealing, Balance, OneOutcome, reveal
  <2> QED BY <1>4, <1>5, <2>3, <2>4
<1>7. CASE ~call.immediate
  <2>1. pending' = p /\ skip' = FALSE /\ reduced \in BOOLEAN /\ RunSequence(p, reduced)
    BY <1>1, <1>7 DEF TypeOK
  <2>2. Moves(p)
    BY <1>2, <2>1, Runs
  <2>3. Tier(p.raw) \in {"common", "rare", "legendary"}
    BY TierKnown
  <2>4. timers' \subseteq 1..8
    BY <2>2, <2>3, TimelinePhases DEF Moves
  <2>5. /\ result' \in {None, p} /\ multi' \in {None, p}
        /\ (p.kind = "single" => multi' = None) /\ (p.kind # "single" => result' = None)
        /\ profile' \in 0..Coins \cup {None}
        /\ phase' = "revealed" => profile' = coins
    BY <1>2, <1>3, <2>2 DEF Moves, Apply, outcome, TypeOK
  <2>6. TypeOK'
    BY <1>1, <1>2, <1>3, <2>1, <2>2, <2>4, <2>5 DEF TypeOK, Moves
  <2>7. InFlight' /\ Revealing' /\ Balance' /\ OneOutcome'
    BY <1>1, <1>2, <1>3, <2>1, <2>2, <2>5
    DEF InFlight, Revealing, Balance, OneOutcome, ShowsOnly, Moves
  <2> QED BY <1>4, <1>5, <2>6, <2>7
<1> QED BY <1>6, <1>7

-----------------------------------------------------------------------------
(* The reveal and the settings. *)

LEMMA FireKeeps == IInv /\ Fire => IInv'
<1> SUFFICES ASSUME IInv, Fire PROVE IInv'
  OBVIOUS
<1>1. pending # None /\ Moves(pending)
  BY Fires DEF IInv
<1>2. /\ UNCHANGED <<place, lists, settings, call, error, pending, skip, server>>
  BY DEF Fire
<1>3. skipAnimation' \in BOOLEAN /\ speed' \in Speeds /\ reduced' \in BOOLEAN /\ skip' \in BOOLEAN
  BY <1>2 DEF IInv, TypeOK, settings
<1> QED BY <1>1, <1>2, <1>3, RevealKeeps

LEMMA SkipKeeps == IInv /\ Skip => IInv'
<1> SUFFICES ASSUME IInv, Skip PROVE IInv'
  OBVIOUS
<1>1. pending # None /\ pending \in Answers
  BY DEF Skip, View, RevealView, IInv, TypeOK
<1>2. Moves(pending)
  BY <1>1, Runs DEF Skip
<1>3. UNCHANGED <<place, lists, settings, call, error, pending, server>> /\ skip' = TRUE
  BY DEF Skip
<1>4. skipAnimation' \in BOOLEAN /\ speed' \in Speeds /\ reduced' \in BOOLEAN /\ skip' \in BOOLEAN
  BY <1>3 DEF IInv, TypeOK, settings
<1> QED BY <1>1, <1>2, <1>3, <1>4, RevealKeeps

LEMMA DismissKeeps == IInv /\ Dismiss => IInv'
<1> SUFFICES ASSUME IInv, Dismiss PROVE IInv'
  OBVIOUS
<1> USE DEF IInv, Dismiss, lists, settings, outcome, server
<1>1. /\ pending # None /\ phase = "revealed" /\ call = None
      /\ profile \in {coins, None} /\ "idle" \in Phases
  BY DEF View, RevealView, TypeOK, Revealing, Phases
<1>2. TypeOK'
  <2>1. /\ phase' \in Phases /\ timers' \subseteq 1..8 /\ skip' \in BOOLEAN
        /\ (pending' = None <=> phase' = "idle")
        /\ timers' # {} => phase' \notin {"idle", "revealed"}
    BY <1>1
  <2>2. pending' \in Answers \cup {None} /\ result' \in Answers \cup {None} /\ multi' \in Answers \cup {None}
    BY DEF TypeOK
  <2>3. /\ due' \subseteq {"config", "profile", "events"} /\ profile' \in 0..Coins \cup {None}
        /\ call' = None /\ coins' \in 0..Coins
    BY <1>1 DEF TypeOK
  <2> QED BY <2>1, <2>2, <2>3 DEF TypeOK
<1>3. Opening' /\ NewestIsSelected' /\ ItemsMatchUnlessOvertaken'
  BY DEF Opening, Fresh, Unknown, NewestIsSelected, ItemsMatchUnlessOvertaken
<1>4. InFlight' /\ Revealing' /\ Balance' /\ OneOutcome'
  BY <1>1 DEF InFlight, Revealing, Balance, OneOutcome
<1> QED BY <1>2, <1>3, <1>4

LEMMA ClearResultsKeeps == IInv /\ ClearResults => IInv'
<1> SUFFICES ASSUME IInv, ClearResults PROVE IInv'
  OBVIOUS
<1> USE DEF IInv, ClearResults, lists, settings, reveal, server
<1>1. TypeOK'
  BY DEF TypeOK
<1>2. Opening' /\ NewestIsSelected' /\ ItemsMatchUnlessOvertaken'
  BY DEF Opening, Fresh, Unknown, NewestIsSelected, ItemsMatchUnlessOvertaken
<1>3. InFlight' /\ Revealing' /\ Balance' /\ OneOutcome'
  BY DEF InFlight, Revealing, Balance, OneOutcome, ShowsOnly
<1> QED BY <1>1, <1>2, <1>3

(* A change of the settings reruns the reveal on screen, or changes nothing else. *)
LEMMA SettingsKeep ==
    ASSUME IInv, NEW collapsed \in BOOLEAN, Rerun(collapsed),
           UNCHANGED <<place, lists, call, error, pending, skip, server>>,
           skipAnimation' \in BOOLEAN, speed' \in Speeds, reduced' \in BOOLEAN
    PROVE  IInv'
<1>1. CASE pending # None
  <2>1. pending \in Answers /\ skip' \in BOOLEAN
    BY <1>1 DEF IInv, TypeOK
  <2>2. Moves(pending)
    BY <1>1, <2>1, Runs DEF Rerun
  <2> QED BY <1>1, <2>1, <2>2, RevealKeeps
<1>2. CASE pending = None
  <2> USE DEF IInv, lists, outcome, server
  <2>1. UNCHANGED <<phase, timers, profile, result, multi>>
    BY <1>2 DEF Rerun
  <2>2. TypeOK'
    BY <2>1 DEF TypeOK
  <2>3. Opening' /\ NewestIsSelected' /\ ItemsMatchUnlessOvertaken'
    BY <2>1 DEF Opening, Fresh, Unknown, NewestIsSelected, ItemsMatchUnlessOvertaken
  <2>4. InFlight' /\ Revealing' /\ Balance' /\ OneOutcome'
    BY <1>2, <2>1 DEF InFlight, Revealing, Balance, OneOutcome
  <2> QED BY <2>2, <2>3, <2>4
<1> QED BY <1>1, <1>2

LEMMA ToggleSkipKeeps == IInv /\ ToggleSkip => IInv'
<1> SUFFICES ASSUME IInv, ToggleSkip PROVE IInv'
  OBVIOUS
<1> USE DEF IInv, ToggleSkip, lists, reveal, outcome, server
<1>1. TypeOK'
  BY DEF TypeOK
<1>2. Opening' /\ NewestIsSelected' /\ ItemsMatchUnlessOvertaken'
  BY DEF Opening, Fresh, Unknown, NewestIsSelected, ItemsMatchUnlessOvertaken
<1>3. InFlight' /\ Revealing' /\ Balance' /\ OneOutcome'
  BY DEF InFlight, Revealing, Balance, OneOutcome, ShowsOnly
<1> QED BY <1>1, <1>2, <1>3

LEMMA ChooseSpeedKeeps ==
    ASSUME IInv, NEW s \in Speeds, ChooseSpeed(s)
    PROVE  IInv'
<1>1. (skip \/ reduced) \in BOOLEAN /\ Rerun(skip \/ reduced)
  BY DEF ChooseSpeed
<1>2. /\ UNCHANGED <<place, lists, call, error, pending, skip, server>>
      /\ skipAnimation' \in BOOLEAN /\ speed' \in Speeds /\ reduced' \in BOOLEAN
  BY DEF ChooseSpeed, IInv, TypeOK
<1> QED BY <1>1, <1>2, SettingsKeep

LEMMA ChangeMotionKeeps == IInv /\ ChangeMotion => IInv'
<1> SUFFICES ASSUME IInv, ChangeMotion PROVE IInv'
  OBVIOUS
<1>1. (skip \/ reduced') \in BOOLEAN /\ Rerun(skip \/ reduced')
  BY DEF ChangeMotion
<1>2. /\ UNCHANGED <<place, lists, call, error, pending, skip, server>>
      /\ skipAnimation' \in BOOLEAN /\ speed' \in Speeds /\ reduced' \in BOOLEAN
  BY DEF ChangeMotion, IInv, TypeOK
<1> QED BY <1>1, <1>2, SettingsKeep

-----------------------------------------------------------------------------
(* The invariant, and what follows from it. *)

LEMMA InitIInv == Init => IInv
<1> SUFFICES ASSUME Init PROVE IInv
  OBVIOUS
<1> USE DEF Init
<1>1. loads \in BoundedSeq([event : Events, newest : BOOLEAN], MaxLoads)
  <2>1. MaxLoads \in Nat /\ 0 <= MaxLoads
    BY PageAssumption
  <2> QED BY <2>1, Bounded, EmptySeq
<1>2. Coins \in Nat /\ 1 \in Speeds /\ "idle" \in Phases
  BY PageAssumption DEF Phases
<1>3. TypeOK
  <2>1. /\ phase \in Phases /\ timers \subseteq 1..8 /\ skip \in BOOLEAN
        /\ (pending = None <=> phase = "idle")
        /\ timers # {} => phase \notin {"idle", "revealed"}
    BY <1>2
  <2>2. pending \in Answers \cup {None} /\ result \in Answers \cup {None} /\ multi \in Answers \cup {None}
    OBVIOUS
  <2>3. /\ due \subseteq {"config", "profile", "events"} /\ profile \in 0..Coins \cup {None}
        /\ coins \in 0..Coins
    BY <1>2
  <2> QED BY <1>1, <1>2, <2>1, <2>2, <2>3 DEF TypeOK
<1>4. NewestIsSelected
  <2>1. Len(loads) = 0
    BY EmptySeq
  <2> QED BY <2>1 DEF NewestIsSelected
<1>5. Opening /\ ItemsMatchUnlessOvertaken
  BY DEF Opening, Unknown, Fresh, ItemsMatchUnlessOvertaken
<1>6. InFlight /\ Revealing /\ Balance /\ OneOutcome
  BY DEF InFlight, Revealing, Balance, OneOutcome
<1> QED BY <1>3, <1>4, <1>5, <1>6 DEF IInv

LEMMA NextIInv == IInv /\ [Next]_vars => IInv'
<1> SUFFICES ASSUME IInv, [Next]_vars PROVE IInv'
  OBVIOUS
<1>1. ASSUME NEW ok \in BOOLEAN, Check(ok) \/ LoadConfig(ok) \/ RefreshProfile(ok) PROVE IInv'
  BY <1>1, CheckKeeps, LoadConfigKeeps, RefreshProfileKeeps
<1>2. ASSUME NEW list \in SUBSET Events, LoadEvents(list) PROVE IInv'
  BY <1>2, LoadEventsKeeps
<1>3. ASSUME NEW i \in DOMAIN loads, NEW ok \in BOOLEAN, ShowItems(i, ok) PROVE IInv'
  BY <1>3, ShowItemsKeeps
<1>4. ASSUME NEW kind \in {"single", "multi"}, Pull(kind) PROVE IInv'
  BY <1>4, PullKeeps
<1>5. ASSUME NEW raw \in Raws, Answer(raw) PROVE IInv'
  BY <1>5, AnswerKeeps
<1>6. CASE Serve \/ Fail
  BY <1>6, ServeKeeps, FailKeeps
<1>7. CASE Fire \/ Skip \/ Dismiss \/ ClearResults
  BY <1>7, FireKeeps, SkipKeeps, DismissKeeps, ClearResultsKeeps
<1>8. ASSUME NEW e \in Events, ChooseEvent(e) PROVE IInv'
  BY <1>8, ChooseEventKeeps
<1>9. CASE ToggleSkip \/ ChangeMotion
  BY <1>9, ToggleSkipKeeps, ChangeMotionKeeps
<1>10. ASSUME NEW s \in Speeds, ChooseSpeed(s) PROVE IInv'
  BY <1>10, ChooseSpeedKeeps
<1>11. CASE UNCHANGED vars
  <2> USE <1>11 DEF vars, lists, settings, reveal, outcome, server
  <2>1. TypeOK'
    BY DEF IInv, TypeOK
  <2>2. Opening' /\ NewestIsSelected' /\ ItemsMatchUnlessOvertaken'
    BY DEF IInv, Opening, Fresh, Unknown, NewestIsSelected, ItemsMatchUnlessOvertaken
  <2>3. InFlight' /\ Revealing' /\ Balance' /\ OneOutcome'
    BY DEF IInv, InFlight, Revealing, Balance, OneOutcome, ShowsOnly
  <2> QED BY <2>1, <2>2, <2>3 DEF IInv
<1> QED BY <1>1, <1>2, <1>3, <1>4, <1>5, <1>6, <1>7, <1>8, <1>9, <1>10, <1>11 DEF Next

(* The invariant of useGacha.ts and useRevealSequence.ts together. *)
THEOREM PageInvariant == Spec => []IInv
BY InitIInv, NextIInv, PTL DEF Spec

(* The page's state, requests and reveal keep their types. *)
THEOREM PageTypeCorrect == Spec => []TypeOK
<1>1. IInv => TypeOK
  BY DEF IInv
<1> QED BY <1>1, PageInvariant, PTL

(* beginPull and commitReveal leave one outcome on the page. *)
THEOREM NothingLeftOver == Spec => []OneOutcome
<1>1. IInv => OneOutcome
  BY DEF IInv
<1> QED BY <1>1, PageInvariant, PTL

(* No way out of a reveal loses the balance it holds. *)
THEOREM NoCommitLost == Spec => []CoinsCurrentAtRest
<1>1. IInv => CoinsCurrentAtRest
  BY DEF IInv, Balance, CoinsCurrentAtRest
<1> QED BY <1>1, PageInvariant, PTL

(* The items displayed are another event's only while they are asked for, or
   after an answer that was overtaken. *)
THEOREM ItemsOfSelected == Spec => []ItemsMatchUnlessOvertaken
<1>1. IInv => ItemsMatchUnlessOvertaken
  BY DEF IInv
<1> QED BY <1>1, PageInvariant, PTL

-----------------------------------------------------------------------------
(* What a step may do to a reveal.  Only some actions touch it at all. *)

Elsewhere ==
    \/ \E ok \in BOOLEAN : Check(ok) \/ LoadConfig(ok)
    \/ \E list \in SUBSET Events : LoadEvents(list)
    \/ \E i \in DOMAIN loads, ok \in BOOLEAN : ShowItems(i, ok)
    \/ \E e \in Events : ChooseEvent(e)
    \/ Serve \/ Fail \/ ToggleSkip

LEMMA ElsewhereKeepsReveal == Elsewhere => UNCHANGED <<reveal, outcome>>
BY DEF Elsewhere, Check, LoadConfig, LoadEvents, ShowItems, ChooseEvent, Serve, Fail, ToggleSkip

LEMMA NextCases ==
    ASSUME Next
    PROVE  \/ Elsewhere
           \/ \E ok \in BOOLEAN : RefreshProfile(ok)
           \/ \E kind \in {"single", "multi"} : Pull(kind)
           \/ \E raw \in Raws : Answer(raw)
           \/ Fire \/ Skip \/ Dismiss \/ ClearResults
           \/ ChangeMotion \/ \E s \in Speeds : ChooseSpeed(s)
BY DEF Next, Elsewhere

LEMMA RewardStep ==
    IInv /\ [Next]_vars =>
        (phase = "revealed" /\ UNCHANGED <<speed, reduced>> => phase' = "revealed" \/ pending' = None)
<1> SUFFICES ASSUME IInv, [Next]_vars, phase = "revealed", UNCHANGED <<speed, reduced>>
             PROVE  phase' = "revealed" \/ pending' = None
  OBVIOUS
<1>1. pending # None /\ call = None /\ timers = {}
  BY DEF IInv, TypeOK
<1>2. CASE Elsewhere \/ UNCHANGED vars
  BY <1>2, ElsewhereKeepsReveal DEF vars, reveal
<1>3. CASE \/ \E ok \in BOOLEAN : RefreshProfile(ok)
           \/ \E kind \in {"single", "multi"} : Pull(kind)
           \/ ClearResults
  BY <1>3 DEF RefreshProfile, Pull, ClearResults, reveal
<1>4. ~Fire /\ \A raw \in Raws : ~Answer(raw)
  BY <1>1 DEF Fire, Answer
<1>5. CASE Skip \/ Dismiss
  BY <1>5 DEF Skip, Dismiss, RunSequence
<1>6. ~ChangeMotion /\ \A s \in Speeds : ~ChooseSpeed(s)
  BY DEF ChangeMotion, ChooseSpeed, IInv, TypeOK
<1>7. Next \/ UNCHANGED vars
  OBVIOUS
<1> QED BY <1>2, <1>3, <1>4, <1>5, <1>6, <1>7, NextCases

LEMMA NoSpoilerStep ==
    IInv /\ [Next]_vars =>
        (profile # None /\ outcome' # outcome /\ (result' # None \/ multi' # None)
            => phase' = "revealed" \/ pending' = None)
<1> SUFFICES ASSUME IInv, [Next]_vars, profile # None, outcome' # outcome,
                    result' # None \/ multi' # None
             PROVE  phase' = "revealed" \/ pending' = None
  OBVIOUS
<1>1. ~Elsewhere /\ ~UNCHANGED vars
  BY ElsewhereKeepsReveal DEF vars
<1>2. \A ok \in BOOLEAN : ~RefreshProfile(ok)
  BY DEF IInv, Opening, Unknown, RefreshProfile
<1>3. ~ClearResults /\ \A kind \in {"single", "multi"} : ~Pull(kind)
  BY DEF Pull, Begin, ClearResults
<1>4. ASSUME NEW raw \in Raws, Answer(raw) PROVE phase' = "revealed" \/ pending' = None
  <2>1. pending = None
    BY <1>4 DEF Answer, IInv, TypeOK
  <2> QED BY <1>4, <2>1 DEF Answer, RunSequence, reveal
<1>5. CASE Fire
  BY <1>5, Fires DEF IInv, Moves
<1>6. CASE Skip \/ Dismiss
  BY <1>6 DEF Skip, Dismiss, RunSequence
<1>7. ASSUME NEW collapsed \in BOOLEAN, Rerun(collapsed)
      PROVE  phase' = "revealed" \/ pending' = None
  BY <1>7 DEF Rerun, RunSequence
<1>8. CASE ChangeMotion \/ \E s \in Speeds : ChooseSpeed(s)
  BY <1>7, <1>8 DEF ChangeMotion, ChooseSpeed
<1>9. Next
  BY <1>1
<1> QED BY <1>1, <1>2, <1>3, <1>4, <1>5, <1>6, <1>8, <1>9, NextCases

(* Whoever reaches the reward has it until going on or changing the settings. *)
THEOREM RewardIsKept == Spec => RewardStays
BY PageInvariant, RewardStep, PTL DEF Spec, RewardStays

(* Outcome and balance are displayed when the reveal ends, never before. *)
THEOREM NothingSpoiled == Spec => NoSpoiler
BY PageInvariant, NoSpoilerStep, PTL DEF Spec, NoSpoiler
=============================================================================
