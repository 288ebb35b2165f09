-------------------------- MODULE EventConsoleProofs --------------------------
(***************************************************************************)
(* Proofs about EventConsole, for any number of events, items, handlers    *)
(* and requests.  Three arguments share the invariant: the change of every *)
(* handler is followed by a load asked for after it, or is known to have   *)
(* been missed; a draft is in one form or one handler that may still send  *)
(* it; and what a handler deletes was agreed to.                           *)
(***************************************************************************)
EXTENDS EventConsole, SequenceTheorems, TLAPS

Answered == [got : Tables \cup {None}, newest : BOOLEAN]
Busy(h) == handler[h].kind # "idle"

(* Requests, and rows that once existed. *)
Within(t, known) == \A e \in Events : t[e] # None => e \in known /\ t[e].items \subseteq known
Lists ==
    /\ loads \in Seq(Answered)
    /\ Within(db, ids) /\ Within(list, ids)
    /\ \A i \in 1..Len(loads) : loads[i].got # None => Within(loads[i].got, ids)
    /\ \A i, j \in 1..Len(loads) : loads[i].newest /\ loads[j].newest => i = j

(* Unless a handler has still to ask for the list, the newest request will
   bring it as it is, or the one displayed is right or known to be old. *)
NoneHalfway == \A h \in Handlers : Busy(h) => handler[h].step # "image"
Coming == \E i \in 1..Len(loads) : loads[i].newest /\ loads[i].got \in {None, db}
Come == (\A i \in 1..Len(loads) : ~loads[i].newest) /\ (list = db \/ behind)
Told == NoneHalfway => Coming \/ Come

(* What a handler asks for, and what it may do once it was agreed to. *)
Deletes(h) == handler[h].kind \in {"deleteEvent", "removeItem"}
Asking ==
    /\ confirming \in Handlers \cup {None}
    /\ \A h \in Handlers : Busy(h) /\ handler[h].step = "ask" => Target(handler[h]) \in Events \cup Items
    /\ \A h \in Handlers : Deletes(h) /\ handler[h].step # "ask" => Target(handler[h]) \in accepted

(* Where a draft is: in a form, in a handler, or nowhere any more. *)
Carries(h, d) == Busy(h) /\ handler[h].draft = d
InForm(d) == form # None /\ form.draft = d
InItem(d) == itemDraft = d
Drafted(d) ==
    /\ d \notin typed => ~InForm(d) /\ ~InItem(d) /\ made[d] = 0 /\ \A h \in Handlers : ~Carries(h, d)
    /\ ~(InForm(d) /\ InItem(d))
    /\ \A h, g \in Handlers : Carries(h, d) /\ Carries(g, d) => h = g
    /\ \A h \in Handlers : Carries(h, d) =>
           /\ InForm(d) => handler[h].kind = "saveEvent" /\ handler[h].place = "dialog"
           /\ InItem(d) => handler[h].kind = "addItem" /\ handler[h].place = "dialog"
    /\ made[d] # 0 /\ d \notin cutShort =>
           /\ made[d] = 1
           /\ \A h \in Handlers : Carries(h, d) => handler[h].step = "image"
           /\ InForm(d) \/ InItem(d) => \E h \in Handlers : Carries(h, d)
DraftsOnce == \A d \in Drafts : Drafted(d)

IInv == TypeOK /\ Lists /\ Told /\ Asking /\ DraftsOnce

-----------------------------------------------------------------------------
(* Sequences. *)

(* What RemoveAt leaves: the elements after the one removed move up. *)
LEMMA Removal ==
    ASSUME NEW S, NEW s \in Seq(S), NEW i \in 1..Len(s)
    PROVE  /\ RemoveAt(s, i) \in Seq(S) /\ Len(RemoveAt(s, i)) = Len(s) - 1
           /\ \A j \in 1..Len(s) - 1 : RemoveAt(s, i)[j] = IF j < i THEN s[j] ELSE s[j + 1]
<1> DEFINE front == SubSeq(s, 1, i - 1)
           back == SubSeq(s, i + 1, Len(s))
<1>1. Len(s) \in Nat /\ \A j \in 1..Len(s) : s[j] \in S
  BY LenProperties, ElementOfSeq
<1>2. front \in Seq(S) /\ Len(front) = i - 1 /\ \A j \in 1..i - 1 : front[j] = s[j]
  <2>1. \A j \in 1..i - 1 : s[j] \in S
    BY <1>1
  <2>2. /\ front \in Seq(S) /\ Len(front) = IF 1 <= i - 1 THEN i - 1 - 1 + 1 ELSE 0
        /\ \A j \in 1..i - 1 - 1 + 1 : front[j] = s[1 + j - 1]
    BY <1>1, <2>1, SubSeqProperties
  <2> QED BY <2>2, <1>1
<1>3. /\ back \in Seq(S) /\ Len(back) = Len(s) - i
      /\ \A j \in 1..Len(s) - i : back[j] = s[i + j]
  <2>1. \A j \in i + 1..Len(s) : s[j] \in S
    BY <1>1
  <2>2. /\ back \in Seq(S) /\ Len(back) = IF i + 1 <= Len(s) THEN Len(s) - (i + 1) + 1 ELSE 0
        /\ \A j \in 1..Len(s) - (i + 1) + 1 : back[j] = s[i + 1 + j - 1]
    BY <1>1, <2>1, SubSeqProperties
  <2> QED BY <2>2, <1>1
<1> HIDE DEF front, back
<1>4. /\ front \o back \in Seq(S) /\ Len(front \o back) = Len(s) - 1
      /\ \A j \in 1..Len(s) - 1 : (front \o back)[j] =
             IF j <= i - 1 THEN front[j] ELSE back[j - (i - 1)]
  <2>1. /\ front \o back \in Seq(S) /\ Len(front \o back) = Len(front) + Len(back)
        /\ \A j \in 1..Len(front) + Len(back) : (front \o back)[j] =
               IF j <= Len(front) THEN front[j] ELSE back[j - Len(front)]
    BY <1>2, <1>3, ConcatProperties
  <2>2. Len(front) + Len(back) = Len(s) - 1
    BY <1>1, <1>2, <1>3
  <2> QED BY <1>2, <2>1, <2>2
<1>5. \A j \in 1..Len(s) - 1 : (front \o back)[j] = IF j < i THEN s[j] ELSE s[j + 1]
  <2> TAKE j \in 1..Len(s) - 1
  <2>1. CASE j < i
    <3>1. j \in 1..i - 1
      BY <1>1, <2>1
    <3> QED BY <1>1, <1>2, <1>4, <2>1, <3>1
  <2>2. CASE ~(j < i)
    <3>1. j - (i - 1) \in 1..Len(s) - i /\ i + (j - (i - 1)) = j + 1 /\ ~(j <= i - 1)
      BY <1>1, <2>2
    <3> QED BY <1>3, <1>4, <2>2, <3>1
  <2> QED BY <2>1, <2>2
<1>6. RemoveAt(s, i) = front \o back
  BY DEF RemoveAt, front, back
<1> QED BY <1>4, <1>5, <1>6

-----------------------------------------------------------------------------
(* What handlers are. *)

LEMMA TaskFields ==
    ASSUME TypeOK, NEW h \in Handlers
    PROVE  /\ handler[h] \in Tasks \cup {Idle}
           /\ Busy(h) => handler[h] \in Tasks
           /\ ~Busy(h) => handler[h] = Idle
<1>1. \A t \in Tasks : t.kind # "idle"
  BY DEF Tasks, Kinds
<1>2. Idle.kind = "idle"
  BY DEF Idle
<1>3. handler[h] \in Tasks \cup {Idle}
  BY DEF TypeOK
<1> QED BY <1>1, <1>2, <1>3 DEF Busy

(* The handlers in S ended; of the others only the place changed, of kinds in K. *)
Same(t, u) ==
    /\ t.kind = u.kind /\ t.step = u.step /\ t.event = u.event /\ t.item = u.item
    /\ t.draft = u.draft /\ t.to = u.to /\ t.image = u.image
After(K, S) ==
    /\ handler' \in [Handlers -> Tasks \cup {Idle}]
    /\ \A h \in S : handler'[h] = Idle
    /\ \A h \in Handlers \ S :
           IF handler[h].kind \in K THEN Same(handler'[h], handler[h]) ELSE handler'[h] = handler[h]

LEMMA LeaveEach ==
    ASSUME TypeOK, NEW K \in SUBSET Kinds, NEW p \in {"row closed", "gone"}, NEW h \in Handlers
    PROVE  /\ Leave(K, p)[h] \in Tasks \cup {Idle}
           /\ IF handler[h].kind \in K THEN Same(Leave(K, p)[h], handler[h])
              ELSE Leave(K, p)[h] = handler[h]
<1> DEFINE f == Leave(K, p)
<1>1. f[h] = IF handler[h].kind \in K /\ handler[h].place # "gone"
             THEN [handler[h] EXCEPT !.place = p] ELSE handler[h]
  BY DEF Leave
<1> HIDE DEF f
<1>2. CASE handler[h].kind \in K
  <2>1. handler[h] \in Tasks
    BY <1>2, TaskFields DEF Busy, Kinds
  <2>2. ASSUME NEW t \in Tasks
        PROVE  [t EXCEPT !.place = p] \in Tasks /\ Same([t EXCEPT !.place = p], t)
    BY <2>2 DEF Tasks, Same
  <2>3. CASE handler[h].place # "gone"
    BY <1>1, <1>2, <2>1, <2>2, <2>3 DEF f
  <2>4. CASE handler[h].place = "gone"
    BY <1>1, <1>2, <2>1, <2>4 DEF f, Same
  <2> QED BY <2>3, <2>4
<1>3. CASE handler[h].kind \notin K
  BY <1>1, <1>3, TaskFields DEF f
<1> QED BY <1>2, <1>3

LEMMA AfterLeave ==
    ASSUME TypeOK, NEW K \in SUBSET Kinds, NEW p \in {"row closed", "gone"}, handler' = Leave(K, p)
    PROVE  After(K, {})
<1>1. handler' = [h \in Handlers |-> handler'[h]]
  BY DEF Leave
<1>2. \A h \in Handlers : /\ Leave(K, p)[h] \in Tasks \cup {Idle}
                          /\ IF handler[h].kind \in K THEN Same(Leave(K, p)[h], handler[h])
                             ELSE Leave(K, p)[h] = handler[h]
  BY LeaveEach
<1> QED BY <1>1, <1>2 DEF After

LEMMA AfterLeaveEnding ==
    ASSUME TypeOK, NEW K \in SUBSET Kinds, NEW p \in {"row closed", "gone"}, NEW g \in Handlers,
           handler' = [Leave(K, p) EXCEPT ![g] = Idle]
    PROVE  After(K, {g})
<1>1. handler' = [h \in Handlers |-> IF h = g THEN Idle ELSE Leave(K, p)[h]]
  BY DEF Leave
<1>2. \A h \in Handlers : /\ Leave(K, p)[h] \in Tasks \cup {Idle}
                          /\ IF handler[h].kind \in K THEN Same(Leave(K, p)[h], handler[h])
                             ELSE Leave(K, p)[h] = handler[h]
  BY LeaveEach
<1> QED BY <1>1, <1>2 DEF After

LEMMA AfterNothing == ASSUME TypeOK, UNCHANGED handler PROVE After({}, {})
BY TaskFields DEF After, TypeOK

LEMMA AfterEnd ==
    ASSUME TypeOK, NEW h \in Handlers, handler' = [handler EXCEPT ![h] = Idle]
    PROVE  After({}, {h})
BY TaskFields DEF After, TypeOK

(* What follows for every handler. *)
Kept(K, S) ==
    \A h \in Handlers :
        /\ h \in S => ~Busy(h)'
        /\ h \notin S =>
               /\ Busy(h)' <=> Busy(h)
               /\ handler'[h].kind = handler[h].kind
               /\ Same(handler'[h], handler[h]) /\ Target(handler'[h]) = Target(handler[h])
               /\ handler[h].kind \notin K => handler'[h].place = handler[h].place

LEMMA AfterKeeps ==
    ASSUME TypeOK, NEW K \in SUBSET Kinds, NEW S \in SUBSET Handlers, After(K, S)
    PROVE  Kept(K, S)
<1> SUFFICES ASSUME NEW h \in Handlers
             PROVE  /\ h \in S => ~Busy(h)'
                    /\ h \notin S =>
                           /\ Busy(h)' <=> Busy(h)
                           /\ handler'[h].kind = handler[h].kind
                           /\ Same(handler'[h], handler[h]) /\ Target(handler'[h]) = Target(handler[h])
                           /\ handler[h].kind \notin K => handler'[h].place = handler[h].place
  BY DEF Kept
<1>1. h \in S => ~Busy(h)'
  BY DEF After, Busy, Idle
<1>2. h \notin S => Same(handler'[h], handler[h]) \/ handler'[h] = handler[h]
  BY DEF After
<1>3. h \notin S => Same(handler'[h], handler[h])
  BY <1>2 DEF Same
<1> QED BY <1>1, <1>3 DEF After, Same, Busy, Target

LEMMA AfterHalfway ==
    ASSUME TypeOK, NEW K \in SUBSET Kinds, NEW S \in SUBSET Handlers, After(K, S),
           \A h \in S : Busy(h) => handler[h].step # "image"
    PROVE  NoneHalfway' => NoneHalfway
<1>1. Kept(K, S)
  BY AfterKeeps
<1> QED BY <1>1 DEF Kept, NoneHalfway, Same

LEMMA AfterAsking ==
    ASSUME IInv, NEW K \in SUBSET Kinds, NEW S \in SUBSET Handlers, After(K, S),
           accepted' = accepted, confirming' = None \/ (confirming' = confirming /\ confirming \notin S)
    PROVE  /\ Asking'
           /\ confirming' # None => handler'[confirming'].kind # "idle" /\ handler'[confirming'].step = "ask"
<1>1. \A h \in Handlers : Deletes(h) => Busy(h)
  BY DEF Deletes, Busy
<1>2. \A h \in Handlers : Deletes(h)' => Busy(h)'
  BY DEF Deletes, Busy
<1>3. Kept(K, S) /\ Asking
  BY AfterKeeps DEF IInv
<1>4. confirming # None => confirming \in Handlers /\ Busy(confirming) /\ handler[confirming].step = "ask"
  BY DEF IInv, Asking, TypeOK, Busy
<1>5. confirming' \in Handlers \cup {None}
  BY <1>3 DEF Asking
<1>6. ASSUME NEW h \in Handlers, Busy(h)', handler'[h].step = "ask"
      PROVE  Target(handler'[h]) \in Events \cup Items
  BY <1>3, <1>6 DEF Asking, Kept, Same
<1>7. ASSUME NEW h \in Handlers, Deletes(h)', handler'[h].step # "ask"
      PROVE  Target(handler'[h]) \in accepted'
  BY <1>2, <1>3, <1>7 DEF Asking, Kept, Same, Deletes
<1>8. Asking'
  BY <1>5, <1>6, <1>7 DEF Asking
<1>9. confirming' # None => handler'[confirming'].kind # "idle" /\ handler'[confirming'].step = "ask"
  BY <1>3, <1>4 DEF Kept, Same, Busy
<1> QED BY <1>8, <1>9

LEMMA AfterDrafts ==
    ASSUME IInv, NEW K \in SUBSET Kinds, NEW S \in SUBSET Handlers, After(K, S),
           typed' = typed, cutShort \subseteq cutShort',
           form' \in {form, None}, "saveEvent" \in K => form' = None,
           itemDraft' \in {itemDraft, None}, "addItem" \in K => itemDraft' = None,
           \A d \in Drafts : \/ made'[d] = made[d]
                             \/ /\ made'[d] = made[d] + 1
                                /\ \E h \in S : Carries(h, d) /\ handler[h].step = "send",
           \A d \in Drafts, h \in S : Carries(h, d) =>
               \/ d \in cutShort'
               \/ ~InForm(d)' /\ ~InItem(d)'
               \/ made'[d] = made[d] /\ handler[h].step # "image"
    PROVE  DraftsOnce'
<1> SUFFICES ASSUME NEW d \in Drafts PROVE Drafted(d)'
  BY DEF DraftsOnce
<1>1. Drafted(d) /\ d # None /\ made[d] \in Nat
  BY ConsoleAssumption DEF IInv, DraftsOnce, TypeOK
<1>2. \A h \in Handlers : /\ Carries(h, d)' <=> h \notin S /\ Carries(h, d)
                          /\ h \notin S /\ Carries(h, d) =>
                                 /\ handler'[h].kind = handler[h].kind /\ handler'[h].step = handler[h].step
                                 /\ handler[h].kind \notin K => handler'[h].place = handler[h].place
  <2>1. Kept(K, S)
    BY AfterKeeps DEF IInv
  <2> QED BY <2>1 DEF Kept, Carries, Same
<1>3. (InForm(d)' => InForm(d) /\ "saveEvent" \notin K) /\ (InItem(d)' => InItem(d) /\ "addItem" \notin K)
  BY <1>1 DEF InForm, InItem
<1>4. made'[d] # made[d] => d \in typed
  BY <1>1 DEF Drafted
<1>5. d \notin typed' => ~InForm(d)' /\ ~InItem(d)' /\ made'[d] = 0 /\ \A h \in Handlers : ~Carries(h, d)'
  BY <1>1, <1>2, <1>3, <1>4 DEF Drafted
<1>6. ~(InForm(d)' /\ InItem(d)') /\ \A h, g \in Handlers : Carries(h, d)' /\ Carries(g, d)' => h = g
  BY <1>1, <1>2, <1>3 DEF Drafted
<1>7. \A h \in Handlers : Carries(h, d)' =>
           /\ InForm(d)' => handler'[h].kind = "saveEvent" /\ handler'[h].place = "dialog"
           /\ InItem(d)' => handler'[h].kind = "addItem" /\ handler'[h].place = "dialog"
  BY <1>1, <1>2, <1>3 DEF Drafted
<1>8. ASSUME made'[d] # 0, d \notin cutShort'
      PROVE  /\ made'[d] = 1
             /\ \A h \in Handlers : Carries(h, d)' => handler'[h].step = "image"
             /\ InForm(d)' \/ InItem(d)' => \E h \in Handlers : Carries(h, d)'
  <2>1. CASE made'[d] = made[d]
    <3>1. /\ made[d] = 1
          /\ \A h \in Handlers : Carries(h, d) => handler[h].step = "image"
          /\ InForm(d) \/ InItem(d) => \E h \in Handlers : Carries(h, d)
      BY <1>1, <1>8, <2>1 DEF Drafted
    <3>2. ASSUME InForm(d)' \/ InItem(d)' PROVE \E h \in Handlers : Carries(h, d)'
      <4>1. PICK h \in Handlers : Carries(h, d) /\ handler[h].step = "image"
        BY <1>3, <3>1, <3>2
      <4>2. h \notin S
        BY <1>8, <3>2, <4>1
      <4> QED BY <1>2, <4>1, <4>2
    <3> QED BY <1>2, <2>1, <3>1, <3>2
  <2>2. CASE made'[d] # made[d]
    <3>1. PICK h \in S : Carries(h, d) /\ handler[h].step = "send" /\ made'[d] = made[d] + 1
      BY <2>2
    <3>2. made[d] = 0
      BY <1>1, <1>8, <3>1 DEF Drafted
    <3>3. \A g \in Handlers : ~Carries(g, d)'
      BY <1>1, <1>2, <3>1 DEF Drafted
    <3>4. ~InForm(d)' /\ ~InItem(d)'
      BY <1>8, <2>2, <3>1
    <3> QED BY <3>1, <3>2, <3>3, <3>4
  <2> QED BY <2>1, <2>2
<1> QED BY <1>5, <1>6, <1>7, <1>8 DEF Drafted, Carries, InForm, InItem

-----------------------------------------------------------------------------
(* The list and its requests. *)

LEMMA LoadsAre ==
    ASSUME Lists
    PROVE  /\ Len(loads) \in Nat /\ DOMAIN loads = 1..Len(loads)
           /\ \A i \in 1..Len(loads) : loads[i] \in Answered
BY LenProperties, ElementOfSeq DEF Lists

LEMMA LoadKeeps ==
    ASSUME IInv, Load, list' = list, Within(db', ids'), ids \subseteq ids'
    PROVE  /\ Lists' /\ Coming' /\ Len(loads') <= MaxLoads
<1> DEFINE aged == [i \in DOMAIN loads |-> [loads[i] EXCEPT !.newest = FALSE]]
           asked == [got |-> None, newest |-> TRUE]
<1>1. /\ Len(loads) \in Nat /\ DOMAIN loads = 1..Len(loads)
      /\ \A i \in 1..Len(loads) : loads[i] \in Answered
  BY LoadsAre DEF IInv
<1>2. ASSUME NEW l \in Answered
      PROVE  LET m == [l EXCEPT !.newest = FALSE] IN m \in Answered /\ m.got = l.got /\ ~m.newest
  BY <1>2 DEF Answered
<1>3. /\ aged \in [1..Len(loads) -> Answered]
      /\ \A i \in 1..Len(loads) : aged[i].got = loads[i].got /\ ~aged[i].newest
  BY <1>1, <1>2
<1>4. aged \in Seq(Answered)
  BY <1>1, <1>3, SeqDef
<1>5. Len(aged) = Len(loads)
  <2>1. DOMAIN aged = 1..Len(aged) /\ Len(aged) \in Nat
    BY <1>4, LenProperties
  <2> QED BY <1>1, <1>3, <2>1
<1>6. asked \in Answered /\ asked.got = None /\ asked.newest
  BY DEF Answered
<1>7. loads' = Append(aged, asked) /\ Len(loads) < MaxLoads
  BY DEF Load
<1> HIDE DEF aged, asked
<1>8. /\ loads' \in Seq(Answered) /\ Len(loads') = Len(loads) + 1
      /\ \A i \in 1..Len(loads) : loads'[i] = aged[i]
      /\ loads'[Len(loads) + 1] = asked
  BY <1>4, <1>5, <1>6, <1>7, AppendProperties
<1>9. Len(loads') <= MaxLoads /\ Len(loads) + 1 \in 1..Len(loads')
  BY <1>1, <1>7, <1>8, ConsoleAssumption
<1>10. \A i \in 1..Len(loads') :
           \/ i = Len(loads) + 1
           \/ i \in 1..Len(loads) /\ ~loads'[i].newest /\ loads'[i].got = loads[i].got
  BY <1>1, <1>3, <1>8
<1>11. Coming'
  BY <1>6, <1>8, <1>9 DEF Coming
<1>12. Within(list', ids') /\ \A i \in 1..Len(loads) : loads[i].got # None => Within(loads[i].got, ids')
  BY DEF IInv, Lists, Within
<1>13. \A i \in 1..Len(loads') : loads'[i].got # None => Within(loads'[i].got, ids')
  BY <1>6, <1>8, <1>10, <1>12
<1>14. \A i, j \in 1..Len(loads') : loads'[i].newest /\ loads'[j].newest => i = j
  BY <1>10
<1> QED BY <1>8, <1>9, <1>11, <1>12, <1>13, <1>14 DEF Lists

LEMMA SameLists ==
    ASSUME IInv, UNCHANGED <<db, ids, list, loads>>, behind' \in {behind, TRUE}, NoneHalfway' => NoneHalfway
    PROVE  Lists' /\ Told'
BY DEF IInv, Lists, Within, Told, Coming, Come

LEMMA LoadServedKeeps ==
    ASSUME IInv, NEW i \in DOMAIN loads, LoadServed(i)
    PROVE  IInv'
<1> USE DEF LoadServed, forms, history
<1>1. /\ Len(loads) \in Nat /\ DOMAIN loads = 1..Len(loads)
      /\ \A j \in 1..Len(loads) : loads[j] \in Answered
      /\ loads \in Seq(Answered) /\ db \in Tables
  BY LoadsAre DEF IInv, Lists, TypeOK
<1>2. i \in 1..Len(loads) /\ loads[i].got = None
  BY <1>1
<1>3. [loads[i] EXCEPT !.got = db] \in Answered
  BY <1>1, <1>2 DEF Answered
<1>4. /\ loads' \in Seq(Answered) /\ Len(loads') = Len(loads)
      /\ \A j \in 1..Len(loads) : loads'[j] = IF j = i THEN [loads[i] EXCEPT !.got = db] ELSE loads[j]
  BY <1>1, <1>2, <1>3, ExceptSeq
<1>5. \A j \in 1..Len(loads) : /\ loads'[j].newest = loads[j].newest
                               /\ loads'[j].got = IF j = i THEN db ELSE loads[j].got
  BY <1>1, <1>2, <1>4 DEF Answered
<1>6. Lists'
  BY <1>4, <1>5 DEF IInv, Lists, Within
<1>7. Told'
  BY <1>4, <1>5 DEF IInv, Told, NoneHalfway, Busy, Coming, Come
<1>8. TypeOK'
  <2>1. Len(loads') <= MaxLoads /\ \A j \in DOMAIN loads' : loads'[j] \in [got : Tables \cup {None}, newest : BOOLEAN]
    BY <1>4, <1>6, LoadsAre DEF Answered, IInv, TypeOK, Lists
  <2> QED BY <2>1 DEF IInv, TypeOK
<1>9. Asking' /\ DraftsOnce'
  BY DEF IInv, Asking, DraftsOnce, Drafted, Carries, InForm, InItem, Busy, Deletes
<1> QED BY <1>6, <1>7, <1>8, <1>9 DEF IInv

(* Steps of dialogs and of answers: nothing is asked of the server. *)
LEMMA QuietKeeps ==
    ASSUME IInv, NEW K \in SUBSET Kinds, NEW S \in SUBSET Handlers, After(K, S),
           \A h \in S : Busy(h) => handler[h].step = "ask",
           confirming' = None \/ (confirming' = confirming /\ confirming \notin S),
           UNCHANGED <<db, ids, typed, made, cutShort, accepted, clicks>>,
           form' \in {form, None}, "saveEvent" \in K => form' = None,
           itemDraft' \in {itemDraft, None}, "addItem" \in K => itemDraft' = None,
           itemsOf' \in Events \cup {None}, editing' \in Items \cup {None},
           list' \in Tables, behind' \in BOOLEAN, Len(loads') <= MaxLoads, Lists', Told'
    PROVE  IInv'
<1>1. /\ Asking'
      /\ confirming' # None => handler'[confirming'].kind # "idle" /\ handler'[confirming'].step = "ask"
  BY AfterAsking
<1>2. DraftsOnce'
  <2>1. \A d \in Drafts, h \in S : Carries(h, d) => handler[h].step # "image"
    BY DEF Carries
  <2> QED BY <2>1, AfterDrafts
<1>3. handler' \in [Handlers -> Tasks \cup {Idle}]
  BY DEF After
<1>4. \A e \in Events : list'[e] # None => e \in ids /\ list'[e].items \subseteq ids
  BY DEF Lists, Within
<1>5. \A j \in DOMAIN loads' : loads'[j] \in [got : Tables \cup {None}, newest : BOOLEAN]
  <2>1. loads' \in Seq(Answered)
    BY DEF Lists
  <2> QED BY <2>1, LenProperties, ElementOfSeq DEF Answered
<1>6. TypeOK'
  BY <1>1, <1>3, <1>4, <1>5 DEF IInv, TypeOK
<1> QED BY <1>1, <1>2, <1>6 DEF IInv

LEMMA LoadEndsLists ==
    ASSUME IInv, NEW i \in DOMAIN loads, NEW ok \in BOOLEAN, LoadEnds(i, ok), NoneHalfway' => NoneHalfway
    PROVE  /\ Lists' /\ Told' /\ Len(loads') <= MaxLoads
           /\ list' \in Tables /\ behind' \in BOOLEAN
<1>1. /\ Len(loads) \in Nat /\ DOMAIN loads = 1..Len(loads)
      /\ \A j \in 1..Len(loads) : loads[j] \in Answered
      /\ loads \in Seq(Answered) /\ i \in 1..Len(loads)
  BY LoadsAre DEF IInv, Lists
<1>2. /\ loads' \in Seq(Answered) /\ Len(loads') = Len(loads) - 1
      /\ \A j \in 1..Len(loads) - 1 : loads'[j] = IF j < i THEN loads[j] ELSE loads[j + 1]
  BY <1>1, Removal DEF LoadEnds
<1>3. /\ ok => loads[i].got # None
      /\ list' = IF ok THEN loads[i].got ELSE list
      /\ behind' = IF ok THEN ~loads[i].newest ELSE behind \/ loads[i].newest
      /\ UNCHANGED <<db, ids>>
  BY DEF LoadEnds
<1>4. \A j \in 1..Len(loads') : \E n \in 1..Len(loads) \ {i} : loads'[j] = loads[n]
  <2> TAKE j \in 1..Len(loads')
  <2>1. CASE j < i
    <3>1. j \in 1..Len(loads) \ {i}
      BY <1>1, <1>2, <2>1
    <3> QED BY <1>1, <1>2, <2>1, <3>1
  <2>2. CASE ~(j < i)
    <3>1. j + 1 \in 1..Len(loads) \ {i}
      BY <1>1, <1>2, <2>2
    <3> QED BY <1>1, <1>2, <2>2, <3>1
  <2> QED BY <2>1, <2>2
<1>5. \A n \in 1..Len(loads) \ {i} : \E j \in 1..Len(loads') : loads'[j] = loads[n]
  <2> TAKE n \in 1..Len(loads) \ {i}
  <2>1. CASE n < i
    <3>1. n \in 1..Len(loads')
      BY <1>1, <1>2, <2>1
    <3> QED BY <1>1, <1>2, <2>1, <3>1
  <2>2. CASE ~(n < i)
    <3>1. n - 1 \in 1..Len(loads') /\ ~(n - 1 < i) /\ (n - 1) + 1 = n
      BY <1>1, <1>2, <2>2
    <3>2. loads'[n - 1] = loads[n]
      BY <1>1, <1>2, <3>1
    <3> QED BY <3>1, <3>2
  <2> QED BY <2>1, <2>2
<1>6. \A j, k \in 1..Len(loads') : loads'[j].newest /\ loads'[k].newest => j = k
  <2> SUFFICES ASSUME NEW j \in 1..Len(loads'), NEW k \in 1..Len(loads'),
                      loads'[j].newest, loads'[k].newest
               PROVE  j = k
    OBVIOUS
  <2> DEFINE at(x) == IF x < i THEN x ELSE x + 1
  <2>1. /\ at(j) \in 1..Len(loads) /\ loads'[j] = loads[at(j)]
        /\ at(k) \in 1..Len(loads) /\ loads'[k] = loads[at(k)]
    BY <1>1, <1>2
  <2>2. at(j) = at(k)
    <3> HIDE DEF at
    <3> QED BY <2>1 DEF IInv, Lists
  <2> QED BY <1>1, <1>2, <2>2
<1>7. Within(list', ids')
  BY <1>1, <1>3 DEF IInv, Lists
<1>8. Lists'
  <2>1. \A j \in 1..Len(loads') : loads'[j].got # None => Within(loads'[j].got, ids')
    BY <1>3, <1>4 DEF IInv, Lists
  <2> QED BY <1>2, <1>3, <1>6, <1>7, <2>1 DEF IInv, Lists
<1>9. list' \in Tables /\ behind' \in BOOLEAN
  BY <1>1, <1>3 DEF IInv, TypeOK, Answered
<1>10. Len(loads') <= MaxLoads
  BY <1>1, <1>2, ConsoleAssumption DEF IInv, TypeOK
<1>11. Told'
  <2> SUFFICES ASSUME NoneHalfway PROVE Coming' \/ Come'
    BY DEF Told
  <2>1. Coming \/ Come
    BY DEF IInv, Told
  <2>2. CASE Come
    <3>1. \A j \in 1..Len(loads') : ~loads'[j].newest
      BY <1>4, <2>2 DEF Come
    <3>2. list' = db \/ behind'
      BY <1>1, <1>3, <2>2 DEF Come
    <3> QED BY <1>3, <3>1, <3>2 DEF Come
  <2>3. CASE Coming
    <3>1. PICK n \in 1..Len(loads) : loads[n].newest /\ loads[n].got \in {None, db}
      BY <2>3 DEF Coming
    <3>2. CASE n = i
      <4>1. \A j \in 1..Len(loads') : ~loads'[j].newest
        BY <1>1, <1>4, <3>1, <3>2 DEF IInv, Lists
      <4>2. list' = db \/ behind'
        BY <1>3, <3>1, <3>2
      <4> QED BY <1>3, <4>1, <4>2 DEF Come
    <3>3. CASE n # i
      <4>1. PICK j \in 1..Len(loads') : loads'[j] = loads[n]
        BY <1>5, <3>3
      <4> QED BY <1>3, <3>1, <4>1 DEF Coming
    <3> QED BY <3>2, <3>3
  <2> QED BY <2>1, <2>2, <2>3
<1> QED BY <1>8, <1>9, <1>10, <1>11

-----------------------------------------------------------------------------
(* Dialogs that close, and answers that close them. *)

LEMMA LoadEndsKeeps ==
    ASSUME IInv, NEW i \in DOMAIN loads, NEW ok \in BOOLEAN, LoadEnds(i, ok)
    PROVE  IInv'
<1>0. TypeOK
  BY DEF IInv
<1>1. /\ UNCHANGED <<db, ids, form, itemsOf, confirming, typed, made, cutShort, accepted, clicks>>
      /\ Rerender(list')
  BY DEF LoadEnds
<1>2. PICK K \in SUBSET Kinds : After(K, {}) /\ "saveEvent" \notin K
                              /\ ("addItem" \in K => itemDraft' = None)
  <2>1. CASE UNCHANGED handler
    BY <1>0, <2>1, AfterNothing
  <2>2. CASE handler' = Leave(ItemKinds, "gone") /\ itemDraft' = None
    <3>1. ItemKinds \in SUBSET Kinds /\ "saveEvent" \notin ItemKinds
      BY DEF ItemKinds, Kinds
    <3>2. After(ItemKinds, {})
      BY <1>0, <2>2, <3>1, AfterLeave
    <3> QED BY <2>2, <3>1, <3>2
  <2>3. CASE handler' = Leave({"saveItem"}, "row closed")
    <3>1. {"saveItem"} \in SUBSET Kinds
      BY DEF Kinds
    <3>2. After({"saveItem"}, {})
      BY <1>0, <2>3, <3>1, AfterLeave
    <3> QED BY <3>1, <3>2
  <2> QED BY <1>1, <2>1, <2>2, <2>3 DEF Rerender
<1>3. itemDraft' \in {itemDraft, None} /\ editing' \in {editing, None}
  BY <1>1 DEF Rerender
<1>4. NoneHalfway' => NoneHalfway
  BY <1>0, <1>2, AfterHalfway
<1>5. /\ Lists' /\ Told' /\ Len(loads') <= MaxLoads
      /\ list' \in Tables /\ behind' \in BOOLEAN
  BY <1>4, LoadEndsLists
<1>6. itemsOf' \in Events \cup {None} /\ editing' \in Items \cup {None}
  BY <1>0, <1>1, <1>3 DEF TypeOK
<1> QED BY <1>1, <1>2, <1>3, <1>5, <1>6, QuietKeeps

LEMMA CloseFormKeeps == IInv /\ CloseForm => IInv'
<1> SUFFICES ASSUME IInv, CloseForm PROVE IInv'
  OBVIOUS
<1>1. TypeOK /\ {"saveEvent"} \in SUBSET Kinds
  BY DEF IInv, Kinds
<1>2. /\ UNCHANGED <<db, ids, list, loads, itemsOf, itemDraft, editing, confirming, history, clicks>>
      /\ form' = None /\ handler' = Leave({"saveEvent"}, "gone")
  BY DEF CloseForm
<1>3. After({"saveEvent"}, {})
  BY <1>1, <1>2, AfterLeave
<1>4. NoneHalfway' => NoneHalfway
  BY <1>1, <1>3, AfterHalfway
<1>5. Lists' /\ Told'
  BY <1>2, <1>4, SameLists DEF history
<1>6. /\ itemsOf' \in Events \cup {None} /\ editing' \in Items \cup {None}
      /\ list' \in Tables /\ behind' \in BOOLEAN /\ Len(loads') <= MaxLoads
  BY <1>1, <1>2 DEF TypeOK, history
<1>7. ASSUME NEW K \in SUBSET Kinds, NEW S \in SUBSET Handlers, K = {"saveEvent"}, S = {}, After(K, S)
      PROVE  IInv'
  BY <1>1, <1>2, <1>5, <1>6, <1>7, QuietKeeps DEF history
<1> QED BY <1>1, <1>3, <1>7

LEMMA CloseItemsKeeps == IInv /\ CloseItems => IInv'
<1> SUFFICES ASSUME IInv, CloseItems PROVE IInv'
  OBVIOUS
<1>1. TypeOK /\ ItemKinds \in SUBSET Kinds /\ "saveEvent" \notin ItemKinds
  BY DEF IInv, Kinds, ItemKinds
<1>2. /\ UNCHANGED <<db, ids, list, loads, form, confirming, history, clicks>>
      /\ itemsOf' = None /\ itemDraft' = None /\ editing' = None
      /\ handler' = Leave(ItemKinds, "gone")
  BY DEF CloseItems
<1>3. After(ItemKinds, {})
  BY <1>1, <1>2, AfterLeave
<1>4. NoneHalfway' => NoneHalfway
  BY <1>1, <1>3, AfterHalfway
<1>5. Lists' /\ Told'
  BY <1>2, <1>4, SameLists DEF history
<1>6. list' \in Tables /\ behind' \in BOOLEAN /\ Len(loads') <= MaxLoads
  BY <1>1, <1>2 DEF TypeOK, history
<1> QED BY <1>1, <1>2, <1>3, <1>5, <1>6, QuietKeeps DEF history

LEMMA EditItemKeeps ==
    ASSUME IInv, NEW i \in Items \cup {None}, EditItem(i)
    PROVE  IInv'
<1>1. TypeOK /\ {"saveItem"} \in SUBSET Kinds
  BY DEF IInv, Kinds
<1>2. /\ UNCHANGED <<db, ids, list, loads, form, itemsOf, itemDraft, confirming, history, clicks>>
      /\ editing' = i /\ handler' = Leave({"saveItem"}, "row closed")
  BY DEF EditItem
<1>3. After({"saveItem"}, {})
  BY <1>1, <1>2, AfterLeave
<1>4. NoneHalfway' => NoneHalfway
  BY <1>1, <1>3, AfterHalfway
<1>5. Lists' /\ Told'
  BY <1>2, <1>4, SameLists DEF history
<1>6. /\ itemsOf' \in Events \cup {None}
      /\ list' \in Tables /\ behind' \in BOOLEAN /\ Len(loads') <= MaxLoads
  BY <1>1, <1>2 DEF TypeOK, history
<1>7. ASSUME NEW K \in SUBSET Kinds, NEW S \in SUBSET Handlers, K = {"saveItem"}, S = {}, After(K, S)
      PROVE  IInv'
  BY <1>1, <1>2, <1>5, <1>6, <1>7, QuietKeeps DEF history
<1> QED BY <1>1, <1>3, <1>7

LEMMA EscapeKeeps == IInv /\ Escape => IInv'
<1> SUFFICES ASSUME IInv, Escape PROVE IInv'
  OBVIOUS
<1>1. TypeOK /\ ItemKinds \in SUBSET Kinds /\ "saveEvent" \notin ItemKinds
  BY DEF IInv, Kinds, ItemKinds
<1>2. /\ UNCHANGED <<db, ids, list, loads, form, history, clicks>>
      /\ itemsOf' = None /\ itemDraft' = None /\ editing' = None /\ confirming' = None
      /\ handler' = [Leave(ItemKinds, "gone") EXCEPT ![confirming] = Idle]
  BY DEF Escape
<1>3. /\ confirming \in Handlers /\ {confirming} \in SUBSET Handlers
      /\ handler[confirming].step = "ask"
  BY DEF Escape, IInv, Asking, TypeOK
<1>4. After(ItemKinds, {confirming})
  BY <1>1, <1>2, <1>3, AfterLeaveEnding
<1>5. NoneHalfway' => NoneHalfway
  BY <1>1, <1>3, <1>4, AfterHalfway
<1>6. Lists' /\ Told'
  BY <1>2, <1>5, SameLists DEF history
<1>7. list' \in Tables /\ behind' \in BOOLEAN /\ Len(loads') <= MaxLoads
  BY <1>1, <1>2 DEF TypeOK, history
<1> QED BY <1>1, <1>2, <1>3, <1>4, <1>6, <1>7, QuietKeeps DEF history

LEMMA StillKeeps ==
    ASSUME IInv, UNCHANGED vars \/ \E e \in Events : ManageItems(e)
    PROVE  IInv'
<1>1. TypeOK
  BY DEF IInv
<1>2. /\ UNCHANGED <<db, ids, list, loads, form, handler, confirming, history, clicks>>
      /\ itemsOf' \in {itemsOf} \cup Events /\ itemDraft' \in {itemDraft, None} /\ editing' \in {editing, None}
  BY DEF ManageItems, vars, forms
<1>3. After({}, {})
  BY <1>1, <1>2, AfterNothing
<1>4. NoneHalfway' => NoneHalfway
  BY <1>2 DEF NoneHalfway, Busy
<1>5. Lists' /\ Told'
  BY <1>2, <1>4, SameLists DEF history
<1>6. /\ itemsOf' \in Events \cup {None} /\ editing' \in Items \cup {None}
      /\ list' \in Tables /\ behind' \in BOOLEAN /\ Len(loads') <= MaxLoads
  BY <1>1, <1>2 DEF TypeOK, history
<1>7. ASSUME NEW K \in SUBSET Kinds, NEW S \in SUBSET Handlers, K = {}, S = {}, After(K, S) PROVE IInv'
  BY <1>2, <1>5, <1>6, <1>7, QuietKeeps DEF history
<1> QED BY <1>3, <1>7

(* The confirmation is answered: the handler may go on, or ends. *)
LEMMA SettleKeeps ==
    ASSUME IInv, NEW ok \in BOOLEAN, Settle(ok)
    PROVE  IInv'
<1> DEFINE h == confirming
<1>0. TypeOK
  BY DEF IInv
<1>1. h \in Handlers /\ Busy(h) /\ handler[h].step = "ask" /\ handler[h] \in Tasks
  BY TaskFields DEF Settle, IInv, Asking, TypeOK, Busy
<1>2. /\ UNCHANGED <<db, ids, list, loads, forms, typed, made, cutShort, behind, clicks>>
      /\ confirming' = None
      /\ accepted' = accepted \cup (IF ok THEN {Target(handler[h])} ELSE {})
  BY DEF Settle
<1>3. Target(handler[h]) \in Events \cup Items
  BY <1>1 DEF IInv, Asking
<1>4. CASE ~ok
  <2>1. handler' = [handler EXCEPT ![h] = Idle] /\ accepted' = accepted
    BY <1>2, <1>4 DEF Settle
  <2>2. After({}, {h})
    BY <1>0, <1>1, <2>1, AfterEnd
  <2>3. NoneHalfway' => NoneHalfway
    BY <1>0, <1>1, <2>1 DEF NoneHalfway, Busy, TypeOK
  <2>4. Lists' /\ Told'
    BY <1>2, <2>3, SameLists
  <2>5. /\ itemsOf' \in Events \cup {None} /\ editing' \in Items \cup {None}
        /\ list' \in Tables /\ behind' \in BOOLEAN /\ Len(loads') <= MaxLoads
    BY <1>0, <1>2 DEF TypeOK, forms
  <2>6. ASSUME NEW K \in SUBSET Kinds, NEW S \in SUBSET Handlers, K = {}, S = {h}, After(K, S) PROVE IInv'
    BY <1>1, <1>2, <2>1, <2>4, <2>5, <2>6, QuietKeeps DEF forms
  <2> QED BY <1>1, <2>2, <2>6
<1>5. CASE ok
  <2>1. handler' = [handler EXCEPT ![h] = [handler[h] EXCEPT !.step = "send"]]
    BY <1>1, <1>5 DEF Settle
  <2>2. ASSUME NEW t \in Tasks
        PROVE  LET u == [t EXCEPT !.step = "send"]
               IN  /\ u \in Tasks /\ u.step = "send" /\ u.kind = t.kind /\ u.draft = t.draft
                   /\ u.event = t.event /\ u.item = t.item /\ u.place = t.place
    BY <2>2 DEF Tasks
  <2>3. /\ handler' \in [Handlers -> Tasks \cup {Idle}]
        /\ handler'[h].step = "send" /\ handler'[h].kind = handler[h].kind
        /\ handler'[h].draft = handler[h].draft /\ handler'[h].place = handler[h].place
        /\ Target(handler'[h]) = Target(handler[h])
        /\ \A g \in Handlers \ {h} : handler'[g] = handler[g]
    BY <1>0, <1>1, <2>1, <2>2 DEF TypeOK, Target
  <2>4. NoneHalfway' => NoneHalfway
    BY <1>1, <2>3 DEF NoneHalfway, Busy
  <2>5. Lists' /\ Told'
    BY <1>2, <2>4, SameLists
  <2>6. TypeOK'
    BY <1>0, <1>2, <1>3, <2>3 DEF TypeOK, forms
  <2>7. Asking'
    BY <1>1, <1>2, <1>5, <2>3 DEF IInv, Asking, Busy, Deletes
  <2>8. DraftsOnce'
    <3> SUFFICES ASSUME NEW d \in Drafts PROVE Drafted(d)'
      BY DEF DraftsOnce
    <3>1. Drafted(d)
      BY DEF IInv, DraftsOnce
    <3>2. \A g \in Handlers : /\ Carries(g, d)' <=> Carries(g, d)
                              /\ handler'[g].kind = handler[g].kind /\ handler'[g].place = handler[g].place
                              /\ Carries(g, d) /\ handler[g].step = "image" => handler'[g].step = "image"
      BY <1>1, <2>3 DEF Carries, Busy
    <3> QED BY <1>2, <3>1, <3>2 DEF Drafted, InForm, InItem, forms
  <2> QED BY <2>5, <2>6, <2>7, <2>8 DEF IInv
<1> QED BY <1>4, <1>5

-----------------------------------------------------------------------------
(* Drafts typed, and clicks. *)

LEMMA TypedKeeps ==
    ASSUME IInv, NEW e \in Events \cup {None}, NEW d \in Drafts \cup {None}, d = None \/ d \notin typed,
           \/ form = None /\ form' = [event |-> e, draft |-> d] /\ itemDraft' = itemDraft
           \/ d # None /\ itemDraft = None /\ itemDraft' = d /\ form' = form,
           typed' = typed \cup ({d} \ {None}),
           UNCHANGED <<db, ids, list, loads, itemsOf, editing, handler, confirming, made, cutShort,
                       accepted, behind, clicks>>
    PROVE  IInv'
<1>1. TypeOK'
  BY DEF IInv, TypeOK
<1>2. Lists' /\ Told' /\ Asking'
  BY DEF IInv, Lists, Within, Told, NoneHalfway, Coming, Come, Asking, Busy, Deletes
<1>3. ASSUME NEW x \in Drafts PROVE Drafted(x)'
  <2>1. Drafted(x) /\ x # None
    BY ConsoleAssumption DEF IInv, DraftsOnce
  <2>2. \A h \in Handlers : Carries(h, x)' <=> Carries(h, x)
    BY DEF Carries, Busy
  <2>3. CASE x = d
    <3>1. x \notin typed /\ x \in typed'
      BY <2>1, <2>3
    <3>2. ~InForm(x) /\ ~InItem(x) /\ made'[x] = 0 /\ \A h \in Handlers : ~Carries(h, x)'
      BY <2>1, <2>2, <3>1 DEF Drafted
    <3>3. ~(InForm(x)' /\ InItem(x)')
      BY <2>1, <3>2 DEF InForm, InItem
    <3> QED BY <3>1, <3>2, <3>3 DEF Drafted
  <2>4. CASE x # d
    <3>1. (InForm(x)' <=> InForm(x)) /\ (InItem(x)' <=> InItem(x)) /\ (x \in typed' <=> x \in typed)
      BY <2>1, <2>4 DEF InForm, InItem
    <3> QED BY <2>1, <2>2, <3>1 DEF Drafted
  <2> QED BY <2>3, <2>4
<1>4. DraftsOnce'
  BY <1>3 DEF DraftsOnce
<1> QED BY <1>1, <1>2, <1>4 DEF IInv

LEMMA OpenFormKeeps ==
    ASSUME IInv, NEW e \in Events \cup {None}, NEW d \in Drafts \cup {None}, OpenForm(e, d)
    PROVE  IInv'
BY TypedKeeps DEF OpenForm, PageOpen

LEMMA TypeItemKeeps ==
    ASSUME IInv, NEW d \in Drafts, TypeItem(d)
    PROVE  IInv'
<1>1. d # None
  BY ConsoleAssumption
<1> QED BY <1>1, TypedKeeps DEF TypeItem

LEMMA StartKeeps ==
    ASSUME IInv, NEW h \in Handlers, NEW kind \in Kinds, NEW step \in {"ask", "send"},
           NEW e \in Events \cup {None}, NEW i \in Items \cup {None}, NEW d \in Drafts \cup {None},
           NEW to \in BOOLEAN, NEW image \in BOOLEAN,
           Start(h, kind, step, e, i, d, to, image), UNCHANGED <<forms, typed>>,
           confirming' = confirming \/ (confirming' = h /\ step = "ask"),
           kind \in {"deleteEvent", "removeItem"} => step = "ask",
           step = "ask" => IF kind = "removeItem" THEN i \in Items ELSE e \in Events,
           d # None => \/ kind = "saveEvent" /\ InForm(d) /\ ~Running("saveEvent")
                       \/ kind = "addItem" /\ InItem(d) /\ ~Running("addItem")
    PROVE  IInv'
<1> DEFINE t == [kind |-> kind, step |-> step, event |-> e, item |-> i, draft |-> d, to |-> to,
                 image |-> image, place |-> "dialog"]
<1>1. TypeOK /\ Lists /\ Told /\ Asking /\ DraftsOnce
  BY DEF IInv
<1>2. /\ handler[h] = Idle /\ clicks < MaxClicks /\ clicks' = clicks + 1
      /\ handler' = [handler EXCEPT ![h] = t]
      /\ UNCHANGED <<db, ids, list, loads, made, cutShort, accepted, behind>>
  BY DEF Start
<1>3. /\ t \in Tasks /\ t.kind = kind /\ t.step = step /\ t.draft = d /\ t.place = "dialog" /\ t.kind # "idle"
      /\ Target(t) = IF kind = "removeItem" THEN i ELSE e
  BY DEF Tasks, Target, Kinds
<1> HIDE DEF t
<1>4. /\ handler' \in [Handlers -> Tasks \cup {Idle}]
      /\ handler'[h] = t /\ \A g \in Handlers \ {h} : handler'[g] = handler[g]
      /\ ~Busy(h) /\ Busy(h)'
  BY <1>1, <1>2, <1>3 DEF TypeOK, Busy, Idle
<1>5. clicks' \in 0..MaxClicks
  BY <1>1, <1>2, ConsoleAssumption DEF TypeOK
<1>6. confirming # None => confirming \in Handlers \ {h}
  BY <1>1, <1>4 DEF Asking, TypeOK, Busy
<1>7. confirming' # None => handler'[confirming'].kind # "idle" /\ handler'[confirming'].step = "ask"
  BY <1>1, <1>3, <1>4, <1>6 DEF TypeOK
<1>8. TypeOK'
  BY <1>1, <1>2, <1>4, <1>5, <1>7 DEF TypeOK, forms
<1>9. NoneHalfway' => NoneHalfway
  BY <1>4 DEF NoneHalfway, Busy
<1>10. Lists' /\ Told'
  BY <1>2, <1>9, SameLists
<1>11. Asking'
  <2>1. confirming' \in Handlers \cup {None}
    BY <1>1 DEF Asking
  <2>2. Busy(h)' /\ handler'[h].step = "ask" => Target(handler'[h]) \in Events \cup Items
    BY <1>3, <1>4
  <2>3. Deletes(h)' => handler'[h].step = "ask"
    BY <1>3, <1>4 DEF Deletes
  <2> QED BY <1>1, <1>2, <1>4, <2>1, <2>2, <2>3 DEF Asking, Busy, Deletes
<1>12. ASSUME NEW x \in Drafts PROVE Drafted(x)'
  <2>1. Drafted(x) /\ x # None
    BY <1>1, ConsoleAssumption DEF DraftsOnce
  <2>2. /\ \A g \in Handlers \ {h} : /\ Carries(g, x)' <=> Carries(g, x)
                                     /\ handler'[g] = handler[g]
        /\ ~Carries(h, x) /\ (Carries(h, x)' <=> x = d)
        /\ (InForm(x)' <=> InForm(x)) /\ (InItem(x)' <=> InItem(x))
    BY <1>2, <1>3, <1>4 DEF Carries, Busy, InForm, InItem, forms
  <2>3. CASE x # d
    BY <1>2, <2>1, <2>2, <2>3 DEF Drafted
  <2>4. CASE x = d
    <3>1. \A g \in Handlers : ~Carries(g, x)
      BY <2>1, <2>4 DEF Drafted, Running
    <3>2. x \in typed' /\ (made'[x] # 0 => x \in cutShort')
      BY <1>2, <2>1, <2>4, <3>1 DEF Drafted
    <3>3. /\ InForm(x)' => handler'[h].kind = "saveEvent" /\ handler'[h].place = "dialog"
          /\ InItem(x)' => handler'[h].kind = "addItem" /\ handler'[h].place = "dialog"
      BY <1>3, <1>4, <2>1, <2>2, <2>4 DEF Drafted
    <3>4. ~(InForm(x)' /\ InItem(x)') /\ \A g \in Handlers : Carries(g, x)' => g = h
      BY <2>1, <2>2, <3>1 DEF Drafted
    <3> QED BY <3>2, <3>3, <3>4 DEF Drafted
  <2> QED BY <2>3, <2>4
<1>13. DraftsOnce'
  BY <1>12 DEF DraftsOnce
<1> QED BY <1>8, <1>10, <1>11, <1>13 DEF IInv

LEMMA ClickKeeps ==
    ASSUME IInv, NEW h \in Handlers, Click(h)
    PROVE  IInv'
<1>1. TypeOK /\ None \notin Drafts
  BY ConsoleAssumption DEF IInv
<1>2. \A k \in {"toggle", "deleteEvent", "saveEvent", "addItem", "saveItem", "clearImage", "removeItem"} : k \in Kinds
  BY DEF Kinds
<1>3. ASSUME NEW e \in Events, ToggleActive(h, e) PROVE IInv'
  <2>1. list[e].active \in BOOLEAN
    <3>1. list[e] \in Rows \cup {None} /\ list[e] # None
      BY <1>1, <1>3 DEF ToggleActive, TypeOK, Tables
    <3> QED BY <3>1 DEF Rows
  <2>2. (~list[e].active) \in BOOLEAN
    BY <2>1
  <2> QED BY <1>2, <1>3, <2>2, StartKeeps DEF ToggleActive
<1>4. ASSUME NEW e \in Events, DeleteEvent(h, e) PROVE IInv'
  BY <1>2, <1>4, StartKeeps DEF DeleteEvent
<1>5. ASSUME NEW image \in BOOLEAN, SubmitForm(h, image) PROVE IInv'
  <2>1. form.event \in Events \cup {None} /\ form.draft \in Drafts \cup {None} /\ InForm(form.draft)
    BY <1>1, <1>5 DEF SubmitForm, TypeOK, InForm
  <2> QED BY <1>2, <1>5, <2>1, StartKeeps DEF SubmitForm
<1>6. ASSUME NEW image \in BOOLEAN, AddItem(h, image) PROVE IInv'
  <2>1. itemsOf \in Events \cup {None} /\ itemDraft \in Drafts \cup {None} /\ InItem(itemDraft)
    BY <1>1 DEF TypeOK, InItem
  <2> QED BY <1>2, <1>6, <2>1, StartKeeps DEF AddItem
<1>7. ASSUME NEW image \in BOOLEAN, SaveItem(h, image) PROVE IInv'
  <2>1. itemsOf \in Events \cup {None} /\ editing \in Items \cup {None}
    BY <1>1 DEF TypeOK
  <2> QED BY <1>2, <1>7, <2>1, StartKeeps DEF SaveItem
<1>8. ASSUME ClearImage(h) PROVE IInv'
  <2>1. itemsOf \in Events \cup {None} /\ editing \in Items \cup {None}
    BY <1>1 DEF TypeOK
  <2> QED BY <1>2, <1>8, <2>1, StartKeeps DEF ClearImage
<1>9. ASSUME NEW i \in Items, RemoveItem(h, i) PROVE IInv'
  <2>1. itemsOf \in Events \cup {None}
    BY <1>1 DEF TypeOK
  <2> QED BY <1>2, <1>9, <2>1, StartKeeps DEF RemoveItem
<1> QED BY <1>3, <1>4, <1>5, <1>6, <1>7, <1>8, <1>9 DEF Click, ImageChoices

-----------------------------------------------------------------------------
(* What requests do at the server, and the ends of the handlers. *)

Deletion ==
    \A e \in Events : db[e] # None =>
        IF db'[e] = None THEN e \in accepted ELSE db[e].items \ db'[e].items \subseteq accepted

EffectIs(h) ==
    /\ db' \in Tables /\ ids \subseteq ids' /\ ids' \subseteq Events \cup Items /\ Within(db', ids')
    /\ made' \in [Drafts -> Nat]
    /\ \A d \in Drafts : \/ made'[d] = made[d]
                         \/ made'[d] = made[d] + 1 /\ Carries(h, d) /\ handler[h].step = "send"
    /\ Deletion

LEMMA Counted ==
    ASSUME NEW m \in [Drafts -> Nat], NEW x
    PROVE  LET n == [m EXCEPT ![x] = @ + 1]
           IN  n \in [Drafts -> Nat] /\ \A d \in Drafts : n[d] = IF d = x THEN m[d] + 1 ELSE m[d]
<1> DEFINE n == [m EXCEPT ![x] = @ + 1]
<1>1. n = [d \in Drafts |-> IF d = x THEN m[d] + 1 ELSE m[d]]
  OBVIOUS
<1>2. \A d \in Drafts : (IF d = x THEN m[d] + 1 ELSE m[d]) \in Nat
  OBVIOUS
<1> HIDE DEF n
<1>3. n \in [Drafts -> Nat] /\ \A d \in Drafts : n[d] = IF d = x THEN m[d] + 1 ELSE m[d]
  BY <1>1, <1>2
<1> QED BY <1>3 DEF n

LEMMA NoEffect ==
    ASSUME IInv, NEW h \in Handlers, UNCHANGED <<db, ids, made>>
    PROVE  EffectIs(h)
<1>1. \A e \in Events : db[e] # None => db[e].items \ db[e].items = {}
  OBVIOUS
<1>2. Deletion
  BY <1>1 DEF Deletion
<1>3. Within(db', ids')
  BY DEF IInv, Lists, Within
<1>4. \A d \in Drafts : made'[d] = made[d]
  OBVIOUS
<1>5. db' \in Tables /\ ids \subseteq ids' /\ ids' \subseteq Events \cup Items
  BY DEF IInv, TypeOK
<1>6. made' \in [Drafts -> Nat]
  BY DEF IInv, TypeOK
<1>7. \A d \in Drafts : \/ made'[d] = made[d]
                        \/ made'[d] = made[d] + 1 /\ Carries(h, d) /\ handler[h].step = "send"
  BY <1>4
<1> QED BY <1>2, <1>3, <1>5, <1>6, <1>7 DEF EffectIs

(* The row of one event is written, given up or created. *)
LEMMA RowWritten ==
    ASSUME db \in Tables, Within(db, ids), ids \subseteq ids',
           NEW e \in Events, NEW r \in Rows \cup {None}, db' = [db EXCEPT ![e] = r],
           r # None => e \in ids' /\ r.items \subseteq ids',
           db[e] # None => IF r = None THEN e \in accepted ELSE db[e].items \ r.items \subseteq accepted
    PROVE  db' \in Tables /\ Within(db', ids') /\ Deletion
<1>1. \A f \in Events : db'[f] = IF f = e THEN r ELSE db[f]
  BY DEF Tables
<1>2. db' \in Tables
  BY DEF Tables
<1>3. Within(db', ids')
  BY <1>1 DEF Within
<1>4. Deletion
  <2> SUFFICES ASSUME NEW f \in Events, db[f] # None
               PROVE  IF db'[f] = None THEN f \in accepted ELSE db[f].items \ db'[f].items \subseteq accepted
    BY DEF Deletion
  <2>1. CASE f # e
    <3>1. db'[f] = db[f] /\ db[f].items \ db[f].items = {}
      BY <1>1, <2>1
    <3> QED BY <3>1
  <2>2. CASE f = e
    BY <1>1, <2>2
  <2> QED BY <2>1, <2>2
<1> QED BY <1>2, <1>3, <1>4

(* A row with one field written. *)
LEMMA RowFields ==
    ASSUME NEW r \in Rows
    PROVE  /\ \A b \in BOOLEAN : LET u == [r EXCEPT !.active = b] IN u \in Rows /\ u.items = r.items
           /\ \A v \in Looks : LET u == [r EXCEPT !.look = v] IN u \in Rows /\ u.items = r.items
           /\ \A S \in SUBSET Items : LET u == [r EXCEPT !.items = S] IN u \in Rows /\ u.items = S
           /\ r.items \subseteq Items /\ r # None
<1>1. r # None
  BY ConsoleAssumption
<1> QED BY <1>1 DEF Rows

(* A change of a row that is there: status, deletion, an item less, an edit. *)
LEMMA ChangeOf ==
    ASSUME IInv, NEW h \in Handlers, Busy(h), handler[h].step # "ask",
           NEW e \in Events, NEW i \in Items \cup {None}, e = handler[h].event, i = handler[h].item,
           db[e] # None, Change(handler[h], e, i), UNCHANGED <<ids, made>>
    PROVE  EffectIs(h)
<1> DEFINE t == handler[h]
           row == db[e]
<1>1. /\ db \in Tables /\ made \in [Drafts -> Nat] /\ ids \subseteq Events \cup Items
      /\ t \in Tasks /\ Within(db, ids)
  BY TaskFields DEF IInv, TypeOK, Lists
<1>2. Deletes(h) => Target(t) \in accepted
  BY DEF IInv, Asking
<1>3. row \in Rows /\ e \in ids /\ row.items \subseteq ids
  BY <1>1 DEF Tables, Within
<1>4. PICK r \in Rows \cup {None} :
          /\ db' = [db EXCEPT ![e] = r]
          /\ r # None => r.items \subseteq row.items
          /\ IF r = None THEN e \in accepted ELSE row.items \ r.items \subseteq accepted
  <2>1. CASE t.kind = "toggle"
    <3>1. db' = [db EXCEPT ![e] = [row EXCEPT !.active = t.to]] /\ t.to \in BOOLEAN
      BY <1>1, <2>1 DEF Change, Tasks
    <3>2. [row EXCEPT !.active = t.to] \in Rows /\ [row EXCEPT !.active = t.to].items = row.items
      BY <1>3, <3>1, RowFields
    <3> QED BY <3>1, <3>2, RowFields
  <2>2. CASE t.kind = "deleteEvent"
    <3>1. db' = [db EXCEPT ![e] = None]
      BY <2>2 DEF Change
    <3>2. e \in accepted
      BY <1>2, <2>2 DEF Deletes, Target
    <3> QED BY <3>1, <3>2
  <2>3. CASE t.kind = "removeItem"
    <3>1. db' = [db EXCEPT ![e] = [row EXCEPT !.items = row.items \ {i}]]
      BY <2>3 DEF Change
    <3>2. i \in accepted /\ row.items \ (row.items \ {i}) \subseteq accepted
      BY <1>2, <2>3 DEF Deletes, Target
    <3>3. row.items \ {i} \in SUBSET Items
      BY <1>3, RowFields
    <3>4. /\ [row EXCEPT !.items = row.items \ {i}] \in Rows
          /\ [row EXCEPT !.items = row.items \ {i}].items = row.items \ {i}
      BY <1>3, <3>3, RowFields
    <3>5. [row EXCEPT !.items = row.items \ {i}] # None
      BY <3>4, RowFields
    <3> HIDE DEF row
    <3> QED BY <3>1, <3>2, <3>4, <3>5
  <2>4. CASE t.kind \notin {"toggle", "deleteEvent", "removeItem"}
    <3>1. PICK v \in Looks : db' = [db EXCEPT ![e] = [row EXCEPT !.look = v]]
      BY <2>4 DEF Change
    <3>2. [row EXCEPT !.look = v] \in Rows /\ [row EXCEPT !.look = v].items = row.items
      BY <1>3, RowFields
    <3> QED BY <3>1, <3>2, RowFields
  <2> QED BY <2>1, <2>2, <2>3, <2>4
<1>5. db' \in Tables /\ Within(db', ids') /\ Deletion
  BY <1>1, <1>3, <1>4, RowWritten
<1>6. \A d \in Drafts : made'[d] = made[d]
  OBVIOUS
<1> QED BY <1>1, <1>5, <1>6 DEF EffectIs

LEMMA EffectOf ==
    ASSUME IInv, NEW h \in Handlers, Busy(h), handler[h].step # "ask",
           NEW e \in Events, NEW i \in Items \cup {None}, Effect(handler[h], e, i)
    PROVE  EffectIs(h)
<1> DEFINE t == handler[h]
<1>1. /\ db \in Tables /\ made \in [Drafts -> Nat] /\ ids \subseteq Events \cup Items
      /\ t \in Tasks /\ Within(db, ids)
  BY TaskFields DEF IInv, TypeOK, Lists
<1>2. ASSUME NEW id \in Events \cup Items, Create(t, id), t.step = "send"
      PROVE  /\ ids \subseteq ids' /\ ids' \subseteq Events \cup Items /\ id \in ids' /\ id \notin ids
             /\ made' \in [Drafts -> Nat]
             /\ \A d \in Drafts : \/ made'[d] = made[d]
                                  \/ made'[d] = made[d] + 1 /\ Carries(h, d) /\ t.step = "send"
  <2>1. /\ made' \in [Drafts -> Nat]
        /\ \A d \in Drafts : made'[d] = IF d = t.draft THEN made[d] + 1 ELSE made[d]
    BY <1>1, <1>2, Counted DEF Create
  <2>2. \A d \in Drafts : d = t.draft => Carries(h, d)
    BY DEF Carries
  <2> QED BY <1>1, <1>2, <2>1, <2>2 DEF Create
<1>3. CASE CreatesEvent(t) /\ i = None
           /\ Create(t, e) /\ \E v \in Looks : db' = [db EXCEPT ![e] = NewEvent(v)]
  <2>1. PICK v \in Looks : db' = [db EXCEPT ![e] = NewEvent(v)]
    BY <1>3
  <2>2. NewEvent(v) \in Rows /\ NewEvent(v).items = {}
    BY DEF NewEvent, Rows
  <2>3. db[e] = None
    BY <1>1, <1>3 DEF Within, Create
  <2>4. db' \in Tables /\ Within(db', ids') /\ Deletion
    BY <1>1, <1>2, <1>3, <2>1, <2>2, <2>3, RowWritten DEF CreatesEvent
  <2> QED BY <1>2, <1>3, <2>4 DEF EffectIs, CreatesEvent
<1>4. CASE CreatesItem(t) /\ db[e] # None /\ i # None
           /\ Create(t, i) /\ db' = [db EXCEPT ![e].items = @ \cup {i}]
  <2> DEFINE row == db[e]
             r == [row EXCEPT !.items = row.items \cup {i}]
  <2>1. row \in Rows /\ e \in ids /\ row.items \subseteq ids
    BY <1>1, <1>4 DEF Tables, Within
  <2>2. row.items \cup {i} \in SUBSET Items
    BY <1>4, <2>1, RowFields
  <2>3. r \in Rows /\ r.items = row.items \cup {i} /\ r # None
    BY <2>1, <2>2, RowFields
  <2>4. db' = [db EXCEPT ![e] = r]
    BY <1>4
  <2> HIDE DEF r
  <2>5. /\ ids \subseteq ids' /\ ids' \subseteq Events \cup Items /\ i \in ids'
        /\ made' \in [Drafts -> Nat]
        /\ \A d \in Drafts : \/ made'[d] = made[d]
                             \/ made'[d] = made[d] + 1 /\ Carries(h, d) /\ t.step = "send"
    BY <1>2, <1>4 DEF CreatesItem
  <2>6. db' \in Tables /\ Within(db', ids') /\ Deletion
    BY <1>1, <2>1, <2>3, <2>4, <2>5, RowWritten
  <2> QED BY <2>5, <2>6 DEF EffectIs
<1>5. CASE /\ e = t.event /\ i = t.item /\ db[e] # None
           /\ Change(t, e, i) /\ UNCHANGED <<ids, made>>
  BY <1>5, ChangeOf
<1> QED BY <1>3, <1>4, <1>5 DEF Effect

(* A handler ends: its dialog's callbacks forget the draft, and the list is
   asked for after everything it did. *)
LEMMA FinishKeeps ==
    ASSUME IInv, NEW h \in Handlers, Busy(h), handler[h].step # "ask", Finish(h), EffectIs(h),
           UNCHANGED <<list, confirming, typed, cutShort, accepted, behind, clicks>>
    PROVE  IInv'
<1> DEFINE t == handler[h]
<1>0. TypeOK /\ Lists /\ Asking /\ DraftsOnce
  BY DEF IInv
<1>1. PICK K \in {{"saveEvent"}, {"saveItem"}, {}} :
          /\ handler' = [(IF K = {"saveEvent"} THEN Leave({"saveEvent"}, "gone")
                          ELSE IF K = {"saveItem"} THEN Leave({"saveItem"}, "row closed")
                          ELSE handler) EXCEPT ![h] = Idle]
          /\ K = {"saveEvent"} => t.kind = "saveEvent"
  <2>1. {"saveEvent"} # {"saveItem"} /\ {"saveEvent"} # {} /\ {"saveItem"} # {}
    OBVIOUS
  <2>2. CASE t.kind = "saveEvent"
    <3>1. handler' = [Leave({"saveEvent"}, "gone") EXCEPT ![h] = Idle]
      BY <2>2 DEF Finish
    <3> QED BY <2>1, <2>2, <3>1
  <2>3. CASE t.kind \in {"saveItem", "clearImage"} /\ t.place # "gone"
    <3>1. handler' = [Leave({"saveItem"}, "row closed") EXCEPT ![h] = Idle]
      BY <2>3 DEF Finish
    <3> QED BY <2>1, <3>1
  <2>4. CASE t.kind # "saveEvent" /\ ~(t.kind \in {"saveItem", "clearImage"} /\ t.place # "gone")
    <3>1. handler' = [handler EXCEPT ![h] = Idle]
      BY <2>4 DEF Finish
    <3> QED BY <2>1, <3>1
  <2> QED BY <2>2, <2>3, <2>4
<1>2. K \in SUBSET Kinds /\ "addItem" \notin K /\ {h} \in SUBSET Handlers
  BY DEF Kinds
<1>3. After(K, {h})
  <2>1. CASE K = {"saveEvent"}
    BY <1>0, <1>1, <1>2, <2>1, AfterLeaveEnding
  <2>2. CASE K = {"saveItem"}
    <3>1. handler' = [Leave({"saveItem"}, "row closed") EXCEPT ![h] = Idle]
      BY <1>1, <2>2
    <3> QED BY <1>0, <1>2, <2>2, <3>1, AfterLeaveEnding
  <2>3. CASE K = {}
    <3>1. handler' = [handler EXCEPT ![h] = Idle]
      BY <1>1, <2>3
    <3> QED BY <1>0, <2>3, <3>1, AfterEnd
  <2> QED BY <2>1, <2>2, <2>3
<1>4. /\ Load /\ itemsOf' = itemsOf
      /\ form' = IF t.kind = "saveEvent" THEN None ELSE form
      /\ itemDraft' = IF t.kind = "addItem" /\ t.place # "gone" THEN None ELSE itemDraft
      /\ editing' \in {editing, None}
  BY DEF Finish
<1>5. "saveEvent" \in K => form' = None
  BY <1>1, <1>4
<1>6. Lists' /\ Coming' /\ Len(loads') <= MaxLoads
  BY <1>4, LoadKeeps DEF EffectIs
<1>7. confirming \notin {h}
  BY <1>0, ConsoleAssumption DEF TypeOK
<1>8. /\ Asking'
      /\ confirming' # None => handler'[confirming'].kind # "idle" /\ handler'[confirming'].step = "ask"
  BY <1>2, <1>3, <1>7, AfterAsking
<1>9. DraftsOnce'
  <2>1. \A d \in Drafts, g \in {h} : Carries(g, d) => ~InForm(d)' /\ ~InItem(d)'
    <3> SUFFICES ASSUME NEW d \in Drafts, Carries(h, d) PROVE ~InForm(d)' /\ ~InItem(d)'
      OBVIOUS
    <3>1. Drafted(d) /\ d # None
      BY <1>0, ConsoleAssumption DEF DraftsOnce
    <3>2. InForm(d) => t.kind = "saveEvent"
      BY <3>1 DEF Drafted
    <3>3. InItem(d) => t.kind = "addItem" /\ t.place = "dialog"
      BY <3>1 DEF Drafted
    <3> QED BY <1>4, <3>1, <3>2, <3>3 DEF InForm, InItem
  <2>2. \A d \in Drafts : \/ made'[d] = made[d]
                          \/ /\ made'[d] = made[d] + 1
                             /\ \E g \in {h} : Carries(g, d) /\ handler[g].step = "send"
    BY DEF EffectIs
  <2>3. form' \in {form, None} /\ itemDraft' \in {itemDraft, None}
    BY <1>4
  <2> QED BY <1>2, <1>3, <1>5, <2>1, <2>2, <2>3, AfterDrafts
<1>10. TypeOK'
  <2>1. /\ handler' \in [Handlers -> Tasks \cup {Idle}]
        /\ form' \in {form, None} /\ itemDraft' \in {itemDraft, None}
    BY <1>3, <1>4 DEF After
  <2>2. \A e \in Events : list'[e] # None => e \in ids' /\ list'[e].items \subseteq ids'
    BY <1>6 DEF Lists, Within
  <2>3. \A j \in DOMAIN loads' : loads'[j] \in [got : Tables \cup {None}, newest : BOOLEAN]
    <3>1. loads' \in Seq(Answered)
      BY <1>6 DEF Lists
    <3>2. DOMAIN loads' = 1..Len(loads') /\ \A j \in 1..Len(loads') : loads'[j] \in Answered
      BY <3>1, LenProperties, ElementOfSeq
    <3> QED BY <3>2 DEF Answered
  <2> QED BY <1>0, <1>4, <1>6, <1>8, <2>1, <2>2, <2>3 DEF TypeOK, EffectIs
<1>11. Told'
  BY <1>6 DEF Told
<1> QED BY <1>6, <1>8, <1>9, <1>10, <1>11 DEF IInv

LEMMA SavedKeeps ==
    ASSUME IInv, NEW h \in Handlers, Saved(h)
    PROVE  IInv'
<1> DEFINE t == handler[h]
<1>0. TypeOK /\ Lists /\ Asking /\ DraftsOnce
  BY DEF IInv
<1>1. /\ Busy(h) /\ t.step = "send" /\ t \in Tasks
      /\ UNCHANGED <<list, confirming, typed, cutShort, accepted, behind, clicks>>
  BY <1>0, TaskFields DEF Saved, Busy
<1> PICK e \in Events, i \in Items \cup {None} :
        /\ Effect(t, e, i)
        /\ IF t.image
           THEN /\ handler' = [handler EXCEPT ![h] = [@ EXCEPT !.step = "image", !.event = e, !.item = i]]
                /\ UNCHANGED <<loads, forms>>
           ELSE Finish(h)
  BY DEF Saved
<1>2. EffectIs(h)
  BY <1>1, EffectOf
<1>3. CASE ~t.image
  <2>1. Finish(h)
    BY <1>3
  <2> QED BY <1>1, <1>2, <2>1, FinishKeeps
<1>4. CASE t.image
  <2>1. /\ handler' = [handler EXCEPT ![h] = [t EXCEPT !.step = "image", !.event = e, !.item = i]]
        /\ UNCHANGED <<loads, forms>>
    BY <1>4
  <2>2. ASSUME NEW u \in Tasks
        PROVE  LET v == [u EXCEPT !.step = "image", !.event = e, !.item = i]
               IN  /\ v \in Tasks /\ v.step = "image" /\ v.kind = u.kind /\ v.draft = u.draft
                   /\ v.event = e /\ v.item = i /\ v.place = u.place
    BY <2>2 DEF Tasks
  <2>3. /\ handler' \in [Handlers -> Tasks \cup {Idle}]
        /\ handler'[h].step = "image" /\ handler'[h].kind = t.kind
        /\ handler'[h].draft = t.draft /\ handler'[h].place = t.place
        /\ handler'[h].event = e /\ handler'[h].item = i
        /\ \A g \in Handlers \ {h} : handler'[g] = handler[g]
    BY <1>0, <1>1, <2>1, <2>2 DEF TypeOK
  <2>4. ~NoneHalfway'
    BY <1>1, <2>3 DEF NoneHalfway, Busy
  <2>5. Lists'
    <3>1. /\ Within(list', ids')
          /\ \A n \in 1..Len(loads) : loads[n].got # None => Within(loads[n].got, ids')
      BY <1>0, <1>1, <1>2 DEF Lists, Within, EffectIs
    <3> QED BY <1>0, <1>2, <2>1, <3>1 DEF Lists, EffectIs
  <2>6. confirming # h
    BY <1>0, <1>1, ConsoleAssumption DEF TypeOK
  <2>7. TypeOK'
    <3>1. \A f \in Events : list'[f] # None => f \in ids' /\ list'[f].items \subseteq ids'
      BY <2>5 DEF Lists, Within
    <3>2. confirming' # None => handler'[confirming'].kind # "idle" /\ handler'[confirming'].step = "ask"
      BY <1>0, <1>1, <2>3, <2>6 DEF TypeOK, Asking
    <3> QED BY <1>0, <1>1, <1>2, <2>1, <2>3, <3>1, <3>2 DEF TypeOK, EffectIs, forms
  <2>8. Asking'
    <3>1. ASSUME Deletes(h) PROVE e = t.event /\ i = t.item
      BY <3>1 DEF Effect, CreatesEvent, CreatesItem, Deletes
    <3>2. ASSUME Deletes(h)' PROVE Target(handler'[h]) \in accepted
      BY <1>0, <1>1, <2>3, <3>1, <3>2 DEF Asking, Deletes, Target
    <3> QED BY <1>0, <1>1, <2>3, <3>2 DEF Asking, Busy, Deletes
  <2>9. ASSUME NEW d \in Drafts PROVE Drafted(d)'
    <3>1. Drafted(d) /\ made[d] \in Nat
      BY <1>0 DEF DraftsOnce, TypeOK
    <3>2. \A g \in Handlers : /\ Carries(g, d)' <=> Carries(g, d)
                              /\ handler'[g].kind = handler[g].kind /\ handler'[g].place = handler[g].place
                              /\ g = h \/ handler'[g].step = handler[g].step
      BY <1>1, <2>3 DEF Carries, Busy
    <3>3. (InForm(d)' <=> InForm(d)) /\ (InItem(d)' <=> InItem(d))
      BY <2>1 DEF InForm, InItem, forms
    <3>4. CASE made'[d] = made[d]
      BY <1>1, <2>3, <3>1, <3>2, <3>3, <3>4 DEF Drafted
    <3>5. CASE made'[d] # made[d]
      <4>1. made'[d] = made[d] + 1 /\ Carries(h, d)
        BY <1>2, <3>5 DEF EffectIs
      <4>2. d \in typed' /\ \A g \in Handlers : Carries(g, d)' => g = h
        BY <1>1, <3>1, <3>2, <4>1 DEF Drafted
      <4>3. d \notin cutShort' => made'[d] = 1
        BY <1>1, <3>1, <4>1 DEF Drafted
      <4> QED BY <1>1, <2>3, <3>1, <3>2, <3>3, <4>1, <4>2, <4>3 DEF Drafted
    <3> QED BY <3>4, <3>5
  <2>10. DraftsOnce'
    BY <2>9 DEF DraftsOnce
  <2> QED BY <2>4, <2>5, <2>7, <2>8, <2>10 DEF IInv, Told
<1>5. t.image \in BOOLEAN
  BY <1>1 DEF Tasks
<1> QED BY <1>3, <1>4, <1>5

LEMMA ImageSavedKeeps ==
    ASSUME IInv, NEW h \in Handlers, ImageSaved(h)
    PROVE  IInv'
<1>1. Busy(h) /\ handler[h].step = "image"
  BY DEF ImageSaved, Busy
<1>2. EffectIs(h)
  BY <1>1, EffectOf DEF ImageSaved, Served
<1> QED BY <1>1, <1>2, FinishKeeps DEF ImageSaved

-----------------------------------------------------------------------------
(* A handler fails: what it did is not asked for. *)

LEMMA MissedLists ==
    ASSUME IInv, Within(db', ids'), ids \subseteq ids', list' = list, behind' = TRUE,
           loads' = [i \in DOMAIN loads |-> [loads[i] EXCEPT !.newest = @ /\ loads[i].got = None]]
    PROVE  Lists' /\ Told' /\ Len(loads') <= MaxLoads
<1>1. /\ Len(loads) \in Nat /\ DOMAIN loads = 1..Len(loads)
      /\ \A i \in 1..Len(loads) : loads[i] \in Answered
  BY LoadsAre DEF IInv
<1>2. ASSUME NEW l \in Answered
      PROVE  LET m == [l EXCEPT !.newest = @ /\ l.got = None]
             IN  m \in Answered /\ m.got = l.got /\ (m.newest <=> l.newest /\ l.got = None)
  BY <1>2 DEF Answered
<1>3. /\ loads' \in [1..Len(loads) -> Answered]
      /\ \A i \in 1..Len(loads) : /\ loads'[i].got = loads[i].got
                                  /\ loads'[i].newest <=> loads[i].newest /\ loads[i].got = None
  BY <1>1, <1>2
<1>4. loads' \in Seq(Answered)
  BY <1>1, <1>3, SeqDef
<1>5. Len(loads') = Len(loads)
  <2>1. DOMAIN loads' = 1..Len(loads') /\ Len(loads') \in Nat
    BY <1>4, LenProperties
  <2> QED BY <1>1, <1>3, <2>1
<1>6. /\ Within(list', ids')
      /\ \A i \in 1..Len(loads) : loads[i].got # None => Within(loads[i].got, ids')
  BY DEF IInv, Lists, Within
<1>7. Lists'
  BY <1>3, <1>4, <1>5, <1>6 DEF IInv, Lists
<1>8. Coming' \/ Come'
  BY <1>3, <1>5 DEF Coming, Come
<1>9. Len(loads') <= MaxLoads
  BY <1>5 DEF IInv, TypeOK
<1> QED BY <1>7, <1>8, <1>9 DEF Told

LEMMA FailedEffect ==
    ASSUME IInv, NEW h \in Handlers, NEW effective \in BOOLEAN, Failed(h, effective)
    PROVE  /\ EffectIs(h) /\ Busy(h) /\ handler[h].step \in {"send", "image"}
           /\ effective \/ UNCHANGED <<db, ids, made>>
<1>1. Busy(h) /\ handler[h].step \in {"send", "image"}
  BY TaskFields DEF Failed, IInv, Tasks, Busy
<1>2. CASE effective
  <2>1. PICK e \in Events, i \in Items \cup {None} : Effect(handler[h], e, i)
    BY <1>2 DEF Failed, Served
  <2> QED BY <1>1, <1>2, <2>1, EffectOf
<1>3. CASE ~effective
  <2>1. UNCHANGED <<db, ids, made>>
    BY <1>3 DEF Failed
  <2> QED BY <1>1, <2>1, NoEffect
<1> QED BY <1>2, <1>3

LEMMA FailedKeeps ==
    ASSUME IInv, NEW h \in Handlers, NEW effective \in BOOLEAN, Failed(h, effective)
    PROVE  IInv'
<1> DEFINE t == handler[h]
<1>0. TypeOK /\ Lists /\ Asking /\ DraftsOnce
  BY DEF IInv
<1>1. /\ EffectIs(h) /\ Busy(h) /\ t.step \in {"send", "image"}
      /\ effective \/ UNCHANGED <<db, ids, made>>
  BY FailedEffect
<1>2. /\ handler' = [handler EXCEPT ![h] = Idle]
      /\ cutShort' = IF t.draft # None /\ (t.step = "image" \/ effective)
                     THEN cutShort \cup {t.draft} ELSE cutShort
      /\ UNCHANGED <<list, forms, confirming, typed, accepted, clicks>>
  BY DEF Failed
<1>3. After({}, {h}) /\ {} \in SUBSET Kinds /\ {h} \in SUBSET Handlers
  BY <1>0, <1>2, AfterEnd
<1>4. Lists' /\ Told' /\ Len(loads') <= MaxLoads /\ behind' \in BOOLEAN
  <2>1. CASE t.step = "image" \/ effective
    <3>1. /\ behind' = TRUE
          /\ loads' = [i \in DOMAIN loads |-> [loads[i] EXCEPT !.newest = @ /\ loads[i].got = None]]
      BY <2>1 DEF Failed
    <3> QED BY <1>1, <1>2, <3>1, MissedLists DEF EffectIs
  <2>2. CASE ~(t.step = "image" \/ effective)
    <3>1. UNCHANGED <<behind, loads>>
      BY <2>2 DEF Failed
    <3>2. NoneHalfway' => NoneHalfway
      BY <1>0, <1>2, <2>2 DEF NoneHalfway, Busy, TypeOK
    <3>3. UNCHANGED <<db, ids, list>>
      BY <1>1, <1>2, <2>2
    <3> QED BY <1>0, <3>1, <3>2, <3>3, SameLists DEF TypeOK
  <2> QED BY <2>1, <2>2
<1>5. confirming \notin {h}
  BY <1>0, <1>1, ConsoleAssumption DEF TypeOK
<1>6. /\ Asking'
      /\ confirming' # None => handler'[confirming'].kind # "idle" /\ handler'[confirming'].step = "ask"
  <2>1. ASSUME NEW K \in SUBSET Kinds, NEW S \in SUBSET Handlers, K = {}, S = {h}, After(K, S)
        PROVE  /\ Asking'
               /\ confirming' # None => handler'[confirming'].kind # "idle" /\ handler'[confirming'].step = "ask"
    BY <1>2, <1>5, <2>1, AfterAsking
  <2> QED BY <1>3, <2>1
<1>7. DraftsOnce'
  <2>1. \A d \in Drafts : Carries(h, d) => \/ d \in cutShort'
                                           \/ made'[d] = made[d] /\ t.step # "image"
    BY <1>1, <1>2, ConsoleAssumption DEF Carries, EffectIs
  <2>2. \A d \in Drafts : \/ made'[d] = made[d]
                          \/ made'[d] = made[d] + 1 /\ Carries(h, d) /\ t.step = "send"
    BY <1>1 DEF EffectIs
  <2>3. cutShort \subseteq cutShort' /\ UNCHANGED <<form, itemDraft, typed>>
    BY <1>2 DEF forms
  <2>4. ASSUME NEW K \in SUBSET Kinds, NEW S \in SUBSET Handlers, K = {}, S = {h}, After(K, S)
        PROVE  DraftsOnce'
    <3>1. \A d \in Drafts, g \in S : Carries(g, d) =>
              \/ d \in cutShort'
              \/ ~InForm(d)' /\ ~InItem(d)'
              \/ made'[d] = made[d] /\ handler[g].step # "image"
      BY <2>1, <2>4
    <3>2. \A d \in Drafts : \/ made'[d] = made[d]
                            \/ /\ made'[d] = made[d] + 1
                               /\ \E g \in S : Carries(g, d) /\ handler[g].step = "send"
      BY <2>2, <2>4
    <3> QED BY <2>3, <2>4, <3>1, <3>2, AfterDrafts
  <2> QED BY <1>3, <2>4
<1>8. TypeOK'
  <2>1. handler' \in [Handlers -> Tasks \cup {Idle}]
    BY <1>3 DEF After
  <2>2. \A e \in Events : list'[e] # None => e \in ids' /\ list'[e].items \subseteq ids'
    BY <1>4 DEF Lists, Within
  <2>3. \A j \in DOMAIN loads' : loads'[j] \in [got : Tables \cup {None}, newest : BOOLEAN]
    <3>1. loads' \in Seq(Answered)
      BY <1>4 DEF Lists
    <3> QED BY <3>1, LenProperties, ElementOfSeq DEF Answered
  <2>4. cutShort' \subseteq Drafts
    <3>1. t \in Tasks
      BY <1>0, <1>1, TaskFields
    <3>2. t.draft \in Drafts \cup {None}
      BY <3>1 DEF Tasks
    <3> QED BY <1>0, <1>2, <3>2 DEF TypeOK
  <2> QED BY <1>0, <1>1, <1>2, <1>4, <1>6, <2>1, <2>2, <2>3, <2>4 DEF TypeOK, EffectIs, forms
<1> QED BY <1>4, <1>6, <1>7, <1>8 DEF IInv

-----------------------------------------------------------------------------
(* The theorems. *)

LEMMA InitIInv == Init => IInv
<1> SUFFICES ASSUME Init PROVE IInv
  OBVIOUS
<1>1. PICK old \in {{}} \cup {{e} : e \in Events}, look \in Looks :
          /\ db = [e \in Events |-> IF e \in old THEN NewEvent(look) ELSE None]
          /\ ids = old
          /\ list = [f \in Events |-> None]
          /\ loads = <<[got |-> None, newest |-> TRUE]>>
          /\ form = None /\ itemsOf = None /\ itemDraft = None /\ editing = None
          /\ handler = [h \in Handlers |-> Idle] /\ clicks = 0
          /\ confirming = None
          /\ typed = {} /\ made = [d \in Drafts |-> 0] /\ cutShort = {} /\ accepted = {} /\ behind = FALSE
  BY DEF Init
<1>2. /\ Len(loads) = 1 /\ loads \in Seq(Answered)
      /\ \A i \in 1..Len(loads) : i = 1 /\ loads[i].got = None /\ loads[i].newest
  <2>1. [got |-> None, newest |-> TRUE] \in Answered
    BY DEF Answered
  <2> QED BY <1>1, <2>1
<1>3. \A h \in Handlers : ~Busy(h) /\ ~Deletes(h)
  BY <1>1 DEF Busy, Deletes, Idle
<1>4. Within(db, ids) /\ Within(list, ids)
  BY <1>1 DEF Within, NewEvent
<1>5. Lists
  BY <1>2, <1>4 DEF Lists
<1>6. Coming
  BY <1>2 DEF Coming
<1>7. Asking
  BY <1>1, <1>3 DEF Asking
<1>8. DraftsOnce
  BY <1>1, <1>3, ConsoleAssumption DEF DraftsOnce, Drafted, InForm, InItem, Carries
<1>9. TypeOK
  <2>1. db \in Tables /\ list \in Tables
    <3>1. NewEvent(look) \in Rows
      BY DEF NewEvent, Rows
    <3> QED BY <1>1, <3>1 DEF Tables
  <2>2. \A i \in DOMAIN loads : loads[i] \in [got : Tables \cup {None}, newest : BOOLEAN]
    <3>1. DOMAIN loads = 1..Len(loads) /\ \A i \in 1..Len(loads) : loads[i] \in Answered
      BY <1>2, LenProperties, ElementOfSeq
    <3> QED BY <3>1 DEF Answered
  <2>3. Len(loads) <= MaxLoads /\ clicks \in 0..MaxClicks
    BY <1>1, <1>2, ConsoleAssumption
  <2> QED BY <1>1, <2>1, <2>2, <2>3 DEF TypeOK
<1> QED BY <1>5, <1>6, <1>7, <1>8, <1>9 DEF IInv, Told

LEMMA NextIInv == IInv /\ [Next]_vars => IInv'
<1> SUFFICES ASSUME IInv, [Next]_vars PROVE IInv'
  OBVIOUS
<1>1. ASSUME NEW h \in Handlers, Click(h) PROVE IInv'
  BY <1>1, ClickKeeps
<1>2. ASSUME NEW h \in Handlers, Continue(h) PROVE IInv'
  BY <1>2, SavedKeeps, ImageSavedKeeps, FailedKeeps DEF Continue
<1>3. ASSUME NEW i \in DOMAIN loads, LoadStep(i) PROVE IInv'
  BY <1>3, LoadServedKeeps, LoadEndsKeeps DEF LoadStep
<1>4. ASSUME NEW e \in Events, ManageItems(e) PROVE IInv'
  BY <1>4, StillKeeps
<1>5. ASSUME NEW e \in Events \cup {None}, NEW d \in Drafts \cup {None}, OpenForm(e, d) PROVE IInv'
  BY <1>5, OpenFormKeeps
<1>6. CASE CloseForm \/ CloseItems \/ Escape
  BY <1>6, CloseFormKeeps, CloseItemsKeeps, EscapeKeeps
<1>7. ASSUME NEW d \in Drafts, TypeItem(d) PROVE IInv'
  BY <1>7, TypeItemKeeps
<1>8. ASSUME NEW i \in Items \cup {None}, EditItem(i) PROVE IInv'
  BY <1>8, EditItemKeeps
<1>9. ASSUME NEW ok \in BOOLEAN, Settle(ok) PROVE IInv'
  BY <1>9, SettleKeeps
<1>10. CASE UNCHANGED vars
  BY <1>10, StillKeeps
<1> QED BY <1>1, <1>2, <1>3, <1>4, <1>5, <1>6, <1>7, <1>8, <1>9, <1>10 DEF Next

(* The three arguments hold along every behaviour of the page, its requests
   and the server. *)
THEOREM ConsoleInvariant == Spec => []IInv
BY InitIInv, NextIInv, PTL DEF Spec

(* Rows, dialogs and handlers keep their types, a confirmation is that of a
   handler waiting for it, and what is listed once had a row. *)
THEOREM ConsoleTypeCorrect == Spec => []TypeOK
<1>1. IInv => TypeOK
  BY DEF IInv
<1> QED BY <1>1, ConsoleInvariant, PTL

(* In whatever order handlers, dialogs and answers end, the list displayed at
   rest is the server's, unless a request failed or an older answer came
   last. *)
THEOREM ListComesBack == Spec => []ListCurrent
<1>1. IInv => ListCurrent
  <2> SUFFICES ASSUME IInv, loads = <<>>, \A h \in Handlers : handler[h].kind # "idle" => handler[h].step # "image"
               PROVE  list = db \/ behind
    BY DEF ListCurrent
  <2>1. NoneHalfway /\ ~Coming
    BY DEF NoneHalfway, Coming, Busy
  <2> QED BY <2>1 DEF IInv, Told, Come
<1> QED BY <1>1, ConsoleInvariant, PTL

(* A draft becomes one row, unless its handler failed after the row was
   there. *)
THEOREM NothingDuplicated == Spec => []DuplicateOnlyIfCutShort
<1>1. IInv => DuplicateOnlyIfCutShort
  <2> SUFFICES ASSUME IInv, NEW d \in Drafts, made[d] > 1, d \notin cutShort PROVE FALSE
    BY DEF DuplicateOnlyIfCutShort
  <2>1. made[d] \in Nat /\ Drafted(d)
    BY DEF IInv, TypeOK, DraftsOnce
  <2> QED BY <2>1 DEF Drafted
<1> QED BY <1>1, ConsoleInvariant, PTL

LEMMA NextDeletion == IInv /\ [Next]_vars => Deletion
<1> SUFFICES ASSUME IInv, [Next]_vars PROVE Deletion
  OBVIOUS
<1>1. ASSUME NEW h \in Handlers, Saved(h) \/ ImageSaved(h) PROVE Deletion
  BY <1>1, EffectOf DEF Saved, ImageSaved, Served, Busy, EffectIs
<1>2. ASSUME NEW h \in Handlers, NEW effective \in BOOLEAN, Failed(h, effective) PROVE Deletion
  BY <1>2, FailedEffect DEF EffectIs
<1>3. CASE UNCHANGED db
  <2>1. \A e \in Events : db[e].items \ db[e].items \subseteq accepted
    OBVIOUS
  <2> QED BY <1>3, <2>1 DEF Deletion
<1>4. ASSUME NEW h \in Handlers, Click(h) PROVE UNCHANGED db
  BY <1>4 DEF Click, ToggleActive, DeleteEvent, SubmitForm, AddItem, SaveItem, ClearImage, RemoveItem, Start
<1>5. ASSUME NEW i \in DOMAIN loads, LoadStep(i) PROVE UNCHANGED db
  BY <1>5 DEF LoadStep, LoadServed, LoadEnds
<1>6. ASSUME NEW e \in Events, ManageItems(e) PROVE UNCHANGED db
  BY <1>6 DEF ManageItems
<1>7. ASSUME NEW e \in Events \cup {None}, NEW d \in Drafts \cup {None}, OpenForm(e, d) PROVE UNCHANGED db
  BY <1>7 DEF OpenForm
<1>8. ASSUME CloseForm \/ CloseItems \/ Escape \/ UNCHANGED vars PROVE UNCHANGED db
  BY <1>8 DEF CloseForm, CloseItems, Escape, vars
<1>9. ASSUME NEW d \in Drafts, TypeItem(d) PROVE UNCHANGED db
  BY <1>9 DEF TypeItem
<1>10. ASSUME NEW i \in Items \cup {None}, EditItem(i) PROVE UNCHANGED db
  BY <1>10 DEF EditItem
<1>11. ASSUME NEW ok \in BOOLEAN, Settle(ok) PROVE UNCHANGED db
  BY <1>11 DEF Settle
<1> QED BY <1>1, <1>2, <1>3, <1>4, <1>5, <1>6, <1>7, <1>8, <1>9, <1>10, <1>11 DEF Next, Continue

(* Only what the administrator agreed to delete is deleted, whichever row the
   dialogs show by the time the request is sent. *)
THEOREM DeletedAsAgreed == Spec => DeletedOnlyIfAccepted
<1>1. IInv /\ [Next]_vars =>
        [\A e \in Events : db[e] # None =>
            IF db'[e] = None THEN e \in accepted ELSE db[e].items \ db'[e].items \subseteq accepted]_vars
  BY NextDeletion DEF Deletion
<1> QED BY <1>1, ConsoleInvariant, PTL DEF Spec, DeletedOnlyIfAccepted
=============================================================================
