-------------------------- MODULE EventItemsProofs ---------------------------
(***************************************************************************)
(* Proofs about EventItems, for any number of items, readers and           *)
(* administrators.  What Total computes plays no part: the proofs are      *)
(* about what was checked on which table, and what has changed since.      *)
(***************************************************************************)
EXTENDS EventItems, TLAPS

(* What the operation of a task says of its item and value. *)
Fits(t) ==
    /\ t.op \in RateOps => t.item \in Items /\ t.to \in Rates \cup {Absent}
    /\ t.op = "remove" => t.to = Absent
    /\ t.op = "relabel" => t.to \in Labels

(* What a task that no write has overtaken knows of the event: whether it is
   live, and that its write keeps the total in range. *)
Checked(t, rates, active) ==
    ~t.raced =>
        /\ t.op \in {"create", "update"} /\ t.step \in {"siblings", "write"} => t.live = active
        /\ t.op \in {"create", "update"} /\ t.step = "write" =>
               InRange([rates EXCEPT ![t.item] = t.to], t.live)
        /\ t.op = "activate" /\ t.step = "write" => active \/ Total(rates) = 100

Tasks == \A a \in Admins : admin[a] # IdleAdmin => Fits(admin[a]) /\ Checked(admin[a], rate, isActive)

IInv == TypeOK /\ Tasks /\ StaleOnlyIfStranded /\ TotalsDriftOnlyByRace

-----------------------------------------------------------------------------
LEMMA IdleIsNoTask == IdleAdmin \notin Task /\ IdleAdmin.step = "idle"
BY DEF IdleAdmin, Task

(* The sum over no items, by unfolding its recursive function once. *)
LEMMA EmptyTotal == Total(NoItems) = 0
<1> DEFINE F(it) == [s \in SUBSET {} |->
                        IF s = {} THEN 0
                        ELSE LET x == CHOOSE x \in s : TRUE
                             IN  NoItems[x] + it[s \ {x}]]
           g == CHOOSE it : it = F(it)
<1>1. {i \in Items : NoItems[i] # Absent} = {}
  BY DEF NoItems
<1>2. g = F(g)
  <2>1. [s \in SUBSET {} |-> 0] = F([s \in SUBSET {} |-> 0])
    OBVIOUS
  <2> QED
    BY <2>1
<1>3. g[{}] = 0
  <2> HIDE DEF g
  <2> QED
    BY <1>2
<1>4. Total(NoItems) = g[{}]
  BY <1>1 DEF Total, MapThenSumSet, MapThenFoldSet
<1> QED
  BY <1>3, <1>4

LEMMA Initially == Init => IInv
<1> SUFFICES ASSUME Init PROVE IInv
  OBVIOUS
<1>1. TypeOK
  <2>1. rate \in Rated
    BY DEF Init, NoItems, Rated
  <2> QED
    BY <2>1 DEF Init, TypeOK, IdleReader
<1>2. Tasks
  BY DEF Init, Tasks
<1>3. StaleOnlyIfStranded
  BY DEF Init, StaleOnlyIfStranded, Stale
<1>4. TotalsDriftOnlyByRace
  BY EmptyTotal DEF Init, TotalsDriftOnlyByRace, OutOfRange, InRange
<1> QED
  BY <1>1, <1>2, <1>3, <1>4 DEF IInv

-----------------------------------------------------------------------------
(* A step of one administrator that touches nothing but its task. *)
LEMMA TaskStep ==
    ASSUME IInv, NEW a \in Admins, admin[a].step # "invalidate",
           UNCHANGED <<database, cache, reader, stranded, drifted>>,
           NEW t \in Task \cup {IdleAdmin}, t # IdleAdmin => Fits(t) /\ Checked(t, rate, isActive),
           admin' = [admin EXCEPT ![a] = t]
    PROVE  IInv'
<1> USE DEF IInv, database
<1>1. admin' \in [Admins -> Task \cup {IdleAdmin}]
  BY DEF TypeOK
<1>2. TypeOK'
  BY <1>1 DEF TypeOK
<1>3. Tasks'
  <2> SUFFICES ASSUME NEW b \in Admins, admin'[b] # IdleAdmin
               PROVE  Fits(admin'[b]) /\ Checked(admin'[b], rate', isActive')
    BY DEF Tasks
  <2>1. CASE b = a
    BY <2>1 DEF TypeOK
  <2>2. CASE b # a
    BY <2>2 DEF TypeOK, Tasks
  <2> QED
    BY <2>1, <2>2
<1>4. StaleOnlyIfStranded'
  <2>1. \A b \in Admins : admin[b].step = "invalidate" => admin'[b].step = "invalidate"
    BY DEF TypeOK
  <2> QED
    BY <2>1 DEF StaleOnlyIfStranded, Stale, Table
<1>5. TotalsDriftOnlyByRace'
  BY DEF TotalsDriftOnlyByRace, OutOfRange, InRange
<1> QED
  BY <1>2, <1>3, <1>4, <1>5

LEMMA Starting ==
    ASSUME IInv, NEW a \in Admins, NEW op \in RateOps \cup {"relabel"} \cup EventOps,
           NEW i \in Items \cup {NoItem}, NEW v \in Rates \cup Labels \cup {Absent},
           NEW step \in {"event", "siblings", "write"}, NEW live \in BOOLEAN,
           op \in RateOps => i \in Items /\ v \in Rates \cup {Absent},
           op = "remove" => v = Absent, op = "relabel" => v \in Labels,
           op \in {"create", "update"} => step = "event",
           op = "activate" /\ step = "write" => isActive,
           Start(a, op, i, v, step, live)
    PROVE  IInv'
<1> DEFINE t == [step |-> step, op |-> op, item |-> i, to |-> v, live |-> live, raced |-> FALSE]
<1>1. t \in Task
  BY DEF Task
<1>2. Fits(t) /\ Checked(t, rate, isActive)
  BY DEF Fits, Checked
<1>3. admin[a].step # "invalidate"
  BY IdleIsNoTask DEF Start
<1> QED
  BY <1>1, <1>2, <1>3, TaskStep DEF Start

LEMMA Rejecting ==
    ASSUME IInv, NEW a \in Admins, admin[a].step # "invalidate", Reject(a)
    PROVE  IInv'
BY TaskStep DEF Reject, End

LEMMA Continuing ==
    ASSUME IInv, NEW a \in Admins, admin[a].step \in {"event", "siblings"},
           NEW step \in {"siblings", "write"}, NEW live \in BOOLEAN,
           Checked([admin[a] EXCEPT !.step = step, !.live = live], rate, isActive),
           Continue(a, step, live)
    PROVE  IInv'
<1> DEFINE t == [admin[a] EXCEPT !.step = step, !.live = live]
<1>1. admin[a] \in Task /\ admin[a] # IdleAdmin
  BY IdleIsNoTask DEF IInv, TypeOK
<1>2. t \in Task /\ t.op = admin[a].op /\ t.item = admin[a].item /\ t.to = admin[a].to
  BY <1>1 DEF Task
<1>3. Fits(t)
  BY <1>1, <1>2 DEF Fits, IInv, Tasks
<1>4. admin' = [admin EXCEPT ![a] = t]
  BY DEF Continue
<1> QED
  BY <1>2, <1>3, <1>4, TaskStep DEF Continue

-----------------------------------------------------------------------------
(* The checks.  A task that was not overtaken by a write until its check is
   checked on the table it will write to, unless a later write overtakes it. *)
LEMMA Checks ==
    ASSUME IInv, NEW a \in Admins, ReadEvent(a) \/ CheckSiblings(a) \/ CheckActivation(a)
    PROVE  IInv'
<1>1. admin[a] \in Task /\ admin[a] # IdleAdmin /\ admin[a].step # "invalidate"
  BY IdleIsNoTask DEF IInv, TypeOK, ReadEvent, CheckSiblings, CheckActivation, At
<1>2. Checked(admin[a], rate, isActive)
  BY <1>1 DEF IInv, Tasks
<1>3. CASE ReadEvent(a)
  <2>1. CASE Reject(a)
    BY <1>1, <2>1, Rejecting
  <2>2. CASE Continue(a, "siblings", isActive)
    <3>1. Checked([admin[a] EXCEPT !.step = "siblings", !.live = isActive], rate, isActive)
      BY <1>1 DEF Checked, Task
    <3> QED
      BY <1>3, <2>2, <3>1, Continuing DEF IInv, TypeOK, ReadEvent, At
  <2> QED
    BY <1>3, <2>1, <2>2 DEF ReadEvent
<1>4. CASE CheckSiblings(a)
  <2>1. CASE Reject(a)
    BY <1>1, <2>1, Rejecting
  <2>2. CASE /\ InRange([rate EXCEPT ![admin[a].item] = admin[a].to], admin[a].live)
             /\ Continue(a, "write", admin[a].live)
    <3>1. Checked([admin[a] EXCEPT !.step = "write", !.live = admin[a].live], rate, isActive)
      BY <1>1, <1>2, <1>4, <2>2 DEF Checked, Task, CheckSiblings, At
    <3> QED
      BY <1>1, <1>4, <2>2, <3>1, Continuing DEF CheckSiblings, At, Task
  <2> QED
    BY <1>4, <2>1, <2>2 DEF CheckSiblings
<1>5. CASE CheckActivation(a)
  <2>1. CASE Reject(a)
    BY <1>1, <2>1, Rejecting
  <2>2. CASE Total(rate) = 100 /\ Continue(a, "write", FALSE)
    <3>1. Checked([admin[a] EXCEPT !.step = "write", !.live = FALSE], rate, isActive)
      BY <1>1, <1>5, <2>2 DEF Checked, Task, CheckActivation, At
    <3> QED
      BY <1>5, <2>2, <3>1, Continuing DEF CheckActivation, At
  <2> QED
    BY <1>5, <2>1, <2>2 DEF CheckActivation
<1> QED
  BY <1>3, <1>4, <1>5

-----------------------------------------------------------------------------
(* The writes.  The task that wrote is over or about to invalidate, and every
   other one is overtaken. *)
LEMMA Marking ==
    ASSUME IInv, NEW a \in Admins, admin[a] \in Task, NEW step \in {"idle", "invalidate"},
           Mark(a, step)
    PROVE  /\ admin' \in [Admins -> Task \cup {IdleAdmin}]
           /\ Tasks'
           /\ step = "invalidate" => admin'[a].step = "invalidate"
<1> DEFINE mine == IF step = "idle" THEN IdleAdmin ELSE [admin[a] EXCEPT !.step = step]
           theirs(b) == IF admin[b] = IdleAdmin THEN IdleAdmin ELSE [admin[b] EXCEPT !.raced = TRUE]
<1>1. mine \in Task \cup {IdleAdmin}
  BY DEF Task
<1>2. mine # IdleAdmin => Fits(mine) /\ Checked(mine, rate', isActive')
  <2> SUFFICES ASSUME mine # IdleAdmin
               PROVE  Fits(mine) /\ Checked(mine, rate', isActive')
    OBVIOUS
  <2>1. /\ mine.step = "invalidate" /\ mine.op = admin[a].op
        /\ mine.item = admin[a].item /\ mine.to = admin[a].to
    BY DEF Task
  <2>2. Fits(admin[a])
    BY IdleIsNoTask DEF IInv, Tasks
  <2> QED
    BY <2>1, <2>2 DEF Fits, Checked
<1>3. \A b \in Admins :
          /\ theirs(b) \in Task \cup {IdleAdmin}
          /\ theirs(b) # IdleAdmin => Fits(theirs(b)) /\ Checked(theirs(b), rate', isActive')
  <2> SUFFICES ASSUME NEW b \in Admins, admin[b] # IdleAdmin
               PROVE  /\ theirs(b) \in Task
                      /\ Fits(theirs(b)) /\ Checked(theirs(b), rate', isActive')
    OBVIOUS
  <2>1. admin[b] \in Task /\ Fits(admin[b])
    BY DEF IInv, TypeOK, Tasks
  <2>2. /\ theirs(b) \in Task /\ theirs(b).raced /\ theirs(b).op = admin[b].op
        /\ theirs(b).item = admin[b].item /\ theirs(b).to = admin[b].to
    BY <2>1 DEF Task
  <2> QED
    BY <2>1, <2>2 DEF Fits, Checked
<1>4. admin' = [b \in Admins |-> IF b = a THEN mine ELSE theirs(b)]
  BY DEF Mark
<1> HIDE DEF mine, theirs
<1>5. admin' \in [Admins -> Task \cup {IdleAdmin}]
  BY <1>1, <1>3, <1>4
<1>6. Tasks'
  BY <1>2, <1>3, <1>4 DEF Tasks
<1>7. step = "invalidate" => admin'[a].step = "invalidate"
  BY <1>4 DEF mine, Task
<1> QED
  BY <1>5, <1>6, <1>7

(* What a write must establish for the total: that it is in range unless it
   was wrong before or the write was overtaken. *)
LEMMA Writing ==
    ASSUME IInv, NEW a \in Admins, admin[a] \in Task, NEW step \in {"idle", "invalidate"},
           NEW cause \in BOOLEAN, Wrote(a, step, cause),
           exists' \in BOOLEAN, isActive' \in BOOLEAN, ids' \subseteq Items, rate' \in Rated,
           label' = label,
           step = "invalidate" \/ ~exists',
           OutOfRange' => OutOfRange \/ cause
    PROVE  IInv'
<1>1. /\ admin' \in [Admins -> Task \cup {IdleAdmin}]
      /\ Tasks'
      /\ step = "invalidate" => admin'[a].step = "invalidate"
  BY Marking DEF Wrote
<1>2. /\ drifted' = (OutOfRange' /\ (drifted \/ cause))
      /\ UNCHANGED <<cache, reader, stranded>>
  BY DEF Wrote
<1>3. TypeOK'
  BY <1>1, <1>2 DEF IInv, TypeOK
<1>4. StaleOnlyIfStranded'
  BY <1>1 DEF StaleOnlyIfStranded, Stale
<1>5. TotalsDriftOnlyByRace'
  BY <1>2 DEF IInv, TotalsDriftOnlyByRace
<1> QED
  BY <1>1, <1>3, <1>4, <1>5 DEF IInv

LEMMA ItemWritten ==
    ASSUME IInv, NEW a \in Admins, WriteItem(a)
    PROVE  IInv'
<1> DEFINE t == admin[a]
           found == IF t.op = "create" THEN exists ELSE rate[t.item] # Absent
<1>1. t \in Task /\ t # IdleAdmin /\ t.op \in RateOps /\ t.step = "write"
  BY IdleIsNoTask DEF IInv, TypeOK, WriteItem, At
<1>2. t.item \in Items /\ t.to \in Rates \cup {Absent} /\ Checked(t, rate, isActive)
  BY <1>1 DEF IInv, Tasks, Fits
<1>3. CASE ~found
  BY <1>1, <1>3, Rejecting DEF WriteItem
<1>4. CASE found
  <2>1. /\ rate' = [rate EXCEPT ![t.item] = t.to] /\ ids' = ids \cup {t.item}
        /\ UNCHANGED <<exists, isActive, label>>
        /\ Wrote(a, "invalidate", t.raced \/ t.op = "remove")
    BY <1>4 DEF WriteItem
  <2>2. rate' \in Rated /\ ids' \subseteq Items /\ exists' \in BOOLEAN /\ isActive' \in BOOLEAN
    BY <1>2, <2>1 DEF IInv, TypeOK, Rated
  <2>3. ~t.raced /\ t.op # "remove" => ~OutOfRange'
    BY <1>1, <1>2, <2>1 DEF Checked, OutOfRange, InRange, RateOps
  <2>4. (t.raced \/ t.op = "remove") \in BOOLEAN
    BY <1>1 DEF Task
  <2> HIDE DEF t
  <2> QED
    BY <1>1, <2>1, <2>2, <2>3, <2>4, Writing DEF t
<1> QED
  BY <1>3, <1>4

LEMMA LabelWritten ==
    ASSUME IInv, NEW a \in Admins, WriteLabel(a)
    PROVE  IInv'
<1>1. /\ admin[a] \in Task /\ admin[a] # IdleAdmin /\ admin[a].step = "write"
      /\ admin[a].to \in Labels
  BY IdleIsNoTask DEF IInv, TypeOK, Tasks, Fits, WriteLabel, At
<1>2. CASE Reject(a)
  BY <1>1, <1>2, Rejecting
<1>3. CASE /\ label' = admin[a].to
           /\ admin' = [admin EXCEPT ![a].step = "invalidate"]
           /\ UNCHANGED <<exists, isActive, ids, rate, cache, reader, stranded, drifted>>
  <2> DEFINE t == [admin[a] EXCEPT !.step = "invalidate"]
  <2>1. t \in Task /\ t.op = admin[a].op /\ t.item = admin[a].item /\ t.to = admin[a].to
    BY <1>1 DEF Task
  <2>2. Fits(t) /\ Checked(t, rate', isActive')
    BY <1>1, <2>1 DEF IInv, Tasks, Fits, Checked, Task
  <2>3. admin' = [admin EXCEPT ![a] = t]
    BY <1>3
  <2> HIDE DEF t
  <2>4. TypeOK'
    BY <1>1, <1>3, <2>1, <2>3 DEF IInv, TypeOK
  <2>5. Tasks'
    <3> SUFFICES ASSUME NEW b \in Admins, admin'[b] # IdleAdmin
                 PROVE  Fits(admin'[b]) /\ Checked(admin'[b], rate', isActive')
      BY DEF Tasks
    <3>1. admin'[b] = IF b = a THEN t ELSE admin[b]
      BY <2>3 DEF IInv, TypeOK
    <3>2. CASE b = a
      BY <2>2, <3>1, <3>2
    <3>3. CASE b # a
      BY <1>3, <3>1, <3>3 DEF IInv, Tasks
    <3> QED
      BY <3>2, <3>3
  <2>6. admin'[a].step = "invalidate"
    BY <1>1, <2>3 DEF t, IInv, TypeOK, Task
  <2>7. TotalsDriftOnlyByRace'
    BY <1>3 DEF IInv, TotalsDriftOnlyByRace, OutOfRange, InRange
  <2> QED
    BY <2>4, <2>5, <2>6, <2>7 DEF IInv, StaleOnlyIfStranded
<1> QED
  BY <1>2, <1>3 DEF WriteLabel

LEMMA EventWritten ==
    ASSUME IInv, NEW a \in Admins, WriteActive(a) \/ WriteRemoval(a)
    PROVE  IInv'
<1>1. /\ admin[a] \in Task /\ admin[a] # IdleAdmin /\ admin[a].step = "write"
      /\ Checked(admin[a], rate, isActive) /\ admin[a].raced \in BOOLEAN
  BY IdleIsNoTask DEF IInv, TypeOK, Tasks, Task, WriteActive, WriteRemoval, At
<1>2. CASE Reject(a)
  BY <1>1, <1>2, Rejecting
<1>3. CASE WriteActive(a) /\ ~Reject(a)
  <2>1. /\ isActive' = (admin[a].op = "activate")
        /\ UNCHANGED <<exists, ids, rate, label>>
        /\ Wrote(a, "invalidate", admin[a].raced)
    BY <1>3 DEF WriteActive
  <2>2. OutOfRange' => OutOfRange \/ admin[a].raced
    <3> SUFFICES ASSUME OutOfRange', ~admin[a].raced
                 PROVE  OutOfRange
      OBVIOUS
    <3>1. CASE admin[a].op = "activate"
      BY <1>1, <2>1, <3>1 DEF Checked, OutOfRange, InRange
    <3>2. CASE admin[a].op # "activate"
      <4>1. ~isActive' /\ exists /\ rate' = rate
        BY <2>1, <3>2 DEF OutOfRange
      <4>2. ~(Total(rate) <= 100)
        BY <4>1 DEF OutOfRange, InRange
      <4>3. Total(rate) # 100
        BY <4>2
      <4> QED
        BY <4>1, <4>2, <4>3 DEF OutOfRange, InRange
    <3> QED
      BY <3>1, <3>2
  <2> QED
    BY <1>1, <2>1, <2>2, Writing DEF IInv, TypeOK
<1>4. CASE WriteRemoval(a)
  <2>1. NoItems \in Rated
    BY DEF NoItems, Rated
  <2>2. ~OutOfRange'
    BY <1>4 DEF WriteRemoval, OutOfRange
  <2> QED
    BY <1>1, <1>4, <2>1, <2>2, Writing DEF WriteRemoval, IInv, TypeOK
<1> QED
  BY <1>2, <1>3, <1>4

(* A request that ends, after the copy is deleted or by a failure. *)
LEMMA Ending ==
    ASSUME IInv, NEW a \in Admins, End(a), UNCHANGED <<database, reader, drifted>>,
           cache' \in {cache, Missing}, stranded' \in BOOLEAN,
           Stale' => stranded' \/ \E b \in Admins \ {a} : admin[b].step = "invalidate"
    PROVE  IInv'
<1>1. admin' = [admin EXCEPT ![a] = IdleAdmin]
  BY DEF End
<1>2. TypeOK'
  BY <1>1 DEF IInv, TypeOK, database
<1>3. Tasks'
  BY <1>1 DEF IInv, Tasks, TypeOK, database
<1>4. StaleOnlyIfStranded'
  BY <1>1 DEF IInv, StaleOnlyIfStranded, TypeOK
<1>5. TotalsDriftOnlyByRace'
  BY DEF IInv, TotalsDriftOnlyByRace, OutOfRange, InRange, database
<1> QED
  BY <1>2, <1>3, <1>4, <1>5 DEF IInv

LEMMA Administering ==
    ASSUME IInv, NEW a \in Admins, Administer(a)
    PROVE  IInv'
<1>1. CASE \E i \in Items, v \in Rates : CreateItem(a, i, v) \/ UpdateItem(a, i, v)
  BY <1>1, Starting DEF CreateItem, UpdateItem, RateOps
<1>2. CASE \E i \in Items, v \in Labels : RelabelItem(a, i, v)
  BY <1>2, Starting DEF RelabelItem, RateOps
<1>3. CASE \E i \in Items : RemoveItem(a, i)
  BY <1>3, Starting DEF RemoveItem, RateOps
<1>4. CASE \E b \in BOOLEAN : SetActive(a, b)
  <2> PICK b \in BOOLEAN : SetActive(a, b)
    BY <1>4
  <2>1. isActive \in BOOLEAN
    BY DEF IInv, TypeOK
  <2>2. CASE b
    BY <2>1, <2>2, Starting DEF SetActive, RateOps, EventOps
  <2>3. CASE ~b
    BY <2>1, <2>3, Starting DEF SetActive, RateOps, EventOps
  <2> QED
    BY <2>2, <2>3
<1>5. CASE RemoveEvent(a)
  BY <1>5, Starting DEF RemoveEvent, RateOps, EventOps
<1>6. CASE ReadEvent(a) \/ CheckSiblings(a) \/ CheckActivation(a)
  BY <1>6, Checks
<1>7. CASE WriteItem(a)
  BY <1>7, ItemWritten
<1>8. CASE WriteLabel(a)
  BY <1>8, LabelWritten
<1>9. CASE WriteActive(a) \/ WriteRemoval(a)
  BY <1>9, EventWritten
<1>10. CASE Invalidate(a)
  BY <1>10, Ending DEF Invalidate, Stale
<1>11. CASE AdminFails(a)
  <2>1. Stale' <=> Stale
    BY <1>11 DEF AdminFails, Stale, Table, database
  <2>2. stranded' = (stranded \/ (admin[a].step = "invalidate" /\ Stale)) /\ stranded' \in BOOLEAN
    BY <1>11 DEF AdminFails, IInv, TypeOK
  <2>3. Stale => stranded \/ \E b \in Admins : admin[b].step = "invalidate"
    BY DEF IInv, StaleOnlyIfStranded
  <2>4. Stale' => stranded' \/ \E b \in Admins \ {a} : admin[b].step = "invalidate"
    BY <2>1, <2>2, <2>3
  <2> QED
    BY <1>11, <2>2, <2>4, Ending DEF AdminFails
<1> QED
  BY <1>1, <1>2, <1>3, <1>4, <1>5, <1>6, <1>7, <1>8, <1>9, <1>10, <1>11 DEF Administer

-----------------------------------------------------------------------------
(* The readers, and the TTL.  Only a fill and the TTL touch the copy, and a
   fill records whether what it stores was overtaken. *)
LEMMA Reading ==
    ASSUME IInv, UNCHANGED <<database, admin, drifted>>,
           reader' \in [Readers -> [step : {"idle", "get", "findMany"}, list : {Missing}]
                                     \cup [step : {"set", "return"}, list : Lists]],
           cache' \in Lists \cup {Missing}, stranded' \in BOOLEAN,
           \/ UNCHANGED <<cache, stranded>>
           \/ Stale' => stranded'
    PROVE  IInv'
<1>1. TypeOK'
  BY DEF IInv, TypeOK, database
<1>2. Tasks'
  BY DEF IInv, Tasks, database
<1>3. StaleOnlyIfStranded'
  BY DEF IInv, StaleOnlyIfStranded, Stale, Table, database
<1>4. TotalsDriftOnlyByRace'
  BY DEF IInv, TotalsDriftOnlyByRace, OutOfRange, InRange, database
<1> QED
  BY <1>1, <1>2, <1>3, <1>4 DEF IInv

LEMMA ReaderSteps ==
    ASSUME IInv, NEW x \in Readers, Read(x)
    PROVE  IInv'
<1>1. /\ reader \in [Readers -> [step : {"idle", "get", "findMany"}, list : {Missing}]
                                  \cup [step : {"set", "return"}, list : Lists]]
      /\ cache \in Lists \cup {Missing} /\ stranded \in BOOLEAN
  BY DEF IInv, TypeOK
<1>2. CASE FindEvent(x)
  BY <1>1, <1>2, Reading DEF FindEvent
<1>3. CASE GetCached(x)
  BY <1>1, <1>3, Reading DEF GetCached
<1>4. CASE FindItems(x)
  <2>1. Table \in Lists
    BY DEF IInv, TypeOK, Table, Lists
  <2> QED
    BY <1>1, <1>4, <2>1, Reading DEF FindItems
<1>5. CASE SetCached(x)
  <2>1. reader[x].list \in Lists
    BY <1>1, <1>5 DEF SetCached
  <2>2. Stale' => stranded'
    BY <1>5 DEF SetCached, Stale, Table, database
  <2>3. stranded' \in BOOLEAN
    BY <1>5 DEF SetCached, IInv, TypeOK
  <2> QED
    BY <1>1, <1>5, <2>1, <2>2, <2>3, Reading DEF SetCached
<1>6. CASE Return(x) \/ ReaderFails(x)
  BY <1>1, <1>6, Reading DEF Return, ReaderFails, IdleReader
<1> QED
  BY <1>2, <1>3, <1>4, <1>5, <1>6 DEF Read

(* The inductive invariant: every task fits its operation, and what a task has
   checked holds of the table until another write marks the task overtaken. *)
THEOREM ItemsInvariant == Spec => []IInv
<1>1. IInv /\ [Next]_vars => IInv'
  <2> SUFFICES ASSUME IInv, [Next]_vars PROVE IInv'
    OBVIOUS
  <2>1. CASE \E x \in Readers : Read(x)
    BY <2>1, ReaderSteps
  <2>2. CASE \E a \in Admins : Administer(a)
    BY <2>2, Administering
  <2>3. CASE Expire
    BY <2>3, Reading DEF Expire, Stale, IInv, TypeOK
  <2>4. CASE UNCHANGED vars
    BY <2>4, Reading DEF vars, database, IInv, TypeOK
  <2> QED
    BY <2>1, <2>2, <2>3, <2>4 DEF Next
<1> QED
  BY Initially, <1>1, PTL DEF Spec

(* Types, for any number of items, readers and administrators. *)
THEOREM ItemsTypeCorrect == Spec => []TypeOK
<1>1. IInv => TypeOK
  BY DEF IInv
<1> QED
  BY <1>1, ItemsInvariant, PTL

(* The cached list differs from the table only while the write that made it
   differ is about to delete it, or because a fill was overtaken or a request
   died: no write path of gacha-cache.service.ts's callers forgets. *)
THEOREM NoPathForgets == Spec => []StaleOnlyIfStranded
<1>1. IInv => StaleOnlyIfStranded
  BY DEF IInv
<1> QED
  BY <1>1, ItemsInvariant, PTL

(* Without a removal or an overtaken check, drafts stay at or below 100 and
   live events at 100. *)
THEOREM ChecksKeepTotals == Spec => []TotalsDriftOnlyByRace
<1>1. IInv => TotalsDriftOnlyByRace
  BY DEF IInv
<1> QED
  BY <1>1, ItemsInvariant, PTL
-----------------------------------------------------------------------------
(* One administrator at a time.  Only another administrator's write overtakes
   a check, so what a lone administrator writes is what it checked. *)
Unraced == \A a \in Admins : admin[a] # IdleAdmin => ~admin[a].raced

LEMMA MarkingAlone ==
    ASSUME \A a, b \in Admins : a = b,
           IInv, Unraced, NEW a \in Admins, NEW step \in {"idle", "invalidate"},
           admin[a] \in Task, Mark(a, step)
    PROVE  Unraced'
<1> SUFFICES ASSUME NEW b \in Admins, admin'[b] # IdleAdmin
             PROVE  ~admin'[b].raced
  BY DEF Unraced
<1>1. b = a
  OBVIOUS
<1>2. admin'[b] = [admin[a] EXCEPT !.step = step]
  BY <1>1 DEF Mark
<1> QED
  BY <1>2, IdleIsNoTask DEF Unraced, Task

(* Every other step keeps the mark of each task it does not begin or end. *)
LEMMA UnracedStep ==
    ASSUME IInv, Unraced, NEW a \in Admins, NEW t, t = IdleAdmin \/ ~t.raced,
           admin' = [admin EXCEPT ![a] = t]
    PROVE  Unraced'
BY DEF Unraced, IInv, TypeOK

LEMMA UnracedNext ==
    ASSUME \A a, b \in Admins : a = b, IInv, Unraced, [Next]_vars
    PROVE  Unraced'
<1>1. CASE \E x \in Readers : Read(x)
  BY <1>1 DEF Read, FindEvent, GetCached, FindItems, SetCached, Return, ReaderFails, Unraced
<1>2. CASE Expire \/ UNCHANGED vars
  BY <1>2 DEF Expire, vars, Unraced
<1>3. ASSUME NEW a \in Admins, Administer(a)
      PROVE  Unraced'
  <2> DEFINE t == admin[a]
  <2>1. /\ t # IdleAdmin => t \in Task /\ ~t.raced
        /\ t.step # "idle" => t # IdleAdmin
    BY IdleIsNoTask DEF IInv, TypeOK, Unraced
  <2>2. CASE End(a)
    BY <2>2, UnracedStep DEF End
  <2>3. ASSUME NEW op, NEW i, NEW v, NEW step, NEW live, Start(a, op, i, v, step, live)
        PROVE  Unraced'
    BY <2>3, UnracedStep DEF Start
  <2>4. ASSUME NEW step, NEW live, t # IdleAdmin, Continue(a, step, live)
        PROVE  Unraced'
    <3>1. ~[t EXCEPT !.step = step, !.live = live].raced
      BY <2>1, <2>4 DEF Task
    <3>2. admin' = [admin EXCEPT ![a] = [t EXCEPT !.step = step, !.live = live]]
      BY <2>4 DEF Continue
    <3> QED
      BY <3>1, <3>2, UnracedStep
  <2>5. ASSUME NEW step \in {"idle", "invalidate"}, t # IdleAdmin, Mark(a, step)
        PROVE  Unraced'
    BY <2>1, <2>5, MarkingAlone
  <2>6. CASE WriteLabel(a)
    <3>1. t # IdleAdmin
      BY <2>1, <2>6 DEF WriteLabel, At
    <3>2. CASE Reject(a)
      BY <2>2, <3>2 DEF Reject
    <3>3. CASE admin' = [admin EXCEPT ![a].step = "invalidate"]
      <4>1. ~[t EXCEPT !.step = "invalidate"].raced
        BY <2>1, <3>1 DEF Task
      <4> QED
        BY <3>3, <4>1, UnracedStep
    <3> QED
      BY <2>6, <3>2, <3>3 DEF WriteLabel
  <2>7. CASE \/ \E i \in Items, v \in Rates : CreateItem(a, i, v) \/ UpdateItem(a, i, v)
             \/ \E i \in Items, v \in Labels : RelabelItem(a, i, v)
             \/ \E i \in Items : RemoveItem(a, i)
             \/ \E b \in BOOLEAN : SetActive(a, b)
             \/ RemoveEvent(a)
    <3> HIDE DEF t
    <3> QED
      BY <2>3, <2>7 DEF CreateItem, UpdateItem, RelabelItem, RemoveItem, SetActive, RemoveEvent
  <2>8. CASE ReadEvent(a) \/ CheckSiblings(a) \/ CheckActivation(a)
    BY <2>1, <2>2, <2>4, <2>8 DEF ReadEvent, CheckSiblings, CheckActivation, At, Reject
  <2>9. CASE WriteItem(a) \/ WriteActive(a) \/ WriteRemoval(a)
    BY <2>1, <2>2, <2>5, <2>9 DEF WriteItem, WriteActive, WriteRemoval, At, Reject, Wrote
  <2>10. CASE Invalidate(a) \/ AdminFails(a)
    BY <2>2, <2>10 DEF Invalidate, AdminFails
  <2> QED
    BY <1>3, <2>6, <2>7, <2>8, <2>9, <2>10 DEF Administer
<1> QED
  BY <1>1, <1>2, <1>3 DEF Next

(* A write that gives an item of a live event a rate is a create or an update
   whose check was not overtaken, and what it checked is what it leaves. *)
LEMMA LiveWrite ==
    ASSUME IInv, Unraced, [Next]_vars,
           isActive', NEW i \in Items, rate'[i] \notin {rate[i], Absent}
    PROVE  Total(rate') = 100
<1>1. rate' # rate
  OBVIOUS
<1>2. PICK a \in Admins : WriteItem(a) /\ ~Reject(a)
  <2>1. PICK a \in Admins : Administer(a)
    BY <1>1 DEF Next, Read, FindEvent, GetCached, FindItems, SetCached, Return, ReaderFails,
                Expire, vars, database
  <2>2. ~Reject(a)
    BY <1>1 DEF Reject, database
  <2>3. ~WriteRemoval(a)
    BY DEF WriteRemoval
  <2> QED
    BY <1>1, <2>1, <2>2, <2>3
       DEF Administer, CreateItem, UpdateItem, RelabelItem, RemoveItem, SetActive, RemoveEvent, Start,
           ReadEvent, CheckSiblings, CheckActivation, Continue, WriteLabel, WriteActive,
           Invalidate, AdminFails, database
<1> DEFINE t == admin[a]
<1>3. /\ t \in Task /\ t # IdleAdmin /\ t.op \in RateOps /\ t.step = "write"
      /\ t.item \in Items /\ t.to \in Rates \cup {Absent} /\ Checked(t, rate, isActive) /\ ~t.raced
  BY <1>2, IdleIsNoTask DEF IInv, TypeOK, Tasks, Fits, Unraced, WriteItem, At
<1>4. rate' = [rate EXCEPT ![t.item] = t.to] /\ isActive' = isActive
  BY <1>2 DEF WriteItem
<1>5. t.op # "remove"
  <2>1. i = t.item /\ t.to # Absent
    BY <1>3, <1>4 DEF IInv, TypeOK, Rated
  <2> QED
    BY <1>3, <2>1 DEF IInv, Tasks, Fits
<1> QED
  BY <1>3, <1>4, <1>5 DEF Checked, InRange, RateOps

(* README.md:371 of the repository, item writes to an active event keep its
   total at 100, is what one administrator at a time may rely on, whatever
   requests fail; two of them at once break it. *)
THEOREM LoneAdministratorKeepsTotals ==
    ASSUME \A a, b \in Admins : a = b
    PROVE  Spec => LiveWritesKeepTotal
<1>1. Init => Unraced
  BY DEF Init, Unraced
<1>2. IInv /\ Unraced /\ [Next]_vars => Unraced'
  BY UnracedNext
<1>3. IInv /\ Unraced /\ [Next]_vars =>
          [(isActive' /\ \E i \in Items : rate'[i] \notin {rate[i], Absent}) => Total(rate') = 100]_vars
  BY LiveWrite
<1> QED
  BY <1>1, <1>2, <1>3, ItemsInvariant, PTL DEF Spec, LiveWritesKeepTotal
=============================================================================
