--------------------------- MODULE AdminFeedProofs ---------------------------
(***************************************************************************)
(* Proofs about AdminFeed, for any draws, any length of the list and any   *)
(* number of crashes and lost connections.  A draw is followed from its    *)
(* emission to the list: as long as no worker died with it, it is either   *)
(* waiting to be published or announced, once.                             *)
(***************************************************************************)
EXTENDS AdminFeed, SequenceTheorems, TLAPS

(* Draws that are still to be published, and draws the page has been sent. *)
Waiting ==
    emit \cup ToSet(queue)
         \cup (IF active # None /\ ~active.published THEN {active.draw} ELSE {})
Announced == ToSet(wire) \cup ToSet(live)

(* No member of s but those of T is in it twice. *)
OnceExcept(s, T) == \A i, j \in DOMAIN s : i # j /\ s[i] = s[j] => s[i] \in T

IInv ==
    /\ TypeOK
    /\ Waiting \cap Announced \subseteq stalled
    /\ ToSet(wire) \cap ToSet(live) \subseteq stalled
    /\ OnceExcept(wire, stalled) /\ OnceExcept(live, stalled)

-----------------------------------------------------------------------------
(* Members and repetitions of sequences. *)

LEMMA OnceIsInjective == ASSUME NEW s PROVE IsInjective(s) <=> OnceExcept(s, {})
BY DEF IsInjective, OnceExcept

LEMMA Members ==
    ASSUME NEW S, NEW s \in Seq(S)
    PROVE  /\ Len(s) \in Nat /\ DOMAIN s = 1..Len(s)
           /\ ToSet(s) \subseteq S
           /\ \A x : x \in ToSet(s) <=> \E i \in 1..Len(s) : s[i] = x
           /\ s \in Seq(ToSet(s))
<1>1. Len(s) \in Nat /\ DOMAIN s = 1..Len(s) /\ s \in [1..Len(s) -> S]
  BY LenProperties
<1>2. \A x : x \in ToSet(s) <=> \E i \in 1..Len(s) : s[i] = x
  BY <1>1 DEF ToSet
<1>3. ToSet(s) \subseteq S
  BY <1>1, <1>2
<1>4. s \in [1..Len(s) -> ToSet(s)]
  BY <1>1, <1>2
<1>5. s \in Seq(ToSet(s))
  BY <1>1, <1>4, SeqDef
<1> QED BY <1>1, <1>2, <1>3, <1>5

LEMMA AppendMembers ==
    ASSUME NEW S, NEW T, NEW s \in Seq(S), NEW x \in S
    PROVE  /\ Append(s, x) \in Seq(S) /\ ToSet(Append(s, x)) = ToSet(s) \cup {x}
           /\ OnceExcept(s, T) /\ (x \in ToSet(s) => x \in T) => OnceExcept(Append(s, x), T)
<1> DEFINE t == Append(s, x)
<1>1. /\ t \in Seq(S) /\ Len(t) = Len(s) + 1
      /\ \A i \in 1..Len(s) : t[i] = s[i]
      /\ t[Len(s) + 1] = x
  BY AppendProperties
<1> HIDE DEF t
<1>2. /\ Len(s) \in Nat /\ DOMAIN s = 1..Len(s) /\ DOMAIN t = 1..Len(t)
      /\ \A y : y \in ToSet(s) <=> \E i \in 1..Len(s) : s[i] = y
      /\ \A y : y \in ToSet(t) <=> \E i \in 1..Len(t) : t[i] = y
  BY <1>1, Members
<1>3. \A i \in 1..Len(t) : i \in 1..Len(s) \/ i = Len(s) + 1
  BY <1>1, <1>2
<1>4. ToSet(t) = ToSet(s) \cup {x}
  <2>1. ASSUME NEW y \in ToSet(t) PROVE y \in ToSet(s) \cup {x}
    BY <1>1, <1>2, <1>3
  <2>2. ToSet(s) \subseteq ToSet(t)
    BY <1>1, <1>2
  <2>3. x \in ToSet(t)
    <3>1. Len(s) + 1 \in 1..Len(t)
      BY <1>1, <1>2
    <3> QED BY <1>1, <1>2, <3>1
  <2> QED BY <2>1, <2>2, <2>3
<1>5. ASSUME OnceExcept(s, T), x \in ToSet(s) => x \in T PROVE OnceExcept(t, T)
  <2> SUFFICES ASSUME NEW i \in 1..Len(t), NEW j \in 1..Len(t), i # j, t[i] = t[j] PROVE t[i] \in T
    BY <1>2 DEF OnceExcept
  <2>1. CASE i \in 1..Len(s) /\ j \in 1..Len(s)
    BY <1>1, <1>2, <1>5, <2>1 DEF OnceExcept
  <2>2. CASE i = Len(s) + 1 \/ j = Len(s) + 1
    <3>1. i \in 1..Len(s) \/ j \in 1..Len(s)
      BY <1>3, <2>2
    <3>2. t[i] = x
      BY <1>1, <2>2
    <3>3. x \in ToSet(s)
      BY <1>1, <1>2, <3>1, <3>2
    <3> QED BY <1>5, <3>2, <3>3
  <2> QED BY <1>3, <2>1, <2>2
<1> QED BY <1>1, <1>4, <1>5 DEF t

LEMMA TailMembers ==
    ASSUME NEW S, NEW T, NEW s \in Seq(S), s # <<>>
    PROVE  /\ Head(s) \in S /\ Tail(s) \in Seq(S)
           /\ ToSet(s) = {Head(s)} \cup ToSet(Tail(s))
           /\ OnceExcept(s, T) => /\ OnceExcept(Tail(s), T)
                                  /\ Head(s) \in ToSet(Tail(s)) => Head(s) \in T
<1> DEFINE t == Tail(s)
<1>1. /\ Head(s) \in S /\ t \in Seq(S) /\ Len(t) = Len(s) - 1
      /\ \A i \in 1..Len(t) : t[i] = s[i + 1]
  BY HeadTailProperties
<1>2. Head(s) = s[1] /\ Len(s) \in Nat \ {0}
  BY EmptySeq DEF Head
<1> HIDE DEF t
<1>3. /\ DOMAIN s = 1..Len(s) /\ DOMAIN t = 1..Len(t)
      /\ \A y : y \in ToSet(s) <=> \E i \in 1..Len(s) : s[i] = y
      /\ \A y : y \in ToSet(t) <=> \E i \in 1..Len(t) : t[i] = y
  BY <1>1, Members
<1>4. \A i \in 1..Len(t) : i + 1 \in 1..Len(s) /\ i + 1 # 1
  BY <1>1, <1>2
<1>5. \A i \in 1..Len(s) : i = 1 \/ (i - 1 \in 1..Len(t) /\ s[i] = t[i - 1])
  <2> TAKE i \in 1..Len(s)
  <2>1. CASE i # 1
    <3>1. i - 1 \in 1..Len(t) /\ (i - 1) + 1 = i
      BY <1>1, <1>2, <2>1
    <3> QED BY <1>1, <3>1
  <2> QED BY <2>1
<1>6. ToSet(s) = {Head(s)} \cup ToSet(t)
  <2>1. ASSUME NEW y \in ToSet(s) PROVE y \in {Head(s)} \cup ToSet(t)
    BY <1>2, <1>3, <1>5
  <2>2. ToSet(t) \subseteq ToSet(s)
    BY <1>1, <1>3, <1>4
  <2>3. Head(s) \in ToSet(s)
    BY <1>2, <1>3
  <2> QED BY <2>1, <2>2, <2>3
<1>7. ASSUME OnceExcept(s, T)
      PROVE  OnceExcept(t, T) /\ (Head(s) \in ToSet(t) => Head(s) \in T)
  <2>1. OnceExcept(t, T)
    <3> SUFFICES ASSUME NEW i \in 1..Len(t), NEW j \in 1..Len(t), i # j, t[i] = t[j] PROVE t[i] \in T
      BY <1>3 DEF OnceExcept
    <3>1. i + 1 # j + 1 /\ i + 1 \in 1..Len(s) /\ j + 1 \in 1..Len(s)
      BY <1>4
    <3> QED BY <1>1, <1>3, <1>7, <3>1 DEF OnceExcept
  <2>2. ASSUME Head(s) \in ToSet(t) PROVE Head(s) \in T
    <3>1. PICK i \in 1..Len(t) : t[i] = Head(s)
      BY <1>3, <2>2
    <3>2. i + 1 \in 1..Len(s) /\ i + 1 # 1 /\ 1 \in 1..Len(s) /\ s[i + 1] = s[1]
      BY <1>1, <1>2, <1>4, <3>1
    <3> QED BY <1>2, <1>3, <1>7, <3>2 DEF OnceExcept
  <2> QED BY <2>1, <2>2
<1> QED BY <1>1, <1>6, <1>7 DEF t

LEMMA PrependMembers ==
    ASSUME NEW S, NEW T, NEW s \in Seq(S), NEW x \in S
    PROVE  /\ <<x>> \o s \in Seq(S) /\ ToSet(<<x>> \o s) = ToSet(s) \cup {x}
           /\ OnceExcept(s, T) /\ (x \in ToSet(s) => x \in T) => OnceExcept(<<x>> \o s, T)
<1> DEFINE t == <<x>> \o s
<1>1. <<x>> \in Seq(S) /\ Len(<<x>>) = 1 /\ <<x>>[1] = x
  OBVIOUS
<1>2. /\ t \in Seq(S) /\ Len(t) = 1 + Len(s)
      /\ \A i \in 1..1 + Len(s) : t[i] = IF i <= 1 THEN <<x>>[i] ELSE s[i - 1]
  BY <1>1, ConcatProperties
<1> HIDE DEF t
<1>3. /\ Len(s) \in Nat /\ DOMAIN s = 1..Len(s) /\ DOMAIN t = 1..Len(t)
      /\ \A y : y \in ToSet(s) <=> \E i \in 1..Len(s) : s[i] = y
      /\ \A y : y \in ToSet(t) <=> \E i \in 1..Len(t) : t[i] = y
  BY <1>2, Members
<1>4. t[1] = x /\ 1 \in 1..Len(t)
  BY <1>1, <1>2, <1>3
<1>5. \A i \in 1..Len(t) : i = 1 \/ (i - 1 \in 1..Len(s) /\ t[i] = s[i - 1])
  BY <1>2, <1>3
<1>6. \A i \in 1..Len(s) : i + 1 \in 1..Len(t) /\ t[i + 1] = s[i]
  <2> TAKE i \in 1..Len(s)
  <2>1. i + 1 \in 1..Len(t) /\ (i + 1) - 1 = i /\ i + 1 # 1
    BY <1>2, <1>3
  <2> QED BY <1>5, <2>1
<1>7. ToSet(t) = ToSet(s) \cup {x}
  <2>1. ASSUME NEW y \in ToSet(t) PROVE y \in ToSet(s) \cup {x}
    BY <1>3, <1>4, <1>5
  <2>2. ToSet(s) \subseteq ToSet(t)
    BY <1>3, <1>6
  <2> QED BY <1>3, <1>4, <2>1, <2>2
<1>8. ASSUME OnceExcept(s, T), x \in ToSet(s) => x \in T PROVE OnceExcept(t, T)
  <2> SUFFICES ASSUME NEW i \in 1..Len(t), NEW j \in 1..Len(t), i # j, t[i] = t[j] PROVE t[i] \in T
    BY <1>3 DEF OnceExcept
  <2>1. CASE i # 1 /\ j # 1
    <3>1. i - 1 \in 1..Len(s) /\ j - 1 \in 1..Len(s) /\ i - 1 # j - 1
      BY <1>5, <2>1
    <3>2. t[i] = s[i - 1] /\ t[j] = s[j - 1]
      BY <1>5, <2>1
    <3> QED BY <1>3, <1>8, <3>1, <3>2 DEF OnceExcept
  <2>2. CASE i = 1 \/ j = 1
    <3>1. x \in ToSet(s)
      BY <1>3, <1>4, <1>5, <2>2
    <3> QED BY <1>4, <1>8, <2>2, <3>1
  <2> QED BY <2>1, <2>2
<1> QED BY <1>2, <1>7, <1>8 DEF t

LEMMA PrefixMembers ==
    ASSUME NEW S, NEW T, NEW s \in Seq(S), NEW n \in 0..Len(s)
    PROVE  /\ SubSeq(s, 1, n) \in Seq(S) /\ Len(SubSeq(s, 1, n)) = n
           /\ ToSet(SubSeq(s, 1, n)) \subseteq ToSet(s)
           /\ OnceExcept(s, T) => OnceExcept(SubSeq(s, 1, n), T)
<1> DEFINE t == SubSeq(s, 1, n)
<1>1. /\ Len(s) \in Nat /\ DOMAIN s = 1..Len(s)
      /\ \A i \in 1..Len(s) : s[i] \in S
      /\ \A y : y \in ToSet(s) <=> \E i \in 1..Len(s) : s[i] = y
  BY Members, ElementOfSeq
<1>2. \A i \in 1..n : s[i] \in S /\ i \in 1..Len(s)
  BY <1>1
<1>3. /\ t \in Seq(S) /\ Len(t) = (IF 1 <= n THEN n - 1 + 1 ELSE 0)
      /\ \A i \in 1..n - 1 + 1 : t[i] = s[1 + i - 1]
  BY <1>1, <1>2, SubSeqProperties
<1> HIDE DEF t
<1>4. Len(t) = n /\ \A i \in 1..n : t[i] = s[i]
  BY <1>1, <1>3
<1>5. DOMAIN t = 1..n /\ \A y : y \in ToSet(t) <=> \E i \in 1..n : t[i] = y
  BY <1>3, <1>4, Members
<1>6. ToSet(t) \subseteq ToSet(s)
  BY <1>1, <1>2, <1>4, <1>5
<1>7. OnceExcept(s, T) => OnceExcept(t, T)
  BY <1>1, <1>2, <1>4, <1>5 DEF OnceExcept
<1> QED BY <1>3, <1>4, <1>6, <1>7 DEF t

LEMMA NoMembers == ASSUME NEW T PROVE ToSet(<<>>) = {} /\ OnceExcept(<<>>, T)
BY DEF ToSet, OnceExcept

-----------------------------------------------------------------------------
(* Emission and queue. *)

Once ==
    /\ Waiting \cap Announced \subseteq stalled
    /\ ToSet(wire) \cap ToSet(live) \subseteq stalled
    /\ OnceExcept(wire, stalled) /\ OnceExcept(live, stalled)

LEMMA Known ==
    ASSUME IInv
    PROVE  /\ TypeOK /\ Once
           /\ queue \in Seq(rows) /\ OnceExcept(queue, {}) /\ ToSet(queue) \subseteq rows
           /\ wire \in Seq(rows) /\ ToSet(wire) \subseteq rows
           /\ live \in Seq(shown) /\ ToSet(live) \subseteq shown /\ shown \subseteq rows
<1>1. TypeOK /\ Once
  BY DEF IInv, Once
<1>2. queue \in Seq(rows) /\ wire \in Seq(rows) /\ live \in Seq(shown) /\ shown \subseteq rows
  BY <1>1 DEF TypeOK
<1>3. ToSet(queue) \subseteq rows /\ ToSet(wire) \subseteq rows /\ ToSet(live) \subseteq shown
  BY <1>2, Members
<1>4. OnceExcept(queue, {})
  BY <1>1, OnceIsInjective DEF TypeOK
<1> QED BY <1>1, <1>2, <1>3, <1>4

LEMMA PullKeeps == ASSUME IInv, NEW p \in Pulls, Pull(p) PROVE IInv'
<1> USE DEF Pull, account, display
<1>1. rows \subseteq rows' /\ rows' \subseteq Draws
  BY DEF IInv, TypeOK, DrawsOf
<1>2. queue' \in Seq(rows') /\ wire' \in Seq(rows')
  BY <1>1, Known, SeqMonotonic
<1>3. emit' \cap ToSet(queue) = {} /\ orphans \cap emit' = {}
      /\ (active # None => active.draw \notin emit')
  BY Known DEF TypeOK
<1>4. TypeOK'
  BY <1>1, <1>2, <1>3, Known DEF TypeOK
<1>5. Once'
  <2>1. DrawsOf(p) \cap Announced = {}
    BY Known DEF Announced
  <2> QED BY <2>1, Known DEF Once, Waiting, Announced
<1> QED BY <1>4, <1>5 DEF IInv, Once

LEMMA EmitKeeps == ASSUME IInv, NEW d \in Draws, Emit(d) PROVE IInv'
<1> USE DEF Emit, account, display
<1>1. d \in rows /\ d \notin ToSet(queue)
  BY DEF IInv, TypeOK
<1>2. queue' \in Seq(rows) /\ ToSet(queue') = ToSet(queue) \cup {d} /\ OnceExcept(queue', {})
  BY <1>1, Known, AppendMembers
<1>3. IsInjective(queue')
  BY <1>2, OnceIsInjective
<1>4. TypeOK'
  BY <1>1, <1>2, <1>3 DEF IInv, TypeOK
<1>5. Once'
  BY <1>2, Known DEF Once, Waiting, Announced
<1> QED BY <1>4, <1>5 DEF IInv, Once

LEMMA EmitFailsKeeps == ASSUME IInv, NEW d \in Draws, EmitFails(d) PROVE IInv'
<1> USE DEF EmitFails, account, display
<1>1. TypeOK'
  BY DEF IInv, TypeOK
<1>2. Once'
  BY Known DEF Once, Waiting, Announced
<1> QED BY <1>1, <1>2 DEF IInv, Once

LEMMA TakeKeeps == IInv /\ Take => IInv'
<1> SUFFICES ASSUME IInv, Take PROVE IInv'
  OBVIOUS
<1> USE DEF Take, account, display
<1>1. /\ Head(queue) \in rows /\ queue' \in Seq(rows)
      /\ ToSet(queue) = {Head(queue)} \cup ToSet(queue')
      /\ OnceExcept(queue', {}) /\ Head(queue) \notin ToSet(queue')
  <2>1. queue \in Seq(rows) /\ queue # <<>> /\ OnceExcept(queue, {}) /\ queue' = Tail(queue)
    BY Known
  <2>2. /\ Head(queue) \in rows /\ Tail(queue) \in Seq(rows)
        /\ ToSet(queue) = {Head(queue)} \cup ToSet(Tail(queue))
        /\ \A T : OnceExcept(queue, T) => /\ OnceExcept(Tail(queue), T)
                                          /\ Head(queue) \in ToSet(Tail(queue)) => Head(queue) \in T
    <3> HIDE DEF Take
    <3> QED BY <2>1, TailMembers
  <2> QED BY <2>1, <2>2
<1>2. IsInjective(queue')
  BY <1>1, OnceIsInjective
<1>3. active' \in [draw : rows, published : BOOLEAN] /\ active'.draw = Head(queue) /\ ~active'.published
  BY <1>1
<1>4. TypeOK'
  BY <1>1, <1>2, <1>3 DEF IInv, TypeOK
<1>5. Once'
  BY <1>1, <1>3, Known DEF Once, Waiting, Announced
<1> QED BY <1>4, <1>5 DEF IInv, Once

LEMMA PublishKeeps == IInv /\ Publish => IInv'
<1> SUFFICES ASSUME IInv, Publish PROVE IInv'
  OBVIOUS
<1> USE DEF Publish, account, display
<1> DEFINE d == active.draw
<1>1. /\ active # None /\ active \in [draw : rows, published : BOOLEAN]
      /\ d \in rows /\ d \notin emit \cup ToSet(queue) \cup orphans /\ d \in Waiting
  BY DEF IInv, TypeOK, Waiting
<1>2. active' \in [draw : rows, published : BOOLEAN] /\ active'.draw = d /\ active'.published
  BY <1>1
<1>3. d \in Announced => d \in stalled
  BY <1>1, Known DEF Once
<1> HIDE DEF d
<1>4. CASE es = "open"
  <2>1. wire' = Append(wire, d) /\ missed' = missed
    BY <1>4 DEF d
  <2>2. /\ wire' \in Seq(rows) /\ ToSet(wire') = ToSet(wire) \cup {d}
        /\ OnceExcept(wire', stalled)
    BY <1>1, <1>3, <2>1, Known, AppendMembers DEF Once, Announced
  <2>3. TypeOK'
    BY <1>1, <1>2, <1>4, <2>1, <2>2 DEF IInv, TypeOK
  <2>4. Once'
    BY <1>1, <1>2, <1>3, <2>2, Known DEF Once, Waiting, Announced
  <2> QED BY <2>3, <2>4 DEF IInv, Once
<1>5. CASE es # "open"
  <2>1. wire' = wire /\ missed' = missed \cup {d}
    BY <1>5 DEF d
  <2>2. TypeOK'
    BY <1>1, <1>2, <2>1 DEF IInv, TypeOK
  <2>3. Once'
    BY <1>1, <1>2, <2>1, Known DEF Once, Waiting, Announced
  <2> QED BY <2>2, <2>3 DEF IInv, Once
<1> QED BY <1>4, <1>5

LEMMA CompleteKeeps == IInv /\ Complete => IInv'
<1> SUFFICES ASSUME IInv, Complete PROVE IInv'
  OBVIOUS
<1> USE DEF Complete, account, display
<1>1. TypeOK'
  BY DEF IInv, TypeOK
<1>2. Once'
  BY Known DEF Once, Waiting, Announced
<1> QED BY <1>1, <1>2 DEF IInv, Once

(* A draw that runs again is stalled: it may be announced twice. *)
LEMMA RecoverKeeps == ASSUME IInv, NEW d \in Draws, Recover(d) PROVE IInv'
<1> USE DEF Recover, account, display
<1>1. /\ d \in rows /\ d \notin emit \cup ToSet(queue)
      /\ active # None => active.draw # d
      /\ stalled' = stalled \cup {d}
  BY DEF IInv, TypeOK
<1>2. OnceExcept(wire, stalled') /\ OnceExcept(live, stalled')
  BY <1>1, Known DEF Once, OnceExcept
<1>3. CASE d \in stalled
  <2>1. TypeOK'
    BY <1>1, <1>3 DEF IInv, TypeOK
  <2>2. Once'
    BY <1>1, <1>2, <1>3, Known DEF Once, Waiting, Announced
  <2> QED BY <2>1, <2>2 DEF IInv, Once
<1>4. CASE d \notin stalled
  <2>1. queue' = <<d>> \o queue /\ missed' = missed
    BY <1>4
  <2>2. queue' \in Seq(rows) /\ ToSet(queue') = ToSet(queue) \cup {d} /\ OnceExcept(queue', {})
    BY <1>1, <2>1, Known, PrependMembers
  <2>3. IsInjective(queue')
    BY <2>2, OnceIsInjective
  <2>4. TypeOK'
    BY <1>1, <2>1, <2>2, <2>3 DEF IInv, TypeOK
  <2>5. Once'
    BY <1>1, <1>2, <2>2, Known DEF Once, Waiting, Announced
  <2> QED BY <2>4, <2>5 DEF IInv, Once
<1> QED BY <1>3, <1>4

-----------------------------------------------------------------------------
(* The stream and the world. *)

LEMMA DeliverKeeps == IInv /\ Deliver => IInv'
<1> SUFFICES ASSUME IInv, Deliver PROVE IInv'
  OBVIOUS
<1> USE DEF Deliver, account, jobs
<1> DEFINE d == Head(wire)
           all == <<d>> \o live
           n == IF Len(all) < MaxLive THEN Len(all) ELSE MaxLive
<1>1. /\ d \in rows /\ wire' \in Seq(rows) /\ ToSet(wire) = {d} \cup ToSet(wire')
      /\ OnceExcept(wire', stalled) /\ (d \in ToSet(wire') => d \in stalled)
  BY Known, TailMembers DEF Once
<1>2. live' = SubSeq(all, 1, n) /\ shown' = shown \cup {d}
  OBVIOUS
<1> HIDE DEF d
<1>3. live \in Seq(shown') /\ d \in shown'
  BY <1>2, Known, SeqMonotonic
<1>4. d \in ToSet(live) => d \in stalled
  BY <1>1, Known DEF Once
<1>5. all \in Seq(shown') /\ ToSet(all) = ToSet(live) \cup {d} /\ OnceExcept(all, stalled)
  BY <1>3, <1>4, Known, PrependMembers DEF Once
<1> HIDE DEF all
<1>6. n \in 0..Len(all) /\ n <= MaxLive
  BY <1>5, LenProperties, FeedAssumption
<1> HIDE DEF n
<1>7. /\ live' \in Seq(shown') /\ Len(live') <= MaxLive
      /\ ToSet(live') \subseteq ToSet(live) \cup {d} /\ OnceExcept(live', stalled)
  <2>1. /\ SubSeq(all, 1, n) \in Seq(shown') /\ Len(SubSeq(all, 1, n)) = n
        /\ ToSet(SubSeq(all, 1, n)) \subseteq ToSet(all)
        /\ OnceExcept(all, stalled) => OnceExcept(SubSeq(all, 1, n), stalled)
    BY <1>5, <1>6, PrefixMembers
  <2> HIDE DEF Deliver
  <2> QED BY <1>2, <1>5, <1>6, <2>1
<1>8. TypeOK'
  <2>1. es = "open"
    BY DEF IInv, TypeOK
  <2> QED BY <1>1, <1>2, <1>7, <2>1 DEF IInv, TypeOK
<1>9. Once'
  BY <1>1, <1>7, Known DEF Once, Waiting, Announced
<1> QED BY <1>8, <1>9 DEF IInv, Once

LEMMA StreamKeeps ==
    ASSUME IInv, Admit \/ Refuse \/ RequestFails \/ Subscribe \/ Reconnect \/ Expire \/ SetAdmin \/ UNCHANGED vars
    PROVE  IInv'
<1>1. /\ UNCHANGED <<rows, jobs, wire, display, missed, crashes, breaks>>
      /\ es' \in {"connecting", "admitted", "open", "waiting", "closed", "failed"} /\ (es = "open" => es' = "open")
      /\ valid' \in BOOLEAN /\ admin' \in BOOLEAN
  BY DEF Admit, Refuse, RequestFails, Subscribe, Reconnect, Expire, SetAdmin, vars, account, IInv, TypeOK
<1>2. TypeOK'
  BY <1>1 DEF IInv, TypeOK, jobs, display
<1>3. Once'
  BY <1>1, Known DEF Once, Waiting, Announced, jobs, display
<1> QED BY <1>2, <1>3 DEF IInv, Once

LEMMA BreakKeeps == IInv /\ Break => IInv'
<1> SUFFICES ASSUME IInv, Break PROVE IInv'
  OBVIOUS
<1> USE DEF Break, Disconnect, Connected, account, jobs, display
<1>1. wire' = <<>> /\ wire' \in Seq(rows) /\ ToSet(wire') = {} /\ OnceExcept(wire', stalled)
  BY NoMembers, EmptySeq
<1>2. breaks' \in 0..MaxBreaks /\ missed' \subseteq rows
  BY Known, FeedAssumption DEF TypeOK
<1>3. TypeOK'
  BY <1>1, <1>2 DEF IInv, TypeOK
<1>4. Once'
  BY <1>1, Known DEF Once, Waiting, Announced
<1> QED BY <1>3, <1>4 DEF IInv, Once

LEMMA CrashKeeps == IInv /\ Crash => IInv'
<1> SUFFICES ASSUME IInv, Crash PROVE IInv'
  OBVIOUS
<1> USE DEF Crash, Disconnect, Connected, account, display
<1>1. wire' = <<>> /\ wire' \in Seq(rows) /\ ToSet(wire') = {} /\ OnceExcept(wire', stalled)
  BY NoMembers, EmptySeq
<1>2. crashes' \in 0..MaxCrashes /\ missed' \subseteq rows /\ emit' = {} /\ active' = None
  BY Known, FeedAssumption DEF TypeOK
<1>3. orphans' \subseteq rows /\ orphans' \cap ToSet(queue) = {}
  BY DEF IInv, TypeOK
<1>4. TypeOK'
  BY <1>1, <1>2, <1>3 DEF IInv, TypeOK
<1>5. Once'
  BY <1>1, <1>2, Known DEF Once, Waiting, Announced
<1> QED BY <1>4, <1>5 DEF IInv, Once

-----------------------------------------------------------------------------
(* The invariant, and what follows from it. *)

LEMMA InitIInv == Init => IInv
<1> SUFFICES ASSUME Init PROVE IInv
  OBVIOUS
<1> USE DEF Init
<1>1. /\ queue \in Seq(rows) /\ wire \in Seq(rows) /\ live \in Seq(shown)
      /\ ToSet(queue) = {} /\ ToSet(wire) = {} /\ ToSet(live) = {}
      /\ OnceExcept(queue, {}) /\ OnceExcept(wire, stalled) /\ OnceExcept(live, stalled)
  BY NoMembers, EmptySeq
<1>2. IsInjective(queue)
  BY <1>1, OnceIsInjective
<1>3. Len(live) <= MaxLive
  BY EmptySeq, FeedAssumption
<1>4. TypeOK
  BY <1>1, <1>2, <1>3, FeedAssumption DEF TypeOK
<1> QED BY <1>1, <1>4 DEF IInv, Waiting, Announced

LEMMA NextIInv == IInv /\ [Next]_vars => IInv'
<1> SUFFICES ASSUME IInv, [Next]_vars PROVE IInv'
  OBVIOUS
<1>1. ASSUME NEW p \in Pulls, Pull(p) PROVE IInv'
  BY <1>1, PullKeeps
<1>2. ASSUME NEW d \in Draws, Emit(d) \/ EmitFails(d) \/ Recover(d) PROVE IInv'
  BY <1>2, EmitKeeps, EmitFailsKeeps, RecoverKeeps
<1>3. CASE Worker
  BY <1>3, TakeKeeps, PublishKeeps, CompleteKeeps DEF Worker
<1>4. CASE Deliver \/ Break \/ Crash
  BY <1>4, DeliverKeeps, BreakKeeps, CrashKeeps
<1>5. CASE Admit \/ Refuse \/ RequestFails \/ Subscribe \/ Reconnect \/ Expire \/ SetAdmin \/ UNCHANGED vars
  BY <1>5, StreamKeeps
<1> QED BY <1>1, <1>2, <1>3, <1>4, <1>5 DEF Next

(* The invariant of the queue, its worker, the stream and the list together. *)
THEOREM FeedInvariant == Spec => []IInv
BY InitIInv, NextIInv, PTL DEF Spec

(* Queue, stream and list keep their types; a job is in one place at a time. *)
THEOREM FeedTypeCorrect == Spec => []TypeOK
<1>1. IInv => TypeOK
  BY DEF IInv
<1> QED BY <1>1, FeedInvariant, PTL

(* Reconnections repeat nothing: only a job that ran again is listed twice. *)
THEOREM NothingRepeated == Spec => []RepeatedOnlyIfStalled
<1>1. IInv => RepeatedOnlyIfStalled
  BY DEF IInv, OnceExcept, RepeatedOnlyIfStalled
<1> QED BY <1>1, FeedInvariant, PTL
-----------------------------------------------------------------------------
(* The safety half of PullsReachFeed: a draw of the history that is neither
   displayed nor given up is still somewhere from where it can be. *)
Carried == rows \subseteq Waiting \cup orphans \cup ToSet(wire) \cup shown \cup missed

(* From the emission to the worker. *)
LEMMA QueueCarries ==
    ASSUME IInv, Carried,
           \/ \E p \in Pulls : Pull(p)
           \/ \E d \in Draws : Emit(d) \/ EmitFails(d) \/ Recover(d)
    PROVE  Carried'
<1> USE DEF account, display
<1>1. ASSUME NEW p \in Pulls, Pull(p) PROVE Carried'
  BY <1>1 DEF Pull, Carried, Waiting
<1>2. ASSUME NEW d \in Draws, Emit(d) PROVE Carried'
  <2>1. ToSet(queue') = ToSet(queue) \cup {d}
    BY <1>2, Known, AppendMembers DEF Emit, TypeOK
  <2> QED BY <1>2, <2>1 DEF Emit, Carried, Waiting
<1>3. ASSUME NEW d \in Draws, EmitFails(d) PROVE Carried'
  BY <1>3 DEF EmitFails, Carried, Waiting
<1>4. ASSUME NEW d \in Draws, Recover(d) PROVE Carried'
  <2>1. d \in rows
    BY <1>4 DEF Recover, IInv, TypeOK
  <2>2. ToSet(<<d>> \o queue) = ToSet(queue) \cup {d}
    BY <2>1, Known, PrependMembers
  <2>3. CASE d \in stalled
    BY <1>4, <2>3 DEF Recover, Carried, Waiting
  <2>4. CASE d \notin stalled
    <3>1. ToSet(queue') = ToSet(queue) \cup {d} /\ missed' = missed
      BY <1>4, <2>2, <2>4 DEF Recover
    <3> QED BY <1>4, <3>1 DEF Recover, Carried, Waiting
  <2> QED BY <2>3, <2>4
<1> QED BY <1>1, <1>2, <1>3, <1>4

LEMMA WorkerCarries == ASSUME IInv, Carried, Worker PROVE Carried'
<1> USE DEF account, display
<1>1. CASE Take
  <2>1. ToSet(queue) = {Head(queue)} \cup ToSet(queue')
    BY <1>1, Known, TailMembers DEF Take
  <2>2. active' # None /\ active'.draw = Head(queue) /\ ~active'.published
    <3>1. active' = [draw |-> Head(queue), published |-> FALSE] /\ Head(queue) \in Draws
      BY <1>1, Known, TailMembers DEF Take, TypeOK
    <3>2. active' \in [draw : Draws, published : BOOLEAN]
      BY <3>1
    <3>3. active'.draw = Head(queue) /\ active'.published = FALSE
      BY <3>1
    <3> QED BY <3>2, <3>3, FeedAssumption
  <2> QED BY <1>1, <2>1, <2>2 DEF Take, Carried, Waiting
<1>2. CASE Publish
  <2>1. active.draw \in rows
    BY <1>2 DEF Publish, IInv, TypeOK
  <2>2. /\ active.draw \in ToSet(wire') \cup missed'
        /\ ToSet(wire) \subseteq ToSet(wire') /\ missed \subseteq missed'
    <3>1. ToSet(Append(wire, active.draw)) = ToSet(wire) \cup {active.draw}
      <4>1. wire \in Seq(rows)
        BY Known
      <4>2. \A x \in rows : ToSet(Append(wire, x)) = ToSet(wire) \cup {x}
        BY <4>1, AppendMembers
      <4> QED BY <2>1, <4>2
    <3>2. CASE es = "open"
      <4>1. wire' = Append(wire, active.draw) /\ missed' = missed
        BY <1>2, <3>2 DEF Publish
      <4> QED BY <3>1, <4>1
    <3>3. CASE es # "open"
      <4>1. wire' = wire /\ missed' = missed \cup {active.draw}
        BY <1>2, <3>3 DEF Publish
      <4> QED BY <4>1
    <3> QED BY <3>2, <3>3
  <2> QED BY <1>2, <2>2 DEF Publish, Carried, Waiting
<1>3. CASE Complete
  BY <1>3 DEF Complete, Carried, Waiting
<1> QED BY <1>1, <1>2, <1>3 DEF Worker

(* The stream: what is lost with a connection is counted as missed. *)
LEMMA StreamCarries ==
    ASSUME IInv, Carried,
           \/ Deliver \/ Break \/ Crash
           \/ Admit \/ Refuse \/ RequestFails \/ Subscribe \/ Reconnect \/ Expire \/ SetAdmin \/ UNCHANGED vars
    PROVE  Carried'
<1> USE DEF account, display, jobs
<1>1. CASE Deliver
  <2>1. ToSet(wire) = {Head(wire)} \cup ToSet(wire')
    BY <1>1, Known, TailMembers DEF Deliver
  <2> QED BY <1>1, <2>1 DEF Deliver, Carried, Waiting
<1>2. CASE Break
  BY <1>2 DEF Break, Carried, Waiting
<1>3. CASE Crash
  <2>1. active # None => active.draw \in orphans'
    BY <1>3 DEF Crash
  <2> QED BY <1>3, <2>1 DEF Crash, Carried, Waiting
<1>4. CASE Admit \/ Refuse \/ RequestFails \/ Subscribe \/ Reconnect \/ Expire \/ SetAdmin \/ UNCHANGED vars
  BY <1>4 DEF Admit, Refuse, RequestFails, Subscribe, Reconnect, Expire, SetAdmin, vars, Carried, Waiting
<1> QED BY <1>1, <1>2, <1>3, <1>4

(* No draw vanishes between the history and the list: through crashes, stalled
   jobs and lost connections each is waiting in the process or the queue, with
   a dead worker, on the connection, displayed, or was announced to nobody. *)
THEOREM NoDrawVanishes == Spec => []Carried
<1>1. Init => Carried
  BY DEF Init, Carried
<1>2. IInv /\ Carried /\ [Next]_vars => Carried'
  BY QueueCarries, WorkerCarries, StreamCarries DEF Next
<1> QED BY <1>1, <1>2, FeedInvariant, PTL DEF Spec
=============================================================================
