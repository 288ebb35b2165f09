------------------------- MODULE UsersConsoleProofs -------------------------
(***************************************************************************)
(* Proofs about UsersConsole, for any accounts, searches, page size and    *)
(* number of handlers and requests.  Three arguments share the invariant:  *)
(* a handler that changes more than coins was agreed to; a row differs     *)
(* from the server's only by a change whose answer is on its way; and the  *)
(* list is the beginning of the search's accounts, or a request under way  *)
(* makes it that, or it is known to be behind.                             *)
(***************************************************************************)
EXTENDS UsersConsole, FiniteSetTheorems, SequenceTheorems, TLAPS

Answers == [items : Seq(Rows), next : Users \cup {None}]
Loads == [after : Users \cup {None}, replace : BOOLEAN, search : Searches,
          got : Answers \cup {None}, fresh : BOOLEAN]
Busy(h) == handler[h].kind # "idle"
Done(h) == Busy(h) /\ handler[h].step = "served"
DoneOn(h, u) == Done(h) /\ handler[h].user = u
In(rows, u) == \E i \in DOMAIN rows : rows[i].id = u

(* What is kept of accounts, pages and handlers beside their types. *)
Kept ==
    /\ IsInjective(db) /\ ToSet(db) \subseteq known
    /\ loads \in Seq(Loads) /\ confirming \in Handlers \cup {None}
    /\ \A i \in DOMAIN loads : loads[i].replace <=> loads[i].after = None
    /\ \A i, j \in DOMAIN loads : loads[i].fresh /\ loads[j].fresh => i = j

(* Nothing is displayed, on its way or changed that was not an account. *)
KnownRows(rows) == \A i \in DOMAIN rows : rows[i].id \in known
KnownRequest(l) ==
    /\ l.after \in known \cup {None}
    /\ l.got # None => KnownRows(l.got.items) /\ l.got.next \in known \cup {None}
KnownPage ==
    /\ KnownRows(users) /\ cursor \in known \cup {None}
    /\ \A i \in DOMAIN loads : KnownRequest(loads[i])
KnownTask(t) == t.kind # "idle" => t.user \in IF t.kind = "create" THEN {None} ELSE known
KnownTasks == \A h \in Handlers : KnownTask(handler[h])
Known == KnownPage /\ KnownTasks

(* What is not about coins waits for its confirmation. *)
NeedsConsent(t) == t.kind = "delete" \/ (t.kind = "update" /\ t.field # "coins")
Consented(t) == NeedsConsent(t) => t.step = "ask" \/ t.agreed
Agreement == \A h \in Handlers : Consented(handler[h])

Gone == \A h \in Handlers : Done(h) /\ handler[h].kind = "delete" => handler[h].user \notin ToSet(db)

(* The rows of an account whose changes have not overlapped: the server's, up
   to the one change whose answer is on its way. *)
RowRight(u, data) ==
    /\ (\A h \in Handlers : ~DoneOn(h, u)) => u \in ToSet(db) /\ data = row[u]
    /\ \A h \in Handlers : DoneOn(h, u) /\ handler[h].kind = "update" =>
           u \in ToSet(db) /\ [data EXCEPT ![handler[h].field] = handler[h].to] = row[u]
PageRight(u, l) ==
    l.got # None => \A i \in DOMAIN l.got.items :
        l.got.items[i].id = u => u \in ToSet(db) /\ l.got.items[i].data = row[u]
Settled(u) ==
    /\ \A g, h \in Handlers : DoneOn(g, u) /\ DoneOn(h, u) => g = h
    /\ \A h \in Handlers : DoneOn(h, u) /\ handler[h].kind = "update" => row[u][handler[h].field] = handler[h].to
    /\ \A i \in DOMAIN users : users[i].id = u => RowRight(u, users[i].data)
    /\ \A i \in DOMAIN loads : PageRight(u, loads[i])
RowsInv == \A u \in Users \ raced : Settled(u)

(* The rows are the first of the accounts ids that a search finds, as far as
   the account the next page begins after. *)
Before(ids, v, w) == \E p, q \in DOMAIN ids : p < q /\ ids[p] = v /\ ids[q] = w
Found(ids, of) == ToSet(ids) \cap of
Begins(rows, next, ids, of) ==
    /\ \A i \in DOMAIN rows : rows[i].id \in ToSet(ids) => rows[i].id \in of
    /\ \A i, j \in DOMAIN rows :
           i < j /\ {rows[i].id, rows[j].id} \subseteq ToSet(ids) => Before(ids, rows[i].id, rows[j].id)
    /\ \A v \in Found(ids, of), i \in DOMAIN rows : Before(ids, v, rows[i].id) => In(rows, v)
    /\ next = None => \A v \in Found(ids, of) : In(rows, v)
    /\ next \in ToSet(ids) =>
           next \in of /\ \A v \in Found(ids, of) : In(rows, v) <=> v = next \/ Before(ids, v, next)

(* Unless a search has still to be sent or an account made to be answered, the
   newest request makes the list whole, or continues the whole list, or the
   list is known to be behind or about to be. *)
Halfway == \E h \in Handlers : Done(h) /\ handler[h].kind = "create"
Replaces(l) == l.fresh /\ l.replace /\ l.search = search => l.got = None \/ Begins(l.got.items, l.got.next, db, search)
Continues(l) ==
    l.fresh => IF l.got = None THEN l.after = cursor ELSE Begins(users \o l.got.items, l.got.next, db, search)
ToBeReplaced == \E i \in DOMAIN loads : ~loads[i].fresh \/ loads[i].replace \/ loads[i].search # search
Whole == Begins(users, cursor, db, search) /\ \A i \in DOMAIN loads : Continues(loads[i])
ListTold == (\A i \in DOMAIN loads : Replaces(loads[i])) /\ (behind \/ ToBeReplaced \/ Whole)
Told == ~timer /\ ~Halfway => ListTold

IInv == TypeOK /\ Kept /\ Known /\ Agreement /\ Gone /\ RowsInv /\ Told

-----------------------------------------------------------------------------
(* Sequences. *)

(* f lists the positions in P, in their order. *)
Enumerates(f, n, P) ==
    /\ f \in [1..n -> P]
    /\ \A k, l \in 1..n : k < l => f[k] < f[l]
    /\ \A p \in P : \E k \in 1..n : f[k] = p

(* The positions in a set have the ranks 1, 2, ... up to their number. *)
LEMMA Ranks ==
    ASSUME NEW n \in Nat, NEW at \in SUBSET (1..n), NEW rank,
           rank = [i \in at |-> Cardinality({j \in at : j <= i})]
    PROVE  /\ Cardinality(at) \in Nat
           /\ \A k \in 1..Cardinality(at) : \E i \in at : rank[i] = k
           /\ \A i \in at : rank[i] \in 1..Cardinality(at)
           /\ \A i, j \in at : i < j => rank[i] < rank[j]
<1> DEFINE upto(i) == {j \in at : j <= i}
<1>1. IsFiniteSet(at) /\ Cardinality(at) \in Nat
  <2>1. IsFiniteSet(1..n)
    BY FS_Interval
  <2>2. IsFiniteSet(at)
    BY <2>1, FS_Subset
  <2> QED BY <2>2, FS_CardinalityType
<1>2. ASSUME NEW i \in at
      PROVE  IsFiniteSet(upto(i)) /\ Cardinality(upto(i)) \in 1..Cardinality(at)
  <2>1. upto(i) \in SUBSET at
    OBVIOUS
  <2>2. IsFiniteSet(upto(i)) /\ Cardinality(upto(i)) <= Cardinality(at) /\ Cardinality(upto(i)) \in Nat
    BY <1>1, <2>1, FS_Subset, FS_CardinalityType
  <2>3. {i} \in SUBSET upto(i)
    OBVIOUS
  <2>4. Cardinality({i}) = 1 /\ Cardinality({i}) <= Cardinality(upto(i))
    BY <2>2, <2>3, FS_Subset, FS_Singleton
  <2> HIDE DEF upto
  <2> QED BY <1>1, <2>2, <2>4
<1>3. ASSUME NEW i \in at, NEW j \in at, i < j
      PROVE  Cardinality(upto(i)) < Cardinality(upto(j))
  <2>1. upto(i) \in SUBSET upto(j) /\ j \in upto(j) /\ j \notin upto(i)
    <3>1. i \in Nat /\ j \in Nat /\ \A k \in at : k \in Nat
      OBVIOUS
    <3>2. \A k \in at : k <= i => k <= j
      BY <1>3, <3>1
    <3>3. j <= j /\ ~(j <= i)
      BY <1>3, <3>1
    <3> QED BY <3>2, <3>3
  <2> HIDE DEF upto
  <2>2. Cardinality(upto(i)) <= Cardinality(upto(j)) /\ Cardinality(upto(i)) # Cardinality(upto(j))
    BY <1>2, <2>1, FS_Subset
  <2> QED BY <1>2, <2>2
<1>4. \A i \in at : rank[i] = Cardinality(upto(i))
  OBVIOUS
<1> HIDE DEF upto
<1>5. \A i \in at : rank[i] \in 1..Cardinality(at)
  BY <1>2, <1>4
<1>6. \A i, j \in at : i < j => rank[i] < rank[j]
  BY <1>3, <1>4
<1>7. rank \in Injection(at, 1..Cardinality(at))
  <2>1. rank \in [at -> 1..Cardinality(at)]
    BY <1>5
  <2>2. ASSUME NEW i \in at, NEW j \in at, rank[i] = rank[j] PROVE i = j
    BY <1>1, <1>5, <1>6, <2>2
  <2> QED BY <2>1, <2>2 DEF Injection, IsInjective
<1>8. rank \in Surjection(at, 1..Cardinality(at))
  <2>1. IsFiniteSet(1..Cardinality(at)) /\ Cardinality(1..Cardinality(at)) = Cardinality(at)
    BY <1>1, FS_Interval
  <2> QED BY <1>7, <2>1, FS_Injection
<1> QED BY <1>1, <1>5, <1>6, <1>8 DEF Surjection

(* Select keeps the elements that are in the set, in their order: f says where
   they were. *)
SelectedBy(f, seq, S) ==
    /\ Enumerates(f, Len(Select(seq, S)), {i \in DOMAIN seq : seq[i] \in S})
    /\ \A k \in 1..Len(Select(seq, S)) : Select(seq, S)[k] = seq[f[k]]

LEMMA Selected ==
    ASSUME NEW X, NEW seq \in Seq(X), NEW S
    PROVE  Select(seq, S) \in Seq(X \cap S) /\ \E f : SelectedBy(f, seq, S)
<1> DEFINE at == {i \in DOMAIN seq : seq[i] \in S}
           n == Cardinality(at)
           rank == [i \in at |-> Cardinality({j \in at : j <= i})]
           f == [k \in 1..n |-> CHOOSE i \in at : rank[i] = k]
<1>1. Len(seq) \in Nat /\ DOMAIN seq = 1..Len(seq) /\ \A i \in 1..Len(seq) : seq[i] \in X
  BY LenProperties, ElementOfSeq
<1>2. at \in SUBSET (1..Len(seq)) /\ \A i \in at : seq[i] \in X \cap S
  BY <1>1
<1>3. /\ n \in Nat
      /\ \A k \in 1..n : \E i \in at : rank[i] = k
      /\ \A i \in at : rank[i] \in 1..n
      /\ \A i, j \in at : i < j => rank[i] < rank[j]
  <2> HIDE DEF at
  <2> QED BY <1>1, <1>2, Ranks
<1>4. Select(seq, S) = [k \in 1..n |-> seq[f[k]]]
  <2>1. Select(seq, S) = [k \in 1..n |-> seq[CHOOSE i \in at : Cardinality({j \in at : j <= i}) = k]]
    BY DEF Select
  <2>2. ASSUME NEW k \in 1..n
        PROVE  f[k] = CHOOSE i \in at : Cardinality({j \in at : j <= i}) = k
    <3>1. \A i \in at : rank[i] = Cardinality({j \in at : j <= i})
      OBVIOUS
    <3> HIDE DEF at, rank
    <3>2. (CHOOSE i \in at : rank[i] = k) = CHOOSE i \in at : Cardinality({j \in at : j <= i}) = k
      BY <3>1
    <3> QED BY <3>2
  <2> HIDE DEF at, n, f
  <2> QED BY <2>1, <2>2
<1> HIDE DEF rank, n
<1>5. \A k \in 1..n : f[k] \in at /\ rank[f[k]] = k
  <2> HIDE DEF at
  <2> QED BY <1>3
<1>6. Enumerates(f, n, at)
  <2>1. f \in [1..n -> at]
    BY <1>5
  <2>2. ASSUME NEW k \in 1..n, NEW l \in 1..n, k < l PROVE f[k] < f[l]
    <3>1. f[k] \in at /\ f[l] \in at /\ rank[f[k]] = k /\ rank[f[l]] = l /\ f[k] \in Nat /\ f[l] \in Nat
      BY <1>1, <1>2, <1>5
    <3> HIDE DEF f, at
    <3>2. ~(f[l] < f[k]) /\ f[l] # f[k]
      BY <1>3, <2>2, <3>1
    <3> QED BY <3>1, <3>2
  <2>3. ASSUME NEW i \in at PROVE \E k \in 1..n : f[k] = i
    <3>1. rank[i] \in 1..n
      BY <1>3
    <3> DEFINE k == rank[i]
    <3>2. f[k] \in at /\ rank[f[k]] = rank[i] /\ f[k] \in Nat /\ i \in Nat
      BY <1>1, <1>2, <1>5, <3>1
    <3> HIDE DEF f, at
    <3>3. ~(f[k] < i) /\ ~(i < f[k])
      BY <1>3, <3>1, <3>2
    <3>4. f[k] = i
      BY <3>2, <3>3
    <3> QED BY <3>1, <3>4
  <2> HIDE DEF f, at
  <2> QED BY <2>1, <2>2, <2>3 DEF Enumerates
<1>7. Select(seq, S) \in Seq(X \cap S) /\ Len(Select(seq, S)) = n
  <2>1. Select(seq, S) \in [1..n -> X \cap S]
    BY <1>2, <1>4, <1>5
  <2>2. Select(seq, S) \in Seq(X \cap S)
    BY <1>3, <2>1, SeqDef
  <2>3. DOMAIN Select(seq, S) = 1..n /\ DOMAIN Select(seq, S) = 1..Len(Select(seq, S)) /\ Len(Select(seq, S)) \in Nat
    BY <2>1, <2>2, LenProperties
  <2> QED BY <1>3, <2>2, <2>3
<1>8. \A k \in 1..n : Select(seq, S)[k] = seq[f[k]]
  <2> HIDE DEF f, at
  <2> QED BY <1>4
<1>9. SelectedBy(f, seq, S)
  <2> HIDE DEF f
  <2> QED BY <1>6, <1>7, <1>8 DEF SelectedBy
<1> HIDE DEF f
<1> QED BY <1>7, <1>9

(* What RemoveAt leaves: the elements after the one removed move up. *)
LEMMA Removal ==
    ASSUME NEW S, NEW s \in Seq(S), NEW i \in 1..Len(s)
    PROVE  /\ RemoveAt(s, i) \in Seq(S) /\ Len(RemoveAt(s, i)) = Len(s) - 1
           /\ \A j \in 1..Len(s) - 1 : RemoveAt(s, i)[j] = IF j < i THEN s[j] ELSE s[j + 1]
<1> DEFINE front == SubSeq(s, 1, i - 1)
           back == SubSeq(s, i + 1, Len(s))
<1>1. Len(s) \in Nat /\ \A j \in 1..Len(s) : s[j] \in S
  BY LenProperties, ElementOfSeq
<1>2. front \in Seq(S) /\ Len(front) = i - 1 /\ \A j \in 1..i - 1 : front[j] = s[j]
  <2>1. \A j \in 1..i - 1 : s[j] \in S
    BY <1>1
  <2>2. /\ front \in Seq(S) /\ Len(front) = IF 1 <= i - 1 THEN i - 1 - 1 + 1 ELSE 0
        /\ \A j \in 1..i - 1 - 1 + 1 : front[j] = s[1 + j - 1]
    BY <1>1, <2>1, SubSeqProperties
  <2> QED BY <2>2, <1>1
<1>3. /\ back \in Seq(S) /\ Len(back) = Len(s) - i
      /\ \A j \in 1..Len(s) - i : back[j] = s[i + j]
  <2>1. \A j \in i + 1..Len(s) : s[j] \in S
    BY <1>1
  <2>2. /\ back \in Seq(S) /\ Len(back) = IF i + 1 <= Len(s) THEN Len(s) - (i + 1) + 1 ELSE 0
        /\ \A j \in 1..Len(s) - (i + 1) + 1 : back[j] = s[i + 1 + j - 1]
    BY <1>1, <2>1, SubSeqProperties
  <2> QED BY <2>2, <1>1
<1> HIDE DEF front, back
<1>4. /\ front \o back \in Seq(S) /\ Len(front \o back) = Len(s) - 1
      /\ \A j \in 1..Len(s) - 1 : (front \o back)[j] =
             IF j <= i - 1 THEN front[j] ELSE back[j - (i - 1)]
  <2>1. /\ front \o back \in Seq(S) /\ Len(front \o back) = Len(front) + Len(back)
        /\ \A j \in 1..Len(front) + Len(back) : (front \o back)[j] =
               IF j <= Len(front) THEN front[j] ELSE back[j - Len(front)]
    BY <1>2, <1>3, ConcatProperties
  <2>2. Len(front) + Len(back) = Len(s) - 1
    BY <1>1, <1>2, <1>3
  <2> QED BY <1>2, <2>1, <2>2
<1>5. \A j \in 1..Len(s) - 1 : (front \o back)[j] = IF j < i THEN s[j] ELSE s[j + 1]
  <2> TAKE j \in 1..Len(s) - 1
  <2>1. CASE j < i
    <3>1. j \in 1..i - 1
      BY <1>1, <2>1
    <3> QED BY <1>1, <1>2, <1>4, <2>1, <3>1
  <2>2. CASE ~(j < i)
    <3>1. j - (i - 1) \in 1..Len(s) - i /\ i + (j - (i - 1)) = j + 1 /\ ~(j <= i - 1)
      BY <1>1, <2>2
    <3> QED BY <1>3, <1>4, <2>2, <3>1
  <2> QED BY <2>1, <2>2
<1>6. RemoveAt(s, i) = front \o back
  BY DEF RemoveAt, front, back
<1> QED BY <1>4, <1>5, <1>6

-----------------------------------------------------------------------------
(* Pages. *)

Tables == db \in Seq(Users) /\ row \in [Users -> [Fields -> BOOLEAN]] /\ IsInjective(db)

LEMMA DbFacts ==
    ASSUME Tables
    PROVE  /\ Len(db) \in Nat /\ DOMAIN db = 1..Len(db)
           /\ \A p \in 1..Len(db) : db[p] \in Users /\ db[p] \in ToSet(db)
           /\ \A v \in ToSet(db) : v \in Users /\ \E p \in 1..Len(db) : v = db[p]
           /\ \A p, q \in 1..Len(db) : db[p] = db[q] => p = q
           /\ \A p, q \in 1..Len(db) : Before(db, db[p], db[q]) <=> p < q
<1>1. Len(db) \in Nat /\ DOMAIN db = 1..Len(db) /\ \A p \in 1..Len(db) : db[p] \in Users
  BY LenProperties, ElementOfSeq DEF Tables
<1>2. \A p, q \in 1..Len(db) : db[p] = db[q] => p = q
  BY <1>1 DEF Tables, IsInjective
<1>3. \A p, q \in 1..Len(db) : Before(db, db[p], db[q]) <=> p < q
  BY <1>1, <1>2 DEF Before
<1>4. \A p \in 1..Len(db) : db[p] \in ToSet(db)
  BY <1>1 DEF ToSet
<1>5. \A v \in ToSet(db) : v \in Users /\ \E p \in 1..Len(db) : v = db[p]
  BY <1>1 DEF ToSet
<1> QED BY <1>1, <1>2, <1>3, <1>4, <1>5

LEMMA MatchingRows ==
    ASSUME Tables, NEW after \in Users \cup {None}, NEW of
    PROVE  Matching(after, of) \in Seq(ToSet(db))
<1> DEFINE at == CHOOSE i \in DOMAIN db : db[i] = after
           from == SubSeq(db, at, Len(db))
           found == Select(from, of)
<1>1. Len(db) \in Nat /\ DOMAIN db = 1..Len(db) /\ \A p \in 1..Len(db) : db[p] \in ToSet(db)
  BY DbFacts
<1>2. db \in Seq(ToSet(db))
  <2>1. db \in [1..Len(db) -> ToSet(db)]
    BY <1>1, LenProperties DEF Tables
  <2> QED BY <1>1, <2>1, SeqDef
<1>3. ASSUME NEW s \in Seq(ToSet(db)), NEW S PROVE Select(s, S) \in Seq(ToSet(db))
  <2>1. Select(s, S) \in Seq(ToSet(db) \cap S)
    BY Selected
  <2>2. Len(Select(s, S)) \in Nat /\ Select(s, S) \in [1..Len(Select(s, S)) -> ToSet(db)]
    BY <2>1, LenProperties
  <2> QED BY <2>2, SeqDef
<1>4. CASE after = None
  BY <1>2, <1>3, <1>4 DEF Matching
<1>5. CASE after # None /\ after \notin ToSet(db)
  BY <1>5, EmptySeq DEF Matching
<1>6. CASE after # None /\ after \in ToSet(db)
  <2>1. at \in 1..Len(db)
    BY <1>1, <1>6 DEF ToSet
  <2> HIDE DEF at
  <2>2. from \in Seq(ToSet(db))
    <3>1. \A i \in at..Len(db) : db[i] \in ToSet(db)
      BY <1>1, <2>1
    <3> QED BY <1>1, <2>1, <3>1, SubSeqProperties
  <2>3. found \in Seq(ToSet(db))
    BY <1>3, <2>2
  <2>4. (IF found = <<>> THEN <<>> ELSE Tail(found)) \in Seq(ToSet(db))
    <3> HIDE DEF found
    <3> QED BY <2>3, EmptySeq, HeadTailProperties
  <2>5. Matching(after, of) = IF found = <<>> THEN <<>> ELSE Tail(found)
    BY <1>6 DEF Matching, at
  <2> QED BY <2>4, <2>5
<1> QED BY <1>4, <1>5, <1>6

(* A page is of accounts the server has, with their fields, and the next one
   begins after one of them. *)
LEMMA PageRows ==
    ASSUME Tables, NEW after \in Users \cup {None}, NEW of
    PROVE  /\ Page(after, of) \in Answers /\ Len(Page(after, of).items) <= PageSize
           /\ Page(after, of).next \in ToSet(db) \cup {None}
           /\ \A i \in DOMAIN Page(after, of).items :
                  /\ Page(after, of).items[i].id \in ToSet(db)
                  /\ Page(after, of).items[i].data = row[Page(after, of).items[i].id]
<1> DEFINE ids == Matching(after, of)
           shown == IF Len(ids) > PageSize THEN PageSize ELSE Len(ids)
           next == IF Len(ids) > PageSize THEN ids[PageSize] ELSE None
<1>1. PageSize \in Nat \ {0}
  BY UsersAssumption
<1>2. Len(ids) \in Nat /\ \A i \in 1..Len(ids) : ids[i] \in ToSet(db)
  BY MatchingRows, LenProperties, ElementOfSeq
<1>3. \A v \in ToSet(db) : v \in Users /\ row[v] \in [Fields -> BOOLEAN]
  BY DbFacts DEF Tables
<1>4. Page(after, of) = PageOf(ids, shown, next)
  BY DEF Page
<1> HIDE DEF ids
<1>5. /\ shown \in Nat /\ shown <= PageSize /\ next \in ToSet(db) \cup {None}
      /\ \A i \in 1..shown : ids[i] \in ToSet(db)
  BY <1>1, <1>2
<1> HIDE DEF shown, next
<1> DEFINE items == [i \in 1..shown |-> [id |-> ids[i], data |-> row[ids[i]]]]
<1>6. /\ Page(after, of).items = items /\ Page(after, of).next = next
      /\ Page(after, of) = [items |-> items, next |-> next]
  BY <1>4 DEF PageOf
<1>7. items \in [1..shown -> Rows]
  BY <1>3, <1>5 DEF Rows
<1>8. items \in Seq(Rows) /\ DOMAIN items = 1..shown
  BY <1>5, <1>7, SeqDef
<1>9. Len(items) = shown
  <2> HIDE DEF items
  <2> QED BY <1>5, <1>8, LenProperties
<1>10. \A i \in 1..shown : items[i].id \in ToSet(db) /\ items[i].data = row[items[i].id]
  BY <1>5
<1> HIDE DEF items
<1>11. next \in Users \cup {None}
  BY <1>3, <1>5
<1> QED BY <1>5, <1>6, <1>8, <1>9, <1>10, <1>11 DEF Answers

(* What follows an account of the search: the search's accounts after its
   position c, or all of them. *)
Follows(after, of, c) ==
    \/ after = None /\ c = 0
    \/ c \in 1..Len(db) /\ after = db[c] /\ after \in of
Rest(of, c) == {p \in c + 1..Len(db) : db[p] \in of}

LEMMA MatchingPlaces ==
    ASSUME Tables, NEW after \in Users \cup {None}, NEW of, NEW c, Follows(after, of, c)
    PROVE  \E g : /\ Enumerates(g, Len(Matching(after, of)), Rest(of, c))
                  /\ \A k \in 1..Len(Matching(after, of)) : Matching(after, of)[k] = db[g[k]]
<1>1. /\ Len(db) \in Nat /\ DOMAIN db = 1..Len(db) /\ db \in Seq(Users)
      /\ \A p \in 1..Len(db) : db[p] \in Users /\ db[p] \in ToSet(db)
      /\ \A p, q \in 1..Len(db) : db[p] = db[q] => p = q
  BY DbFacts DEF Tables
<1>2. CASE after = None /\ c = 0
  <2>1. Matching(after, of) = Select(db, of)
    BY <1>2 DEF Matching
  <2>2. Rest(of, c) = {i \in DOMAIN db : db[i] \in of}
    BY <1>1, <1>2 DEF Rest
  <2>3. PICK g : SelectedBy(g, db, of)
    BY <1>1, Selected
  <2> QED BY <2>1, <2>2, <2>3 DEF SelectedBy
<1>3. CASE c \in 1..Len(db) /\ after = db[c] /\ after \in of
  <2> DEFINE from == SubSeq(db, c, Len(db))
             found == Select(from, of)
  <2>1. after # None /\ after \in ToSet(db)
    BY <1>1, <1>3, UsersAssumption
  <2>2. (CHOOSE i \in DOMAIN db : db[i] = after) = c
    BY <1>1, <1>3
  <2>3. Matching(after, of) = IF found = <<>> THEN <<>> ELSE Tail(found)
    <3> DEFINE at == CHOOSE i \in DOMAIN db : db[i] = after
    <3>1. Matching(after, of) = IF Select(SubSeq(db, at, Len(db)), of) = <<>> THEN <<>>
                                ELSE Tail(Select(SubSeq(db, at, Len(db)), of))
      BY <2>1 DEF Matching
    <3> HIDE DEF at
    <3>2. at = c
      BY <2>2 DEF at
    <3> QED BY <3>1, <3>2
  <2>4. /\ from \in Seq(Users) /\ Len(from) = Len(db) - c + 1
        /\ DOMAIN from = 1..Len(db) - c + 1
        /\ \A i \in 1..Len(db) - c + 1 : from[i] = db[c + i - 1]
    <3>1. \A i \in c..Len(db) : db[i] \in Users
      BY <1>1, <1>3
    <3>2. /\ from \in Seq(Users) /\ Len(from) = IF c <= Len(db) THEN Len(db) - c + 1 ELSE 0
          /\ \A i \in 1..Len(db) - c + 1 : from[i] = db[c + i - 1]
      BY <1>1, <1>3, <3>1, SubSeqProperties
    <3>3. DOMAIN from = 1..Len(from)
      BY <3>2, LenProperties
    <3> QED BY <1>1, <1>3, <3>2, <3>3
  <2> HIDE DEF from
  <2> DEFINE n == Len(found)
  <2>5. found \in Seq(Users \cap of) /\ n \in Nat
    BY <2>4, Selected, LenProperties
  <2>6. PICK f : SelectedBy(f, from, of)
    BY <2>4, Selected
  <2> HIDE DEF found
  <2> HIDE DEF n
  <2>7. /\ \A k \in 1..n : f[k] \in 1..Len(db) - c + 1 /\ from[f[k]] \in of
        /\ \A k, l \in 1..n : k < l => f[k] < f[l]
        /\ \A i \in 1..Len(db) - c + 1 : from[i] \in of => \E k \in 1..n : f[k] = i
    BY <2>4, <2>6 DEF Enumerates, SelectedBy, n, found
  <2>8. n >= 1 /\ f[1] = 1
    <3>1. 1 \in 1..Len(db) - c + 1 /\ from[1] \in of
      BY <1>1, <1>3, <2>4
    <3>2. PICK k \in 1..n : f[k] = 1
      BY <2>7, <3>1
    <3>3. 1 \in 1..n /\ f[1] \in 1..Len(db) - c + 1
      BY <2>5, <2>7, <3>2 DEF n
    <3>4. ~(1 < k)
      BY <1>1, <1>3, <2>7, <3>2, <3>3
    <3>5. k = 1
      BY <2>5, <3>2, <3>4 DEF n
    <3> QED BY <3>2, <3>3, <3>5
  <2>9. found # <<>>
    BY <2>8, EmptySeq DEF n
  <2>10. /\ Matching(after, of) = Tail(found) /\ Len(Tail(found)) = n - 1
         /\ \A k \in 1..n - 1 : Tail(found)[k] = found[k + 1]
    BY <2>3, <2>5, <2>9, HeadTailProperties DEF n
  <2> DEFINE g == [k \in 1..n - 1 |-> c + f[k + 1] - 1]
  <2>11. n \in Nat
    BY <2>5 DEF n
  <2>12. ASSUME NEW k \in 1..n - 1
         PROVE  /\ k + 1 \in 1..n /\ f[k + 1] \in 2..Len(db) - c + 1
                /\ g[k] = c + f[k + 1] - 1 /\ g[k] \in c + 1..Len(db)
                /\ db[g[k]] = from[f[k + 1]]
    <3>1. k + 1 \in 1..n /\ 1 \in 1..n /\ 1 < k + 1
      BY <2>11
    <3>2. f[k + 1] \in 1..Len(db) - c + 1 /\ 1 < f[k + 1]
      BY <2>7, <2>8, <3>1
    <3>3. f[k + 1] \in 2..Len(db) - c + 1
      BY <1>1, <1>3, <3>2
    <3>4. g[k] = c + f[k + 1] - 1 /\ g[k] \in c + 1..Len(db)
      BY <1>1, <1>3, <3>3
    <3> QED BY <2>4, <3>1, <3>2, <3>3, <3>4
  <2>13. Enumerates(g, n - 1, Rest(of, c))
    <3>1. g \in [1..n - 1 -> Rest(of, c)]
      <4>1. \A k \in 1..n - 1 : g[k] \in Rest(of, c)
        BY <2>7, <2>12 DEF Rest
      <4> QED BY <4>1
    <3>2. ASSUME NEW k \in 1..n - 1, NEW l \in 1..n - 1, k < l PROVE g[k] < g[l]
      <4>1. f[k + 1] < f[l + 1]
        BY <2>7, <2>12, <3>2
      <4>2. /\ g[k] = c + f[k + 1] - 1 /\ f[k + 1] \in 2..Len(db) - c + 1
            /\ g[l] = c + f[l + 1] - 1 /\ f[l + 1] \in 2..Len(db) - c + 1
        BY <2>12
      <4> HIDE DEF g
      <4> QED BY <1>1, <1>3, <4>1, <4>2
    <3>3. ASSUME NEW p \in Rest(of, c) PROVE \E k \in 1..n - 1 : g[k] = p
      <4>1. p \in c + 1..Len(db) /\ db[p] \in of
        BY DEF Rest
      <4>2. p - c + 1 \in 1..Len(db) - c + 1 /\ p - c + 1 # 1 /\ c + (p - c + 1) - 1 = p
        BY <1>1, <1>3, <4>1
      <4>3. PICK k \in 1..n : f[k] = p - c + 1
        BY <2>4, <2>7, <4>1, <4>2
      <4>4. k - 1 \in 1..n - 1 /\ (k - 1) + 1 = k
        BY <2>8, <2>11, <4>2, <4>3
      <4>5. g[k - 1] = p
        BY <2>12, <4>2, <4>3, <4>4
      <4> QED BY <4>4, <4>5
    <3> HIDE DEF g
    <3> QED BY <3>1, <3>2, <3>3 DEF Enumerates
  <2>14. \A k \in 1..n - 1 : Tail(found)[k] = db[g[k]]
    <3>1. \A k \in 1..n : found[k] = from[f[k]]
      BY <2>6 DEF SelectedBy, n, found
    <3> QED BY <2>10, <2>12, <3>1
  <2> HIDE DEF g
  <2> QED BY <2>10, <2>13, <2>14
<1> QED BY <1>2, <1>3 DEF Follows

(* A page shows the first m of the n accounts that follow; the next one begins
   after its last row, and there is none when it shows them all. *)
FirstOf(p, of, c, n, m, g) ==
    /\ n \in Nat /\ m \in Nat /\ m <= n /\ Enumerates(g, n, Rest(of, c))
    /\ DOMAIN p.items = 1..m
    /\ \A k \in 1..m : p.items[k].id = db[g[k]]
    /\ IF p.next = None THEN m = n ELSE m >= 1 /\ p.next = db[g[m]]

LEMMA PagePlaces ==
    ASSUME Tables, NEW after \in Users \cup {None}, NEW of, NEW c, Follows(after, of, c)
    PROVE  \E n, m, g : FirstOf(Page(after, of), of, c, n, m, g)
<1> DEFINE ids == Matching(after, of)
           n == Len(ids)
           m == IF n > PageSize THEN PageSize ELSE n
<1>1. PICK g : Enumerates(g, n, Rest(of, c)) /\ \A k \in 1..n : ids[k] = db[g[k]]
  BY MatchingPlaces
<1>2. n \in Nat /\ PageSize \in Nat \ {0} /\ \A k \in 1..n : ids[k] \in Users
  BY MatchingRows, DbFacts, LenProperties, ElementOfSeq, UsersAssumption
<1>3. Page(after, of) = PageOf(ids, m, IF n > PageSize THEN ids[PageSize] ELSE None)
  BY DEF Page
<1> HIDE DEF n, ids
<1>4. m \in Nat /\ m <= n
  BY <1>2
<1>5. DOMAIN Page(after, of).items = 1..m /\ \A k \in 1..m : Page(after, of).items[k].id = ids[k]
  BY <1>3 DEF PageOf
<1>6. Page(after, of).next = IF n > PageSize THEN ids[PageSize] ELSE None
  BY <1>3 DEF PageOf
<1>7. IF Page(after, of).next = None THEN m = n ELSE m >= 1 /\ Page(after, of).next = db[g[m]]
  <2>1. CASE n > PageSize
    <3>1. PageSize \in 1..n /\ m = PageSize
      BY <1>2, <2>1
    <3> QED BY <1>1, <1>2, <1>6, <2>1, <3>1, UsersAssumption
  <2>2. CASE ~(n > PageSize)
    BY <1>6, <2>2
  <2> QED BY <2>1, <2>2
<1>8. \A k \in 1..m : Page(after, of).items[k].id = db[g[k]]
  BY <1>1, <1>2, <1>4, <1>5
<1> HIDE DEF m
<1>9. FirstOf(Page(after, of), of, c, n, m, g)
  BY <1>1, <1>2, <1>4, <1>5, <1>7, <1>8 DEF FirstOf
<1> QED BY <1>9

(* Rows that are the search's accounts up to position c, and the page after it. *)
LEMMA PageBegins ==
    ASSUME Tables, NEW rows \in Seq(Rows), NEW c \in 0..Len(db), NEW after \in Users \cup {None},
           Follows(after, search, c),
           \A i \in DOMAIN rows : rows[i].id \in ToSet(db) => rows[i].id \in search,
           \A i, j \in DOMAIN rows :
               i < j /\ {rows[i].id, rows[j].id} \subseteq ToSet(db) => Before(db, rows[i].id, rows[j].id),
           \A p \in 1..Len(db) : db[p] \in search => (In(rows, db[p]) <=> p <= c)
    PROVE  Begins(rows \o Page(after, search).items, Page(after, search).next, db, search)
<1> DEFINE shown == Page(after, search)
           items == shown.items
           next == shown.next
           all == rows \o items
           L == Len(rows)
<1>1. /\ Len(db) \in Nat /\ DOMAIN db = 1..Len(db)
      /\ \A p \in 1..Len(db) : db[p] \in Users /\ db[p] \in ToSet(db)
      /\ \A v \in ToSet(db) : v \in Users /\ \E p \in 1..Len(db) : v = db[p]
      /\ \A p, q \in 1..Len(db) : db[p] = db[q] => p = q
      /\ \A p, q \in 1..Len(db) : Before(db, db[p], db[q]) <=> p < q
  BY DbFacts
<1>2a. PICK n, m, g : FirstOf(shown, search, c, n, m, g)
  BY PagePlaces
<1>2. /\ n \in Nat /\ m \in Nat /\ m <= n /\ Enumerates(g, n, Rest(search, c))
      /\ DOMAIN items = 1..m
      /\ \A k \in 1..m : items[k].id = db[g[k]]
      /\ IF next = None THEN m = n ELSE m >= 1 /\ next = db[g[m]]
  BY <1>2a DEF FirstOf
<1>3. items \in Seq(Rows) /\ next \in ToSet(db) \cup {None}
  BY PageRows DEF Answers
<1> HIDE DEF items, next
<1>4. /\ \A k \in 1..n : g[k] \in 1..Len(db) /\ g[k] > c /\ db[g[k]] \in search
      /\ \A k, l \in 1..n : k < l => g[k] < g[l]
      /\ \A p \in 1..Len(db) : p > c /\ db[p] \in search => \E k \in 1..n : g[k] = p
  <2>1. \A p \in Rest(search, c) : p \in 1..Len(db) /\ p > c /\ db[p] \in search
    BY <1>1 DEF Rest
  <2>2. \A p \in 1..Len(db) : p > c /\ db[p] \in search => p \in Rest(search, c)
    BY <1>1 DEF Rest
  <2> QED BY <1>2, <2>1, <2>2 DEF Enumerates
<1>5. L \in Nat /\ DOMAIN rows = 1..L /\ Len(items) = m
  BY <1>2, <1>3, LenProperties
<1>6. /\ DOMAIN all = 1..L + m
      /\ \A i \in 1..L + m : all[i] = IF i <= L THEN rows[i] ELSE items[i - L]
  <2>1. /\ all \in Seq(Rows) /\ Len(all) = L + Len(items)
        /\ \A i \in 1..L + Len(items) : all[i] = IF i <= L THEN rows[i] ELSE items[i - L]
    BY <1>3, ConcatProperties
  <2> QED BY <1>5, <2>1, LenProperties
<1> HIDE DEF all, L
<1>7. \A i \in DOMAIN all : \/ i \in DOMAIN rows /\ i <= L /\ all[i] = rows[i]
                            \/ i > L /\ i - L \in 1..m /\ all[i].id = db[g[i - L]] /\ g[i - L] \in 1..Len(db)
  <2> TAKE i \in DOMAIN all
  <2>1. CASE i <= L
    <3>1. i \in 1..L
      BY <1>5, <1>6, <2>1
    <3> QED BY <1>5, <1>6, <2>1, <3>1
  <2>2. CASE ~(i <= L)
    <3>1. i > L /\ i - L \in 1..m /\ i - L \in 1..n /\ all[i] = items[i - L]
      BY <1>2, <1>5, <1>6, <2>2
    <3> QED BY <1>2, <1>4, <3>1
  <2> QED BY <2>1, <2>2
<1>8. \A v : In(all, v) <=> In(rows, v) \/ \E k \in 1..m : db[g[k]] = v
  <2>1. ASSUME NEW v, In(all, v) PROVE In(rows, v) \/ \E k \in 1..m : db[g[k]] = v
    BY <1>7, <2>1 DEF In
  <2>2. ASSUME NEW v, In(rows, v) PROVE In(all, v)
    <3>1. PICK i \in 1..L : rows[i].id = v
      BY <1>5, <2>2 DEF In
    <3>2. i \in 1..L + m /\ all[i] = rows[i]
      BY <1>2, <1>5, <1>6
    <3> QED BY <1>6, <3>1, <3>2 DEF In
  <2>3. ASSUME NEW k \in 1..m PROVE In(all, db[g[k]])
    <3>1. L + k \in 1..L + m /\ ~(L + k <= L) /\ (L + k) - L = k
      BY <1>5
    <3>2. all[L + k].id = db[g[k]]
      BY <1>2, <1>6, <3>1
    <3> QED BY <1>6, <3>1, <3>2 DEF In
  <2> QED BY <2>1, <2>2, <2>3
<1>9. ASSUME NEW p \in 1..Len(db), db[p] \in search
      PROVE  In(all, db[p]) <=> p <= c \/ \E k \in 1..m : g[k] = p
  <2>1. \A k \in 1..m : g[k] \in 1..Len(db)
    BY <1>2, <1>4
  <2>2. \A k \in 1..m : db[g[k]] = db[p] <=> g[k] = p
    BY <1>1, <2>1
  <2> QED BY <1>8, <1>9, <2>2
<1>10. \A i \in DOMAIN all : all[i].id \in ToSet(db) => all[i].id \in search
  <2> TAKE i \in DOMAIN all
  <2>1. CASE i \in DOMAIN rows /\ i <= L /\ all[i] = rows[i]
    BY <2>1
  <2>2. CASE i - L \in 1..m /\ all[i].id = db[g[i - L]]
    <3>1. i - L \in 1..n
      BY <1>2, <2>2
    <3> QED BY <1>4, <2>2, <3>1
  <2> QED BY <1>7, <2>1, <2>2
<1>11. ASSUME NEW i \in DOMAIN rows, rows[i].id \in ToSet(db)
       PROVE  \E p \in 1..Len(db) : rows[i].id = db[p] /\ p <= c
  BY <1>1, <1>11 DEF In
<1>12. ASSUME NEW i \in DOMAIN all, NEW j \in DOMAIN all, i < j, {all[i].id, all[j].id} \subseteq ToSet(db)
       PROVE  Before(db, all[i].id, all[j].id)
  <2>1. i \in Int /\ j \in Int /\ L \in Int
    BY <1>5, <1>6
  <2>2. CASE j <= L
    <3>1. i <= L /\ ~(i > L) /\ ~(j > L)
      BY <1>12, <2>1, <2>2
    <3> QED BY <1>7, <1>12, <3>1
  <2>3. CASE i <= L /\ j > L
    <3>1. ~(i > L) /\ ~(j <= L)
      BY <2>1, <2>3
    <3>2. i \in DOMAIN rows /\ all[i] = rows[i] /\ all[j].id = db[g[j - L]] /\ j - L \in 1..n
      BY <1>2, <1>7, <3>1
    <3>3. PICK p \in 1..Len(db) : rows[i].id = db[p] /\ p <= c
      BY <1>11, <1>12, <3>2
    <3>4. g[j - L] \in 1..Len(db) /\ p < g[j - L]
      BY <1>4, <3>2, <3>3
    <3> QED BY <1>1, <3>2, <3>3, <3>4
  <2>4. CASE i > L
    <3>1. j > L /\ ~(i <= L) /\ ~(j <= L)
      BY <1>12, <2>1, <2>4
    <3>2. /\ i - L \in 1..m /\ all[i].id = db[g[i - L]]
          /\ j - L \in 1..m /\ all[j].id = db[g[j - L]]
      BY <1>7, <3>1
    <3>3. i - L < j - L /\ i - L \in 1..n /\ j - L \in 1..n
      BY <1>2, <1>12, <2>1, <3>2
    <3>4. g[i - L] < g[j - L] /\ g[i - L] \in 1..Len(db) /\ g[j - L] \in 1..Len(db)
      BY <1>4, <3>3
    <3> QED BY <1>1, <3>2, <3>4
  <2> QED BY <2>1, <2>2, <2>3, <2>4
<1>13. ASSUME NEW v \in Found(db, search), NEW i \in DOMAIN all, Before(db, v, all[i].id)
       PROVE  In(all, v)
  <2>1. PICK p \in 1..Len(db) : v = db[p]
    BY <1>1 DEF Found
  <2>2. db[p] \in search /\ p \in Int
    BY <2>1 DEF Found
  <2>3. CASE i <= L
    <3>1. i \in DOMAIN rows /\ all[i] = rows[i]
      BY <1>5, <1>6, <1>7, <2>3
    <3>2. all[i].id \in ToSet(db)
      BY <1>1, <1>13 DEF Before
    <3>3. PICK q \in 1..Len(db) : rows[i].id = db[q] /\ q <= c
      BY <1>11, <3>1, <3>2
    <3>4. p <= c
      BY <1>1, <1>13, <2>1, <3>1, <3>3
    <3> QED BY <1>9, <2>1, <2>2, <3>4
  <2>4. CASE ~(i <= L)
    <3>1. i - L \in 1..m /\ all[i].id = db[g[i - L]] /\ g[i - L] \in 1..Len(db)
      BY <1>7, <2>4
    <3>2. p < g[i - L]
      BY <1>1, <1>13, <2>1, <3>1
    <3>3. CASE p <= c
      BY <1>9, <2>1, <2>2, <3>3
    <3>4. CASE ~(p <= c)
      <4>1. PICK k \in 1..n : g[k] = p
        BY <1>4, <2>1, <2>2, <3>4
      <4>2. k <= i - L
        BY <1>2, <1>4, <3>1, <3>2, <4>1
      <4>3. k \in 1..m
        BY <1>2, <3>1, <4>1, <4>2
      <4> QED BY <1>9, <2>1, <2>2, <4>1, <4>3
    <3> QED BY <3>3, <3>4
  <2> QED BY <2>3, <2>4
<1>14. ASSUME next = None, NEW v \in Found(db, search) PROVE In(all, v)
  <2>1. PICK p \in 1..Len(db) : v = db[p]
    BY <1>1 DEF Found
  <2>2. db[p] \in search /\ (p <= c \/ p > c)
    BY <2>1 DEF Found
  <2>3. m = n
    BY <1>2, <1>14
  <2> QED BY <1>4, <1>9, <2>1, <2>2, <2>3
<1>15. ASSUME next # None
       PROVE  next \in search /\ \A v \in Found(db, search) : In(all, v) <=> v = next \/ Before(db, v, next)
  <2>1. m \in 1..n /\ next = db[g[m]]
    BY <1>2, <1>15
  <2>2. g[m] \in 1..Len(db) /\ g[m] > c /\ db[g[m]] \in search
    BY <1>4, <2>1
  <2>3. ASSUME NEW v \in Found(db, search) PROVE In(all, v) <=> v = next \/ Before(db, v, next)
    <3>1. PICK p \in 1..Len(db) : v = db[p]
      BY <1>1 DEF Found
    <3>2. db[p] \in search
      BY <3>1 DEF Found
    <3>3. v = next \/ Before(db, v, next) <=> p <= g[m]
      BY <1>1, <2>1, <2>2, <3>1
    <3>4. ASSUME NEW k \in 1..m, g[k] = p PROVE p <= g[m]
      <4>1. k \in 1..n /\ (k = m \/ k < m)
        BY <1>2, <3>4
      <4> QED BY <1>4, <2>1, <2>2, <3>4, <4>1
    <3>5. ASSUME p <= g[m], ~(p <= c) PROVE \E k \in 1..m : g[k] = p
      <4>1. PICK k \in 1..n : g[k] = p
        BY <1>4, <3>2, <3>5
      <4>2. ~(m < k)
        BY <1>4, <2>1, <2>2, <3>5, <4>1
      <4>3. k \in 1..m
        BY <1>2, <4>1, <4>2
      <4> QED BY <4>1, <4>3
    <3>6. p <= c => p <= g[m]
      BY <2>2
    <3> QED BY <1>9, <3>1, <3>2, <3>3, <3>4, <3>5, <3>6
  <2> QED BY <2>1, <2>2, <2>3
<1>16. next \in ToSet(db) => next # None
  BY <1>1, UsersAssumption
<1> QED BY <1>10, <1>12, <1>13, <1>14, <1>15, <1>16 DEF Begins, all, items, next

(* The first page of the search. *)
LEMMA FirstPageBegins ==
    ASSUME Tables
    PROVE  Begins(Page(None, search).items, Page(None, search).next, db, search)
<1>1. Len(db) \in Nat /\ <<>> \in Seq(Rows) /\ DOMAIN <<>> = {}
  BY DbFacts, EmptySeq
<1>2. 0 \in 0..Len(db) /\ Follows(None, search, 0)
  BY <1>1 DEF Follows
<1>3. \A p \in 1..Len(db) : db[p] \in search => (In(<<>>, db[p]) <=> p <= 0)
  BY <1>1 DEF In
<1>4. Begins(<<>> \o Page(None, search).items, Page(None, search).next, db, search)
  BY <1>1, <1>2, <1>3, PageBegins
<1>5. <<>> \o Page(None, search).items = Page(None, search).items
  BY PageRows, ConcatEmptySeq DEF Answers
<1> QED BY <1>4, <1>5

(* A further page. *)
LEMMA NextPageBegins ==
    ASSUME Tables, NEW rows \in Seq(Rows), NEW next \in ToSet(db), Begins(rows, next, db, search)
    PROVE  Begins(rows \o Page(next, search).items, Page(next, search).next, db, search)
<1>1. /\ Len(db) \in Nat
      /\ \A p \in 1..Len(db) : db[p] \in Users /\ db[p] \in ToSet(db)
      /\ \A p, q \in 1..Len(db) : db[p] = db[q] => p = q
      /\ \A p, q \in 1..Len(db) : Before(db, db[p], db[q]) <=> p < q
  BY DbFacts
<1>2. PICK c \in 1..Len(db) : next = db[c]
  BY DbFacts
<1>3. next \in search /\ \A v \in Found(db, search) : In(rows, v) <=> v = next \/ Before(db, v, next)
  BY DEF Begins
<1>4. c \in 0..Len(db) /\ Follows(next, search, c) /\ next \in Users
  BY <1>1, <1>2, <1>3 DEF Follows
<1>5. \A p \in 1..Len(db) : db[p] \in search => (In(rows, db[p]) <=> p <= c)
  <2> SUFFICES ASSUME NEW p \in 1..Len(db), db[p] \in search PROVE In(rows, db[p]) <=> p <= c
    OBVIOUS
  <2>1. db[p] \in Found(db, search)
    BY <1>1 DEF Found
  <2>2. db[p] = next \/ Before(db, db[p], next) <=> p <= c
    BY <1>1, <1>2
  <2> QED BY <1>3, <2>1, <2>2
<1>6. /\ \A i \in DOMAIN rows : rows[i].id \in ToSet(db) => rows[i].id \in search
      /\ \A i, j \in DOMAIN rows :
             i < j /\ {rows[i].id, rows[j].id} \subseteq ToSet(db) => Before(db, rows[i].id, rows[j].id)
  BY DEF Begins
<1> QED BY <1>4, <1>5, <1>6, PageBegins

(* Whether rows are the first depends on the order of those the server has. *)
LEMMA SameBegins ==
    ASSUME NEW rows, NEW kept, NEW next, NEW ids, NEW of, Begins(rows, next, ids, of),
           NEW at \in [DOMAIN kept -> DOMAIN rows],
           \A i \in DOMAIN kept : kept[i].id = rows[at[i]].id,
           \A i, j \in DOMAIN kept : i < j => at[i] < at[j],
           \A i \in DOMAIN rows : rows[i].id \in ToSet(ids) => In(kept, rows[i].id)
    PROVE  Begins(kept, next, ids, of)
<1>1. \A v \in ToSet(ids) : In(kept, v) <=> In(rows, v)
  <2>1. ASSUME NEW v, In(kept, v) PROVE In(rows, v)
    BY <2>1 DEF In
  <2>2. ASSUME NEW v \in ToSet(ids), In(rows, v) PROVE In(kept, v)
    BY <2>2 DEF In
  <2> QED BY <2>1, <2>2
<1>2. Found(ids, of) \subseteq ToSet(ids)
  BY DEF Found
<1>3. \A i \in DOMAIN kept : kept[i].id \in ToSet(ids) => kept[i].id \in of
  BY DEF Begins
<1>4. \A i, j \in DOMAIN kept :
          i < j /\ {kept[i].id, kept[j].id} \subseteq ToSet(ids) => Before(ids, kept[i].id, kept[j].id)
  BY DEF Begins
<1>5. \A v \in Found(ids, of), i \in DOMAIN kept : Before(ids, v, kept[i].id) => In(kept, v)
  BY <1>1, <1>2 DEF Begins
<1>6. next = None => \A v \in Found(ids, of) : In(kept, v)
  BY <1>1, <1>2 DEF Begins
<1>7. next \in ToSet(ids) =>
          next \in of /\ \A v \in Found(ids, of) : In(kept, v) <=> v = next \/ Before(ids, v, next)
  BY <1>1, <1>2 DEF Begins
<1> QED BY <1>3, <1>4, <1>5, <1>6, <1>7 DEF Begins

(* What is deleted leaves the others in their order. *)
LEMMA DeletedFrom ==
    ASSUME Tables, NEW u, NEW rest, rest = Select(db, Users \ {u})
    PROVE  /\ rest \in Seq(Users) /\ IsInjective(rest) /\ ToSet(rest) = ToSet(db) \ {u}
           /\ \A v, w \in ToSet(rest) : Before(rest, v, w) <=> Before(db, v, w)
<1> DEFINE at == {i \in DOMAIN db : db[i] \in Users \ {u}}
<1>1. /\ Len(db) \in Nat /\ DOMAIN db = 1..Len(db)
      /\ \A p \in 1..Len(db) : db[p] \in Users /\ db[p] \in ToSet(db)
      /\ \A v \in ToSet(db) : v \in Users /\ \E p \in 1..Len(db) : v = db[p]
      /\ \A p, q \in 1..Len(db) : db[p] = db[q] => p = q
      /\ \A p, q \in 1..Len(db) : Before(db, db[p], db[q]) <=> p < q
  BY DbFacts
<1>2. rest \in Seq(Users \cap (Users \ {u})) /\ \E f : SelectedBy(f, db, Users \ {u})
  BY Selected DEF Tables
<1>3. rest \in Seq(Users)
  <2>1. Users \cap (Users \ {u}) \subseteq Users
    OBVIOUS
  <2>2. Len(rest) \in Nat /\ rest \in [1..Len(rest) -> Users]
    BY <1>2, <2>1, LenProperties
  <2> QED BY <2>2, SeqDef
<1> DEFINE n == Len(rest)
<1>4. n \in Nat /\ DOMAIN rest = 1..n
  BY <1>3, LenProperties
<1>5. PICK f : Enumerates(f, n, at) /\ \A k \in 1..n : rest[k] = db[f[k]]
  BY <1>2 DEF SelectedBy
<1> HIDE DEF n
<1>6. /\ \A k \in 1..n : f[k] \in 1..Len(db) /\ db[f[k]] # u
      /\ \A k, l \in 1..n : k < l => f[k] < f[l]
      /\ \A p \in 1..Len(db) : db[p] # u => \E k \in 1..n : f[k] = p
  BY <1>1, <1>5 DEF Enumerates
<1>7. \A k, l \in 1..n : f[k] = f[l] => k = l
  BY <1>1, <1>4, <1>6
<1>8. \A k, l \in 1..n : rest[k] = rest[l] => k = l
  <2> SUFFICES ASSUME NEW k \in 1..n, NEW l \in 1..n, rest[k] = rest[l] PROVE k = l
    OBVIOUS
  <2>1. f[k] \in 1..Len(db) /\ f[l] \in 1..Len(db) /\ db[f[k]] = db[f[l]]
    BY <1>5, <1>6
  <2>2. f[k] = f[l]
    BY <1>1, <2>1
  <2> QED BY <1>7, <2>2
<1>9. \A k \in 1..n : rest[k] = db[f[k]] /\ rest[k] \in ToSet(db) \ {u}
  <2> TAKE k \in 1..n
  <2>1. rest[k] = db[f[k]] /\ f[k] \in 1..Len(db) /\ db[f[k]] # u
    BY <1>5, <1>6
  <2>2. db[f[k]] \in ToSet(db)
    BY <1>1, <2>1
  <2> QED BY <2>1, <2>2
<1>10. \A v \in ToSet(db) \ {u} : \E k \in 1..n : rest[k] = v
  <2> TAKE v \in ToSet(db) \ {u}
  <2>1. PICK p \in 1..Len(db) : v = db[p]
    BY <1>1
  <2>2. PICK k \in 1..n : f[k] = p
    BY <1>6, <2>1
  <2> QED BY <1>5, <2>1, <2>2
<1>11. ToSet(rest) = ToSet(db) \ {u}
  <2>1. ToSet(rest) = {rest[k] : k \in 1..n}
    BY <1>4 DEF ToSet
  <2> QED BY <1>9, <1>10, <2>1
<1>12. \A k, l \in 1..n : Before(rest, rest[k], rest[l]) <=> k < l
  BY <1>4, <1>8 DEF Before
<1>13. \A k, l \in 1..n : Before(db, rest[k], rest[l]) <=> k < l
  <2> SUFFICES ASSUME NEW k \in 1..n, NEW l \in 1..n
               PROVE  Before(db, db[f[k]], db[f[l]]) <=> k < l
    BY <1>9
  <2>1. Before(db, db[f[k]], db[f[l]]) <=> f[k] < f[l]
    BY <1>1, <1>6
  <2>2. f[k] \in Int /\ f[l] \in Int /\ k \in Int /\ l \in Int
    BY <1>1, <1>4, <1>6
  <2>3. f[k] < f[l] => k < l
    BY <1>6, <2>2
  <2> QED BY <1>6, <2>1, <2>3
<1>14. \A v, w \in ToSet(rest) : Before(rest, v, w) <=> Before(db, v, w)
  <2> SUFFICES ASSUME NEW v \in ToSet(rest), NEW w \in ToSet(rest)
               PROVE  Before(rest, v, w) <=> Before(db, v, w)
    OBVIOUS
  <2>1. PICK k \in 1..n, l \in 1..n : rest[k] = v /\ rest[l] = w
    BY <1>10, <1>11
  <2> QED BY <1>12, <1>13, <2>1
<1>15. IsInjective(rest)
  BY <1>4, <1>8 DEF IsInjective
<1> QED BY <1>3, <1>11, <1>14, <1>15

LEMMA DeletionBegins ==
    ASSUME Tables, NEW rows, NEW next, NEW of, Begins(rows, next, db, of),
           NEW u, NEW rest, rest = Select(db, Users \ {u})
    PROVE  Begins(rows, next, rest, of)
<1>1. /\ ToSet(rest) = ToSet(db) \ {u}
      /\ \A v, w \in ToSet(rest) : Before(rest, v, w) <=> Before(db, v, w)
      /\ \A v, w : Before(rest, v, w) => v \in ToSet(rest) /\ w \in ToSet(rest)
  <2>1. \A v, w : Before(rest, v, w) => v \in ToSet(rest) /\ w \in ToSet(rest)
    BY DEF Before, ToSet
  <2> QED BY <2>1, DeletedFrom
<1>2. /\ ToSet(rest) \subseteq ToSet(db) /\ Found(rest, of) \subseteq ToSet(rest)
      /\ Found(rest, of) \subseteq Found(db, of)
  BY <1>1 DEF Found
<1>3. \A i \in DOMAIN rows : rows[i].id \in ToSet(rest) => rows[i].id \in of
  BY <1>2 DEF Begins
<1>4. \A i, j \in DOMAIN rows :
          i < j /\ {rows[i].id, rows[j].id} \subseteq ToSet(rest) => Before(rest, rows[i].id, rows[j].id)
  BY <1>1, <1>2 DEF Begins
<1>5. \A v \in Found(rest, of), i \in DOMAIN rows : Before(rest, v, rows[i].id) => In(rows, v)
  BY <1>1, <1>2 DEF Begins
<1>6. next = None => \A v \in Found(rest, of) : In(rows, v)
  BY <1>2 DEF Begins
<1>7. next \in ToSet(rest) =>
          next \in of /\ \A v \in Found(rest, of) : In(rows, v) <=> v = next \/ Before(rest, v, next)
  BY <1>1, <1>2 DEF Begins
<1> QED BY <1>3, <1>4, <1>5, <1>6, <1>7 DEF Begins

(* Rows left out or changed, of accounts the server has not or in their
   fields, leave the others in their order. *)
LEMMA KeptBegins ==
    ASSUME NEW rows \in Seq(Rows), NEW kept \in Seq(Rows), NEW more \in Seq(Rows),
           NEW next, NEW ids, NEW of, Begins(rows \o more, next, ids, of),
           NEW at \in [1..Len(kept) -> 1..Len(rows)],
           \A i \in 1..Len(kept) : kept[i].id = rows[at[i]].id,
           \A i, j \in 1..Len(kept) : i < j => at[i] < at[j],
           \A i \in 1..Len(rows) : rows[i].id \in ToSet(ids) => \E j \in 1..Len(kept) : kept[j].id = rows[i].id
    PROVE  Begins(kept \o more, next, ids, of)
<1> DEFINE K == Len(kept)
           R == Len(rows)
           M == Len(more)
           old == rows \o more
           new == kept \o more
           g == [i \in 1..K + M |-> IF i <= K THEN at[i] ELSE R + (i - K)]
<1>1. K \in Nat /\ R \in Nat /\ M \in Nat
  BY LenProperties
<1>2. /\ DOMAIN old = 1..R + M
      /\ \A i \in 1..R + M : old[i] = IF i <= R THEN rows[i] ELSE more[i - R]
  BY ConcatProperties, LenProperties
<1>3. /\ DOMAIN new = 1..K + M
      /\ \A i \in 1..K + M : new[i] = IF i <= K THEN kept[i] ELSE more[i - K]
  BY ConcatProperties, LenProperties
<1> HIDE DEF K, R, M, old, new
<1>4. ASSUME NEW i \in 1..K
      PROVE  /\ i \in 1..K + M /\ i <= K /\ g[i] = at[i] /\ at[i] \in 1..R /\ g[i] \in 1..R + M
             /\ new[i].id = old[g[i]].id
  <2>1. i \in 1..K + M /\ i <= K /\ at[i] \in 1..R
    BY <1>1 DEF K, R
  <2>2. g[i] = at[i] /\ at[i] \in 1..R + M /\ at[i] <= R
    BY <1>1, <2>1
  <2> HIDE DEF g
  <2>3. new[i] = kept[i] /\ old[at[i]] = rows[at[i]]
    BY <1>2, <1>3, <2>1, <2>2
  <2> QED BY <2>1, <2>2, <2>3 DEF K
<1>5. ASSUME NEW i \in 1..K + M, ~(i <= K)
      PROVE  /\ g[i] = R + (i - K) /\ g[i] \in 1..R + M /\ g[i] > R /\ i - K \in 1..M
             /\ new[i].id = old[g[i]].id
  <2>1. g[i] = R + (i - K) /\ i - K \in 1..M
    BY <1>1, <1>5
  <2> HIDE DEF g
  <2>2. g[i] \in 1..R + M /\ ~(g[i] <= R) /\ g[i] > R /\ g[i] - R = i - K
    BY <1>1, <2>1
  <2> QED BY <1>2, <1>3, <1>5, <2>1, <2>2
<1>6. g \in [DOMAIN new -> DOMAIN old] /\ \A i \in DOMAIN new : new[i].id = old[g[i]].id
  <2>1. ASSUME NEW i \in 1..K + M PROVE g[i] \in 1..R + M /\ new[i].id = old[g[i]].id
    <3>1. CASE i <= K
      <4>1. i \in 1..K
        BY <1>1, <3>1
      <4> QED BY <1>4, <4>1
    <3> QED BY <1>5, <3>1
  <2>2. g \in [1..K + M -> 1..R + M]
    BY <2>1
  <2> QED BY <1>2, <1>3, <2>1, <2>2
<1> HIDE DEF g
<1>7. ASSUME NEW i \in DOMAIN new, NEW j \in DOMAIN new, i < j PROVE g[i] < g[j]
  <2>1. i \in 1..K + M /\ j \in 1..K + M
    BY <1>3
  <2>2. CASE j <= K
    <3>1. i \in 1..K /\ j \in 1..K
      BY <1>1, <1>7, <2>1, <2>2
    <3> QED BY <1>4, <1>7, <3>1 DEF K
  <2>3. CASE i <= K /\ ~(j <= K)
    <3>1. i \in 1..K
      BY <1>1, <2>1, <2>3
    <3>2. g[i] \in 1..R /\ g[j] \in 1..R + M /\ g[j] > R
      BY <1>4, <1>5, <2>1, <2>3, <3>1
    <3> QED BY <1>1, <3>2
  <2>4. CASE ~(i <= K)
    <3>1. ~(j <= K)
      BY <1>1, <1>7, <2>1, <2>4
    <3>2. g[i] = R + (i - K) /\ g[j] = R + (j - K)
      BY <1>5, <2>1, <2>4, <3>1
    <3> QED BY <1>1, <1>7, <2>1, <3>2
  <2> QED BY <2>2, <2>3, <2>4
<1>8. ASSUME NEW i \in DOMAIN old, old[i].id \in ToSet(ids) PROVE In(new, old[i].id)
  <2>1. i \in 1..R + M
    BY <1>2
  <2>2. CASE i <= R
    <3>1. i \in 1..R /\ old[i] = rows[i]
      BY <1>1, <1>2, <2>1, <2>2
    <3>2. PICK j \in 1..K : kept[j].id = rows[i].id
      BY <1>8, <3>1 DEF K, R
    <3>3. j \in 1..K + M /\ new[j] = kept[j]
      BY <1>1, <1>3, <3>2
    <3> QED BY <1>3, <3>1, <3>2, <3>3 DEF In
  <2>3. CASE ~(i <= R)
    <3>1. i - R \in 1..M /\ old[i] = more[i - R]
      BY <1>1, <1>2, <2>1, <2>3
    <3>2. PICK j \in 1..K + M : ~(j <= K) /\ j - K = i - R
      <4>1. K + (i - R) \in 1..K + M /\ ~(K + (i - R) <= K) /\ (K + (i - R)) - K = i - R
        BY <1>1, <3>1
      <4> QED BY <4>1
    <3>3. new[j] = more[i - R]
      BY <1>3, <3>2
    <3> QED BY <1>3, <3>1, <3>2, <3>3 DEF In
  <2> QED BY <2>2, <2>3
<1>9. Begins(old, next, ids, of)
  BY DEF old
<1>10. Begins(new, next, ids, of)
  BY <1>6, <1>7, <1>8, <1>9, SameBegins
<1> QED BY <1>10 DEF new

(* A strictly increasing numbering that leaves no number out is the identity. *)
Numbers(h, m, n) ==
    /\ h \in [1..m -> 1..n]
    /\ \A k, l \in 1..m : k < l => h[k] < h[l]
    /\ \A k \in 1..m, j \in 1..n : j < h[k] => \E l \in 1..m : h[l] = j

LEMMA NumberingIsIdentity ==
    ASSUME NEW m \in Nat, NEW n \in Nat, NEW h, Numbers(h, m, n)
    PROVE  \A k \in 1..m : h[k] = k
<1> SUFFICES ASSUME NEW k \in 1..m PROVE h[k] = k
  OBVIOUS
<1> USE DEF Numbers
<1> DEFINE e == [l \in 1..k |-> h[l]]
<1>1. k \in Nat /\ h[k] \in 1..n /\ h[k] \in Nat /\ 1 \in 1..h[k]
  OBVIOUS
<1>2. \A l \in 1..k : l \in 1..m /\ (l = k \/ l < k)
  OBVIOUS
<1>3. e \in [1..k -> 1..h[k]]
  <2> SUFFICES ASSUME NEW l \in 1..k PROVE h[l] \in 1..h[k]
    OBVIOUS
  <2>1. l \in 1..m /\ (l = k \/ l < k)
    BY <1>2
  <2>2. h[l] = h[k] \/ h[l] < h[k]
    BY <2>1
  <2>3. h[l] \in 1..n
    BY <2>1
  <2> QED BY <1>1, <2>2, <2>3
<1>4. ASSUME NEW i \in 1..k, NEW l \in 1..k, e[i] = e[l] PROVE i = l
  <2>1. i \in 1..m /\ l \in 1..m /\ h[i] = h[l] /\ h[i] \in 1..n /\ h[l] \in 1..n
    BY <1>2, <1>4
  <2>2. ~(i < l) /\ ~(l < i)
    BY <2>1
  <2> QED BY <2>2
<1>5. ASSUME NEW j \in 1..h[k] PROVE \E l \in 1..k : e[l] = j
  <2>1. CASE j = h[k]
    BY <1>1, <2>1
  <2>2. CASE j < h[k]
    <3>1. j \in 1..n
      BY <1>1
    <3>2. PICK l \in 1..m : h[l] = j
      BY <2>2, <3>1
    <3>3. ~(k < l) /\ l # k
      BY <1>1, <2>2, <3>2
    <3>4. l \in 1..k
      BY <3>2, <3>3
    <3> QED BY <3>2, <3>4
  <2> QED BY <1>1, <2>1, <2>2
<1>6. e \in Bijection(1..k, 1..h[k])
  <2> HIDE DEF e
  <2> QED BY <1>3, <1>4, <1>5 DEF Bijection, Injection, Surjection, IsInjective
<1>7. Cardinality(1..h[k]) = Cardinality(1..k)
  <2>1. IsFiniteSet(1..k) /\ ExistsBijection(1..k, 1..h[k])
    BY <1>1, <1>6, FS_Interval DEF ExistsBijection
  <2> QED BY <2>1, FS_Bijection
<1>8. Cardinality(1..k) = k /\ Cardinality(1..h[k]) = h[k]
  <2>1. 1 \in Int /\ k \in Int /\ h[k] \in Int /\ ~(1 > k) /\ ~(1 > h[k])
    BY <1>1
  <2>2. Cardinality(1..k) = k - 1 + 1 /\ Cardinality(1..h[k]) = h[k] - 1 + 1
    BY <2>1, FS_Interval
  <2> QED BY <2>1, <2>2
<1> QED BY <1>7, <1>8

(* Rows that begin the search's accounts, without those the server has no
   more, are a prefix of them, and all when no page follows. *)
LEMMA BeginsIsPrefix ==
    ASSUME Tables, NEW rows \in Seq(Rows), NEW next, NEW of, Begins(rows, next, db, of),
           NEW ids, ids = [i \in DOMAIN rows |-> rows[i].id],
           NEW listed, listed = Select(ids, ToSet(db)), NEW all, all = Select(db, of)
    PROVE  IsPrefix(listed, all) /\ (next = None => listed = all)
<1> DEFINE m == Len(listed)
           n == Len(all)
<1>1. /\ Len(db) \in Nat /\ DOMAIN db = 1..Len(db)
      /\ \A p \in 1..Len(db) : db[p] \in Users /\ db[p] \in ToSet(db)
      /\ \A v \in ToSet(db) : v \in Users /\ \E p \in 1..Len(db) : v = db[p]
      /\ \A p, q \in 1..Len(db) : db[p] = db[q] => p = q
      /\ \A p, q \in 1..Len(db) : Before(db, db[p], db[q]) <=> p < q
  BY DbFacts
<1>2. DOMAIN rows = 1..Len(rows) /\ Len(rows) \in Nat /\ \A i \in 1..Len(rows) : rows[i] \in Rows
  BY LenProperties, ElementOfSeq
<1>3. ids \in Seq(Users) /\ DOMAIN ids = DOMAIN rows /\ \A i \in DOMAIN rows : ids[i] = rows[i].id
  <2>1. ids \in [1..Len(rows) -> Users]
    BY <1>2 DEF Rows
  <2>2. ids \in Seq(Users)
    BY <1>2, <2>1, SeqDef
  <2> QED BY <2>2
<1>4. listed \in Seq(Users \cap ToSet(db)) /\ \E f : SelectedBy(f, ids, ToSet(db))
  BY <1>3, Selected
<1>5. all \in Seq(Users \cap of) /\ \E f : SelectedBy(f, db, of)
  BY Selected DEF Tables
<1>6. m \in Nat /\ n \in Nat /\ DOMAIN listed = 1..m /\ DOMAIN all = 1..n
  BY <1>4, <1>5, LenProperties
<1>7. PICK f : Enumerates(f, m, {i \in DOMAIN ids : ids[i] \in ToSet(db)}) /\ \A k \in 1..m : listed[k] = ids[f[k]]
  BY <1>4 DEF SelectedBy
<1>8. PICK e : Enumerates(e, n, {p \in DOMAIN db : db[p] \in of}) /\ \A j \in 1..n : all[j] = db[e[j]]
  BY <1>5 DEF SelectedBy
<1> HIDE DEF m, n
<1>9. /\ \A k \in 1..m : f[k] \in DOMAIN rows /\ listed[k] = rows[f[k]].id /\ listed[k] \in ToSet(db)
      /\ \A k, l \in 1..m : k < l => f[k] < f[l]
      /\ \A i \in DOMAIN rows : rows[i].id \in ToSet(db) => \E k \in 1..m : f[k] = i
  BY <1>3, <1>7 DEF Enumerates
<1>10. /\ \A j \in 1..n : e[j] \in 1..Len(db) /\ all[j] = db[e[j]] /\ all[j] \in of
       /\ \A j, l \in 1..n : j < l => e[j] < e[l]
       /\ \A p \in 1..Len(db) : db[p] \in of => \E j \in 1..n : e[j] = p
  BY <1>1, <1>8 DEF Enumerates
<1>11. \A j \in 1..n : all[j] \in Found(db, of)
  BY <1>1, <1>10 DEF Found
<1>12. \A v : In(rows, v) /\ v \in ToSet(db) => \E k \in 1..m : listed[k] = v
  <2> SUFFICES ASSUME NEW v, In(rows, v), v \in ToSet(db) PROVE \E k \in 1..m : listed[k] = v
    OBVIOUS
  <2>1. PICK i \in DOMAIN rows : rows[i].id = v
    BY DEF In
  <2>2. PICK k \in 1..m : f[k] = i
    BY <1>9, <2>1
  <2> QED BY <1>9, <2>1, <2>2
<1>13. \A j, l \in 1..n : Before(db, all[j], all[l]) <=> j < l
  <2> SUFFICES ASSUME NEW j \in 1..n, NEW l \in 1..n
               PROVE  Before(db, db[e[j]], db[e[l]]) <=> j < l
    BY <1>10
  <2>1. Before(db, db[e[j]], db[e[l]]) <=> e[j] < e[l]
    BY <1>1, <1>10
  <2>2. e[j] \in Int /\ e[l] \in Int /\ j \in Int /\ l \in Int
    BY <1>1, <1>6, <1>10
  <2>3. e[j] < e[l] => j < l
    BY <1>10, <2>2
  <2> QED BY <1>10, <2>1, <2>3
<1>14. \A j, l \in 1..n : all[j] = all[l] => j = l
  <2> SUFFICES ASSUME NEW j \in 1..n, NEW l \in 1..n, all[j] = all[l] PROVE j = l
    OBVIOUS
  <2>1. ~(j < l) /\ ~(l < j)
    <3>1. /\ j < l <=> Before(db, all[j], all[j])
          /\ l < j <=> Before(db, all[j], all[j])
          /\ j < j <=> Before(db, all[j], all[j])
      BY <1>13
    <3> QED BY <1>6, <3>1
  <2> QED BY <1>6, <2>1
<1> DEFINE h == [k \in 1..m |-> CHOOSE j \in 1..n : all[j] = listed[k]]
<1>15. ASSUME NEW k \in 1..m PROVE h[k] \in 1..n /\ all[h[k]] = listed[k]
  <2>1. listed[k] \in ToSet(db) /\ listed[k] \in of
    BY <1>9 DEF Begins
  <2>2. PICK p \in 1..Len(db) : listed[k] = db[p]
    BY <1>1, <2>1
  <2>3. PICK j \in 1..n : e[j] = p
    BY <1>10, <2>1, <2>2
  <2>4. all[j] = listed[k]
    BY <1>10, <2>2, <2>3
  <2> QED BY <2>4
<1>16. h \in [1..m -> 1..n]
  BY <1>15
<1> HIDE DEF h
<1>17. ASSUME NEW k \in 1..m, NEW l \in 1..m, k < l PROVE h[k] < h[l]
  <2>1. f[k] < f[l] /\ f[k] \in DOMAIN rows /\ f[l] \in DOMAIN rows
    BY <1>9, <1>17
  <2>2. Before(db, listed[k], listed[l])
    BY <1>9, <2>1 DEF Begins
  <2> QED BY <1>13, <1>15, <2>2
<1>18. ASSUME NEW k \in 1..m, NEW j \in 1..n, j < h[k] PROVE \E l \in 1..m : h[l] = j
  <2>1. Before(db, all[j], listed[k]) /\ all[j] \in Found(db, of)
    BY <1>11, <1>13, <1>15, <1>18
  <2>2. In(rows, all[j])
    BY <1>9, <2>1 DEF Begins
  <2>3. PICK l \in 1..m : listed[l] = all[j]
    BY <1>12, <2>1, <2>2 DEF Found
  <2>4. h[l] = j
    BY <1>14, <1>15, <2>3
  <2> QED BY <2>4
<1>19. \A k \in 1..m : h[k] = k
  <2>1. \A k, l \in 1..m : k < l => h[k] < h[l]
    BY <1>17
  <2>2. \A k \in 1..m, j \in 1..n : j < h[k] => \E l \in 1..m : h[l] = j
    BY <1>18
  <2>3. Numbers(h, m, n)
    BY <1>16, <2>1, <2>2 DEF Numbers
  <2> QED BY <1>6, <2>3, NumberingIsIdentity
<1>20. \A k \in 1..m : k \in 1..n /\ listed[k] = all[k]
  BY <1>15, <1>19
<1>21. m <= n
  <2>1. CASE m = 0
    BY <1>6, <2>1
  <2>2. CASE m # 0
    <3>1. m \in 1..m
      BY <1>6, <2>2
    <3> QED BY <1>6, <1>20, <3>1
  <2> QED BY <2>1, <2>2
<1>22. listed \in Seq(Users) /\ all \in Seq(Users)
  <2>1. listed \in [1..m -> Users \cap ToSet(db)] /\ all \in [1..n -> Users \cap of]
    BY <1>4, <1>5, LenProperties DEF m, n
  <2>2. listed \in [1..m -> Users] /\ all \in [1..n -> Users]
    BY <2>1
  <2> QED BY <1>6, <2>2, SeqDef
<1>23. SubSeq(listed, 1, m) = SubSeq(all, 1, m)
  <2>1. /\ SubSeq(listed, 1, m) \in Seq(Users) /\ Len(SubSeq(listed, 1, m)) = IF 1 <= m THEN m - 1 + 1 ELSE 0
        /\ \A i \in 1..m - 1 + 1 : SubSeq(listed, 1, m)[i] = listed[1 + i - 1]
    <3>1. \A i \in 1..m : listed[i] \in Users
      BY <1>22, ElementOfSeq DEF m
    <3> QED BY <1>6, <3>1, SubSeqProperties
  <2>2. /\ SubSeq(all, 1, m) \in Seq(Users) /\ Len(SubSeq(all, 1, m)) = IF 1 <= m THEN m - 1 + 1 ELSE 0
        /\ \A i \in 1..m - 1 + 1 : SubSeq(all, 1, m)[i] = all[1 + i - 1]
    <3>1. \A i \in 1..n : all[i] \in Users
      BY <1>22, ElementOfSeq DEF n
    <3>2. \A i \in 1..m : all[i] \in Users
      BY <1>20, <3>1
    <3> QED BY <1>6, <3>2, SubSeqProperties
  <2>3. Len(SubSeq(listed, 1, m)) = m /\ Len(SubSeq(all, 1, m)) = m
    BY <1>6, <2>1, <2>2
  <2>4. ASSUME NEW i \in 1..m PROVE SubSeq(listed, 1, m)[i] = SubSeq(all, 1, m)[i]
    <3>1. i \in 1..m - 1 + 1 /\ 1 + i - 1 = i
      BY <1>6
    <3> QED BY <1>20, <2>1, <2>2, <3>1
  <2> QED BY <2>1, <2>2, <2>3, <2>4, SeqEqual
<1>24. IsPrefix(listed, all)
  BY <1>21, <1>23 DEF IsPrefix, m, n
<1>25. ASSUME next = None PROVE listed = all
  <2>1. n <= m
    <3>1. CASE n = 0
      BY <1>6, <3>1
    <3>2. CASE n # 0
      <4>1. n \in 1..n
        BY <1>6, <3>2
      <4>2. In(rows, all[n]) /\ all[n] \in ToSet(db)
        BY <1>11, <1>25, <4>1 DEF Begins, Found
      <4>3. PICK k \in 1..m : listed[k] = all[n]
        BY <1>12, <4>2
      <4>4. k = n
        BY <1>14, <1>20, <4>1, <4>3
      <4> QED BY <4>3, <4>4
    <3> QED BY <3>1, <3>2
  <2>2. m = n
    BY <1>6, <1>21, <2>1
  <2>3. \A i \in 1..Len(listed) : listed[i] = all[i]
    BY <1>20 DEF m
  <2>4. Len(listed) = Len(all)
    BY <2>2 DEF m, n
  <2> QED BY <1>22, <2>3, <2>4, SeqEqual
<1> QED BY <1>24, <1>25

-----------------------------------------------------------------------------
(* What steps do to handlers. *)

(* Only the place differs. *)
Like(t, u) ==
    /\ t.kind = u.kind /\ t.step = u.step /\ t.user = u.user /\ t.field = u.field
    /\ t.to = u.to /\ t.agreed = u.agreed /\ t.search = u.search

(* The handlers not in S change at most their place. *)
AllLike(S) ==
    /\ handler' \in [Handlers -> Tasks \cup {Idle}]
    /\ \A h \in Handlers \ S : Like(handler'[h], handler[h])

LEMMA TaskFields ==
    ASSUME TypeOK, NEW h \in Handlers
    PROVE  /\ handler[h] \in Tasks \cup {Idle}
           /\ Busy(h) => handler[h] \in Tasks
           /\ ~Busy(h) => handler[h] = Idle
           /\ handler[h] # Idle => Busy(h)
<1>1. \A t \in Tasks : t.kind # "idle"
  BY DEF Tasks
<1>2. Idle.kind = "idle"
  BY DEF Idle
<1>3. handler[h] \in Tasks \cup {Idle}
  BY DEF TypeOK
<1> QED BY <1>1, <1>2, <1>3 DEF Busy

LEMMA LeaveLike ==
    ASSUME TypeOK, NEW place \in {"edit", "create"}
    PROVE  /\ Leave(place) \in [Handlers -> Tasks \cup {Idle}]
           /\ \A h \in Handlers : Like(Leave(place)[h], handler[h])
<1>1. ASSUME NEW h \in Handlers, h \in InPlace(place)
      PROVE  /\ [handler[h] EXCEPT !.place = "gone"] \in Tasks
             /\ Like([handler[h] EXCEPT !.place = "gone"], handler[h])
  <2>1. handler[h] \in Tasks
    BY <1>1, TaskFields DEF InPlace
  <2> QED BY <2>1 DEF Tasks, Like
<1>2. ASSUME NEW h \in Handlers PROVE handler[h] \in Tasks \cup {Idle} /\ Like(handler[h], handler[h])
  BY TaskFields DEF Like
<1> QED BY <1>1, <1>2 DEF Leave

LEMMA RerenderedLike ==
    ASSUME TypeOK, NEW rows
    PROVE  /\ Rerendered(rows) \in [Handlers -> Tasks \cup {Idle}]
           /\ \A h \in Handlers : Like(Rerendered(rows)[h], handler[h])
<1>1. \A h \in Handlers : Like(handler[h], handler[h])
  BY DEF Like
<1> QED BY <1>1, LeaveLike DEF Rerendered, TypeOK

(* The steps of the page leave the server and the handlers alone. *)
PageStep ==
    \/ \E s \in Searches : TypeSearch(s)
    \/ TimerFires \/ Reload \/ LoadMore
    \/ \E i \in DOMAIN loads : LoadServed(i) \/ \E ok \in BOOLEAN : LoadEnds(i, ok)

LEMMA PageEffect ==
    ASSUME TypeOK, PageStep
    PROVE  AllLike({}) /\ UNCHANGED <<db, row, known, editing, creating, confirming, clicks, raced>>
<1> USE DEF server, dialogs, history
<1>1. handler \in [Handlers -> Tasks \cup {Idle}] /\ \A h \in Handlers : Like(handler[h], handler[h])
  BY DEF TypeOK, Like
<1>2. ASSUME NEW s \in Searches, TypeSearch(s)
      PROVE  UNCHANGED <<db, row, known, editing, creating, confirming, clicks, raced, handler>>
  BY <1>2 DEF TypeSearch
<1>3. ASSUME TimerFires \/ Reload \/ LoadMore
      PROVE  UNCHANGED <<db, row, known, editing, creating, confirming, clicks, raced, handler>>
  BY <1>3 DEF TimerFires, Reload, LoadMore
<1>4. ASSUME NEW i \in DOMAIN loads, LoadServed(i)
      PROVE  UNCHANGED <<db, row, known, editing, creating, confirming, clicks, raced, handler>>
  BY <1>4 DEF LoadServed
<1>5. ASSUME NEW i \in DOMAIN loads, NEW ok \in BOOLEAN, LoadEnds(i, ok)
      PROVE  /\ UNCHANGED <<db, row, known, editing, creating, confirming, clicks, raced>>
             /\ handler' = Rerendered(users')
  BY <1>5 DEF LoadEnds
<1> QED BY <1>1, <1>2, <1>3, <1>4, <1>5, RerenderedLike DEF PageStep, AllLike

(* A click or an answer to a question leaves server and page alone, and no
   handler it changes has been served. *)
Talks(h) ==
    /\ ~Done(h) /\ handler'[h] \in Tasks \cup {Idle}
    /\ handler'[h].kind # "idle" => handler'[h].step # "served"
    /\ KnownTask(handler'[h]) /\ Consented(handler'[h])
Asked ==
    /\ confirming' \in Handlers \cup {None}
    /\ confirming' # None => handler'[confirming'].kind # "idle" /\ handler'[confirming'].step = "ask"
Talk ==
    /\ UNCHANGED <<db, row, known, users, cursor, loading, loadingMore, search, timer, loads, asked, raced, behind>>
    /\ handler' \in [Handlers -> Tasks \cup {Idle}]
    /\ \A h \in Handlers : Like(handler'[h], handler[h]) \/ Talks(h)
    /\ Asked /\ editing' \in Users \cup {None} /\ creating' \in BOOLEAN /\ clicks' \in 0..MaxClicks

LEMMA StartEffect ==
    ASSUME TypeOK, Kept, NEW h \in Handlers, NEW kind \in {"update", "delete", "create"}, NEW step \in {"ask", "send"},
           NEW u, u \in IF kind = "create" THEN {None} ELSE known, NEW field \in Fields, NEW to \in BOOLEAN,
           NEW place \in {"table", "edit", "create"},
           step = "ask" \/ kind = "create" \/ (kind = "update" /\ field = "coins"),
           Start(h, kind, step, u, field, to, place)
    PROVE  Talk
<1> DEFINE t == [kind |-> kind, step |-> step, user |-> u, field |-> field,
                 to |-> to, agreed |-> FALSE,
                 search |-> IF kind = "create" THEN search ELSE Users, place |-> place]
<1>1. /\ handler[h] = Idle /\ clicks < MaxClicks /\ clicks' = clicks + 1
      /\ handler' = [handler EXCEPT ![h] = t]
      /\ confirming' = IF step = "ask" THEN h ELSE confirming
      /\ UNCHANGED <<server, page, editing, creating, history>>
  BY DEF Start
<1>2. t \in Tasks
  BY UsersAssumption DEF Tasks, TypeOK
<1>3. /\ handler' \in [Handlers -> Tasks \cup {Idle}]
      /\ handler'[h] = t /\ \A g \in Handlers \ {h} : handler'[g] = handler[g]
  BY <1>1, <1>2 DEF TypeOK
<1>4. t.kind = kind /\ t.step = step /\ t.user = u /\ t.field = field
  OBVIOUS
<1> HIDE DEF t
<1>5. Talks(h)
  <2>1. ~Done(h)
    BY <1>1 DEF Done, Busy, Idle
  <2>2. Consented(t) /\ KnownTask(t)
    BY <1>4 DEF Consented, NeedsConsent, KnownTask
  <2> QED BY <1>2, <1>3, <1>4, <2>1, <2>2 DEF Talks
<1>6. \A g \in Handlers : Like(handler'[g], handler[g]) \/ Talks(g)
  BY <1>3, <1>5 DEF Like
<1>7. Asked
  <2>1. confirming \in Handlers \cup {None} /\ None \notin Handlers
    BY UsersAssumption DEF Kept
  <2>2. CASE step = "ask"
    BY <1>1, <1>2, <1>3, <1>4, <2>2 DEF Asked, Tasks
  <2>3. CASE step # "ask"
    <3>1. confirming' = confirming
      BY <1>1, <2>3
    <3>2. confirming # None => confirming # h
      BY <1>1 DEF TypeOK, Idle
    <3> QED BY <1>3, <2>1, <3>1, <3>2 DEF Asked, TypeOK
  <2> QED BY <2>2, <2>3
<1>8. clicks' \in 0..MaxClicks /\ editing' \in Users \cup {None} /\ creating' \in BOOLEAN
  BY <1>1, UsersAssumption DEF TypeOK
<1> QED BY <1>1, <1>3, <1>6, <1>7, <1>8 DEF Talk, server, page, history

LEMMA ListedKnown ==
    ASSUME TypeOK, Known, NEW u \in Listed
    PROVE  u \in known /\ u \in Users /\ u # None
<1>1. u \in known
  BY DEF Known, KnownPage, KnownRows, Listed
<1> QED BY <1>1, UsersAssumption DEF TypeOK

LEMMA ClickTalk ==
    ASSUME TypeOK, Kept, Known, NEW h \in Handlers, Click(h)
    PROVE  Talk
<1>1. "isBanned" \in Fields /\ \A b : (~b) \in BOOLEAN
  BY UsersAssumption
<1>2. ASSUME NEW u \in Users, ToggleBan(h, u) PROVE Talk
  <2>1. u \in Listed /\ Start(h, "update", "ask", u, "isBanned", ~users[Shown(u)].data.isBanned, "table")
    BY <1>2 DEF ToggleBan
  <2>2. PICK to \in BOOLEAN : Start(h, "update", "ask", u, "isBanned", to, "table")
    BY <1>1, <2>1
  <2> QED BY <1>1, <2>1, <2>2, ListedKnown, StartEffect
<1>3. ASSUME NEW u \in Users, DeleteUser(h, u) PROVE Talk
  <2>1. u \in Listed /\ Start(h, "delete", "ask", u, "isBanned", FALSE, "table")
    BY <1>3 DEF DeleteUser
  <2> QED BY <1>1, <2>1, ListedKnown, StartEffect
<1>4. ASSUME SaveCoins(h) PROVE Talk
  <2>1. /\ "coins" \in Fields /\ editing \in Listed
        /\ Start(h, "update", "send", editing, "coins", ~users[Shown(editing)].data.coins, "edit")
    BY <1>4 DEF SaveCoins, EditShown
  <2>2. PICK to \in BOOLEAN : Start(h, "update", "send", editing, "coins", to, "edit")
    BY <1>1, <2>1
  <2> QED BY <2>1, <2>2, ListedKnown, StartEffect
<1>5. ASSUME NEW field \in Fields \ {"coins"}, ChangeField(h, field) PROVE Talk
  <2>1. /\ editing \in Listed
        /\ Start(h, "update", "ask", editing, field, ~users[Shown(editing)].data[field], "edit")
    BY <1>5 DEF ChangeField, EditShown
  <2>2. PICK to \in BOOLEAN : Start(h, "update", "ask", editing, field, to, "edit")
    BY <1>1, <2>1
  <2> QED BY <2>1, <2>2, ListedKnown, StartEffect
<1>6. ASSUME SubmitCreate(h) PROVE Talk
  <2>1. Start(h, "create", "send", None, "isBanned", FALSE, "create")
    BY <1>6 DEF SubmitCreate
  <2> QED BY <1>1, <2>1, StartEffect
<1> QED BY <1>2, <1>3, <1>4, <1>5, <1>6 DEF Click

(* An answer to the question, or its dismissal: the handler asking goes on or
   ends. *)
LEMMA SettledTalk ==
    ASSUME TypeOK, Kept, Known, confirming # None,
           NEW t, t = Idle \/ t = [handler[confirming] EXCEPT !.step = "send", !.agreed = TRUE],
           handler' \in [Handlers -> Tasks \cup {Idle}], handler'[confirming] = t,
           \A h \in Handlers \ {confirming} : Like(handler'[h], handler[h]),
           confirming' = None, editing' \in {editing, None}, UNCHANGED <<server, page, creating, clicks, history>>
    PROVE  Talk
<1>1. /\ confirming \in Handlers /\ handler[confirming].kind # "idle" /\ handler[confirming].step = "ask"
      /\ handler[confirming] \in Tasks
  BY TaskFields DEF TypeOK, Kept, Busy
<1>2. Talks(confirming)
  <2>1. ~Done(confirming)
    BY <1>1 DEF Done
  <2>2. CASE t = Idle
    BY <1>1, <2>1, <2>2 DEF Talks, Consented, NeedsConsent, KnownTask, Idle
  <2>3. CASE t = [handler[confirming] EXCEPT !.step = "send", !.agreed = TRUE]
    <3>1. /\ t \in Tasks /\ t.step = "send" /\ t.agreed
          /\ t.kind = handler[confirming].kind /\ t.user = handler[confirming].user
      BY <1>1, <2>3 DEF Tasks
    <3>2. KnownTask(t)
      BY <1>1, <3>1 DEF Known, KnownTasks, KnownTask
    <3> QED BY <2>1, <3>1, <3>2 DEF Talks, Consented
  <2> QED BY <2>2, <2>3
<1>3. Asked
  BY DEF Asked
<1> QED BY <1>2, <1>3 DEF Talk, server, page, history, TypeOK

LEMMA DialogsTalk ==
    ASSUME TypeOK, Kept, Known, Dialogs \/ UNCHANGED vars
    PROVE  Talk
<1>1. confirming \in Handlers \cup {None}
  BY DEF Kept
<1>2. ASSUME UNCHANGED <<server, page, confirming, clicks, history>>,
             editing' \in Users \cup {None}, creating' \in BOOLEAN,
             handler' \in [Handlers -> Tasks \cup {Idle}], \A h \in Handlers : Like(handler'[h], handler[h])
      PROVE  Talk
  <2>1. Asked
    BY <1>1, <1>2 DEF Asked, TypeOK, Like
  <2> QED BY <1>2, <2>1 DEF Talk, TypeOK, server, page, history
<1>3. handler \in [Handlers -> Tasks \cup {Idle}] /\ \A h \in Handlers : Like(handler[h], handler[h])
  BY DEF TypeOK, Like
<1>4. editing \in Users \cup {None} /\ creating \in BOOLEAN
  BY DEF TypeOK
<1>5. ASSUME NEW u \in Users, OpenEdit(u) PROVE Talk
  <2>1. UNCHANGED <<server, page, confirming, clicks, history, handler, creating>> /\ editing' = u
    BY <1>5 DEF OpenEdit
  <2> QED BY <1>2, <1>3, <1>4, <2>1
<1>6. ASSUME OpenCreate PROVE Talk
  <2>1. UNCHANGED <<server, page, confirming, clicks, history, handler, editing>> /\ creating' = TRUE
    BY <1>6 DEF OpenCreate
  <2> QED BY <1>2, <1>3, <1>4, <2>1
<1>7. ASSUME CloseEdit PROVE Talk
  <2>1. UNCHANGED <<server, page, confirming, clicks, history, creating>> /\ editing' = None /\ handler' = Leave("edit")
    BY <1>7 DEF CloseEdit
  <2> QED BY <1>2, <1>4, <2>1, LeaveLike
<1>8. ASSUME CloseCreate PROVE Talk
  <2>1. /\ UNCHANGED <<server, page, confirming, clicks, history, editing>>
        /\ creating' = FALSE /\ handler' = Leave("create")
    BY <1>8 DEF CloseCreate
  <2> QED BY <1>2, <1>4, <2>1, LeaveLike
<1>9. ASSUME UNCHANGED vars PROVE Talk
  <2>1. UNCHANGED <<server, page, confirming, clicks, history, handler, editing, creating>>
    BY <1>9 DEF vars, dialogs
  <2> QED BY <1>2, <1>3, <1>4, <2>1
<1>10. ASSUME confirming # None
       PROVE  /\ confirming \in Handlers /\ handler[confirming] \in Tasks
              /\ [handler[confirming] EXCEPT !.step = "send", !.agreed = TRUE] \in Tasks
  <2>1. confirming \in Handlers /\ handler[confirming] \in Tasks
    BY <1>1, <1>10, TaskFields DEF TypeOK, Busy
  <2> QED BY <2>1 DEF Tasks
<1>11. ASSUME NEW ok \in BOOLEAN, Settle(ok) PROVE Talk
  <2> DEFINE t == IF ok THEN [handler[confirming] EXCEPT !.step = "send", !.agreed = TRUE] ELSE Idle
  <2>1. /\ confirming # None /\ confirming' = None /\ UNCHANGED <<server, page, editing, creating, clicks, history>>
    BY <1>11 DEF Settle, history
  <2>2. confirming \in Handlers /\ t \in Tasks \cup {Idle}
    BY <1>10, <2>1
  <2>3. handler' = [handler EXCEPT ![confirming] = t]
    BY <1>11, <2>2 DEF Settle
  <2>4. t = Idle \/ t = [handler[confirming] EXCEPT !.step = "send", !.agreed = TRUE]
    OBVIOUS
  <2> HIDE DEF t
  <2>5. /\ handler' \in [Handlers -> Tasks \cup {Idle}] /\ handler'[confirming] = t
        /\ \A h \in Handlers \ {confirming} : Like(handler'[h], handler[h])
    BY <1>3, <2>2, <2>3
  <2> QED BY <2>1, <2>4, <2>5, SettledTalk
<1>12. ASSUME Escape PROVE Talk
  <2>1. /\ confirming # None /\ confirming' = None /\ editing' = None
        /\ UNCHANGED <<server, page, creating, clicks, history>>
        /\ handler' = [Leave("edit") EXCEPT ![confirming] = Idle]
    BY <1>12 DEF Escape
  <2>2. confirming \in Handlers
    BY <1>10, <2>1
  <2>3. /\ handler' \in [Handlers -> Tasks \cup {Idle}] /\ handler'[confirming] = Idle
        /\ \A h \in Handlers \ {confirming} : Like(handler'[h], handler[h])
    BY <2>1, <2>2, LeaveLike
  <2> QED BY <2>1, <2>3, SettledTalk
<1> QED BY <1>5, <1>6, <1>7, <1>8, <1>9, <1>11, <1>12 DEF Dialogs

(* What the server and a handler do with its request, and how handlers end. *)
LEMMA ServedEffect ==
    ASSUME TypeOK, NEW h \in Handlers, Served(h)
    PROVE  /\ AllLike({h}) /\ handler[h] \in Tasks /\ Busy(h) /\ handler[h].step = "send"
           /\ handler'[h] = [handler[h] EXCEPT !.step = "served"]
           /\ Updated(handler[h]) \/ Deleted(handler[h]) \/ Created(handler[h])
           /\ raced' = IF handler[h].user # None /\ Overlapped(h) THEN raced \cup {handler[h].user} ELSE raced
           /\ UNCHANGED <<page, dialogs, clicks, behind>>
<1>1. /\ Busy(h) /\ handler[h].step = "send"
      /\ Updated(handler[h]) \/ Deleted(handler[h]) \/ Created(handler[h])
      /\ handler' = [handler EXCEPT ![h].step = "served"]
      /\ raced' = IF handler[h].user # None /\ Overlapped(h) THEN raced \cup {handler[h].user} ELSE raced
      /\ UNCHANGED <<page, dialogs, clicks, behind>>
  BY DEF Served, Busy
<1>2. handler[h] \in Tasks /\ handler \in [Handlers -> Tasks \cup {Idle}]
  BY <1>1, TaskFields DEF TypeOK
<1>3. [handler[h] EXCEPT !.step = "served"] \in Tasks
  BY <1>2 DEF Tasks
<1>4. handler'[h] = [handler[h] EXCEPT !.step = "served"] /\ \A g \in Handlers \ {h} : handler'[g] = handler[g]
  BY <1>1, <1>2
<1>5. handler' \in [Handlers -> Tasks \cup {Idle}]
  BY <1>1, <1>2, <1>3
<1>6. AllLike({h})
  BY <1>4, <1>5 DEF AllLike, Like
<1> QED BY <1>1, <1>2, <1>4, <1>6

LEMMA EndEffect ==
    ASSUME TypeOK, NEW h \in Handlers, Answered(h) \/ Failed(h)
    PROVE  /\ AllLike({h}) /\ handler'[h] = Idle /\ handler[h] \in Tasks /\ Busy(h) /\ handler[h].step # "ask"
           /\ creating' \in BOOLEAN /\ UNCHANGED <<db, row, known, search, timer, editing, confirming, clicks>>
<1>1. ASSUME NEW hs \in [Handlers -> Tasks \cup {Idle}], \A g \in Handlers : Like(hs[g], handler[g]),
             handler' = [hs EXCEPT ![h] = Idle]
      PROVE  AllLike({h}) /\ handler'[h] = Idle
  BY <1>1 DEF AllLike
<1>2. CASE Answered(h)
  <2>1. /\ Busy(h) /\ handler[h].step = "served"
        /\ creating' \in {creating, FALSE}
        /\ UNCHANGED <<db, row, known, search, timer, editing, confirming, clicks>>
    BY <1>2 DEF Answered, server, Busy
  <2>2. \/ handler' = [Leave("create") EXCEPT ![h] = Idle]
        \/ \E rows : handler' = [Rerendered(rows) EXCEPT ![h] = Idle]
    BY <1>2 DEF Answered
  <2>3. AllLike({h}) /\ handler'[h] = Idle
    BY <1>1, <2>2, LeaveLike, RerenderedLike
  <2> QED BY <2>1, <2>3, TaskFields DEF TypeOK
<1>3. CASE Failed(h)
  <2>1. /\ Busy(h) /\ handler[h].step # "ask" /\ handler' = [handler EXCEPT ![h] = Idle]
        /\ UNCHANGED <<db, row, known, search, timer, editing, creating, confirming, clicks>>
    BY <1>3 DEF Failed, server, dialogs, Busy
  <2>2. handler \in [Handlers -> Tasks \cup {Idle}] /\ \A g \in Handlers : Like(handler[g], handler[g])
    BY DEF TypeOK, Like
  <2> QED BY <1>1, <2>1, <2>2, TaskFields DEF TypeOK
<1> QED BY <1>2, <1>3

-----------------------------------------------------------------------------
(* What steps do to the requests for pages. *)

LoadsTyped ==
    /\ loads \in Seq(Loads)
    /\ \A i \in DOMAIN loads :
           /\ loads[i].got # None => Len(loads[i].got.items) <= PageSize
           /\ loads[i].replace <=> loads[i].after = None
    /\ \A i, j \in DOMAIN loads : loads[i].fresh /\ loads[j].fresh => i = j

LEMMA LoadsFacts ==
    ASSUME TypeOK, Kept
    PROVE  /\ LoadsTyped /\ Len(loads) \in Nat /\ DOMAIN loads = 1..Len(loads)
           /\ \A i \in DOMAIN loads : loads[i] \in Loads
           /\ \A i \in DOMAIN loads : loads[i].got # None => loads[i].got \in Answers
<1>1. /\ loads \in Seq(Loads) /\ Len(loads) \in Nat /\ DOMAIN loads = 1..Len(loads)
      /\ \A i \in DOMAIN loads : loads[i] \in Loads
  BY LenProperties, ElementOfSeq DEF Kept
<1>2. \A i \in DOMAIN loads : loads[i].got # None => loads[i].got \in Answers
  BY <1>1 DEF Loads
<1> QED BY <1>1, <1>2 DEF LoadsTyped, TypeOK, Kept

(* Each request of ls is one of loads, as it was or not fresh any more. *)
Descends(l, o) ==
    /\ l \in Loads /\ l.after = o.after /\ l.replace = o.replace /\ l.search = o.search
    /\ l.got = o.got /\ (l.fresh => o.fresh)

LEMMA LoadEffect ==
    ASSUME TypeOK, Kept, NEW after \in Users \cup {None}, NEW replace \in BOOLEAN, NEW of \in Searches,
           replace <=> after = None, Load(after, replace, of)
    PROVE  /\ LoadsTyped' /\ UNCHANGED <<users, cursor>>
           /\ asked' \in 0..MaxAsked /\ loading' \in BOOLEAN /\ loadingMore' \in BOOLEAN
           /\ \E n : /\ DOMAIN loads' = DOMAIN loads \cup {n} /\ n \notin DOMAIN loads
                     /\ loads'[n] = Request(after, replace, of)
                     /\ \A i \in DOMAIN loads : Descends(loads'[i], loads[i]) /\ ~loads'[i].fresh
<1> DEFINE old == [i \in DOMAIN loads |-> [loads[i] EXCEPT !.fresh = FALSE]]
           n == Len(loads) + 1
           l == Request(after, replace, of)
<1>1. /\ loads' = Append(old, l) /\ asked' = asked + 1 /\ asked < MaxAsked /\ UNCHANGED <<users, cursor>>
      /\ loading' = (loading \/ replace) /\ loadingMore' = (loadingMore \/ ~replace)
  BY DEF Load
<1>2. asked' \in 0..MaxAsked /\ loading' \in BOOLEAN /\ loadingMore' \in BOOLEAN
  BY <1>1, UsersAssumption DEF TypeOK
<1>3. LoadsTyped /\ Len(loads) \in Nat /\ DOMAIN loads = 1..Len(loads) /\ \A i \in DOMAIN loads : loads[i] \in Loads
  BY LoadsFacts
<1>4. \A i \in DOMAIN loads : old[i] = [loads[i] EXCEPT !.fresh = FALSE] /\ Descends(old[i], loads[i]) /\ ~old[i].fresh
  BY <1>3 DEF Loads, Descends
<1>5. old \in [1..Len(loads) -> Loads]
  BY <1>3, <1>4 DEF Descends
<1>6. old \in Seq(Loads) /\ Len(old) = Len(loads)
  <2>1. old \in Seq(Loads) /\ DOMAIN old = 1..Len(loads)
    BY <1>3, <1>5, SeqDef
  <2> HIDE DEF old
  <2> QED BY <1>3, <2>1, LenProperties
<1>7. l \in Loads /\ l.got = None /\ l.after = after /\ l.replace = replace
  BY DEF Request, Loads
<1> HIDE DEF old, l
<1>8. /\ loads' \in Seq(Loads) /\ DOMAIN loads' = 1..n /\ loads'[n] = l
      /\ \A i \in 1..Len(loads) : loads'[i] = old[i]
  <2>1. /\ Append(old, l) \in Seq(Loads) /\ Len(Append(old, l)) = n /\ Append(old, l)[n] = l
        /\ \A i \in 1..Len(loads) : Append(old, l)[i] = old[i]
    BY <1>6, <1>7, AppendProperties
  <2> QED BY <1>1, <2>1, LenProperties
<1>9. DOMAIN loads' = DOMAIN loads \cup {n} /\ n \notin DOMAIN loads
  BY <1>3, <1>8
<1>10. \A i \in DOMAIN loads : Descends(loads'[i], loads[i]) /\ ~loads'[i].fresh
  BY <1>3, <1>4, <1>8
<1> HIDE DEF n
<1>11. LoadsTyped'
  <2>1. ASSUME NEW i \in DOMAIN loads'
        PROVE  /\ loads'[i].got # None => Len(loads'[i].got.items) <= PageSize
               /\ loads'[i].replace <=> loads'[i].after = None
    <3>1. CASE i = n
      BY <1>7, <1>8, <3>1
    <3>2. CASE i \in DOMAIN loads
      BY <1>3, <1>10, <3>2 DEF Descends, LoadsTyped
    <3> QED BY <1>9, <3>1, <3>2
  <2>2. ASSUME NEW i \in DOMAIN loads', NEW j \in DOMAIN loads', loads'[i].fresh, loads'[j].fresh PROVE i = j
    BY <1>9, <1>10, <2>2
  <2> QED BY <1>8, <2>1, <2>2 DEF LoadsTyped
<1> QED BY <1>1, <1>2, <1>8, <1>9, <1>10, <1>11 DEF l

LEMMA LoadServedEffect ==
    ASSUME TypeOK, Kept, NEW i \in DOMAIN loads, LoadServed(i)
    PROVE  /\ LoadsTyped' /\ DOMAIN loads' = DOMAIN loads /\ loads[i].got = None
           /\ loads'[i] = [loads[i] EXCEPT !.got = Page(loads[i].after, loads[i].search),
                                           !.fresh = @ /\ loads[i].after \in ToSet(db) \cup {None}]
           /\ \A j \in DOMAIN loads \ {i} : loads'[j] = loads[j]
           /\ UNCHANGED <<server, users, cursor, loading, loadingMore, search, timer, asked, dialogs, handler,
                          clicks, history>>
<1> DEFINE l == [loads[i] EXCEPT !.got = Page(loads[i].after, loads[i].search),
                                 !.fresh = @ /\ loads[i].after \in ToSet(db) \cup {None}]
<1>1. /\ loads[i].got = None
      /\ UNCHANGED <<server, users, cursor, loading, loadingMore, search, timer, asked, dialogs, handler,
                     clicks, history>>
  BY DEF LoadServed
<1>2. LoadsTyped /\ Len(loads) \in Nat /\ DOMAIN loads = 1..Len(loads) /\ \A j \in DOMAIN loads : loads[j] \in Loads
  BY LoadsFacts
<1>3. loads' = [loads EXCEPT ![i] = l]
  BY <1>2 DEF LoadServed
<1>4. Tables
  BY DEF Tables, TypeOK, Kept
<1>5. /\ Page(loads[i].after, loads[i].search) \in Answers
      /\ Len(Page(loads[i].after, loads[i].search).items) <= PageSize
  <2>1. loads[i].after \in Users \cup {None}
    BY <1>2 DEF Loads
  <2> QED BY <1>4, <2>1, PageRows
<1>6. /\ l \in Loads /\ l.after = loads[i].after /\ l.replace = loads[i].replace /\ (l.fresh => loads[i].fresh)
      /\ l.got = Page(loads[i].after, loads[i].search)
  BY <1>2, <1>5 DEF Loads
<1> HIDE DEF l
<1>7. /\ loads' \in Seq(Loads) /\ DOMAIN loads' = DOMAIN loads /\ loads'[i] = l
      /\ \A j \in DOMAIN loads \ {i} : loads'[j] = loads[j]
  BY <1>2, <1>3, <1>6, ExceptSeq DEF LoadsTyped
<1>8. LoadsTyped'
  <2>1. ASSUME NEW j \in DOMAIN loads'
        PROVE  /\ loads'[j].got # None => Len(loads'[j].got.items) <= PageSize
               /\ loads'[j].replace <=> loads'[j].after = None
               /\ loads'[j].fresh => loads[j].fresh
    BY <1>2, <1>5, <1>6, <1>7 DEF LoadsTyped
  <2>2. ASSUME NEW j \in DOMAIN loads', NEW k \in DOMAIN loads', loads'[j].fresh, loads'[k].fresh PROVE j = k
    BY <1>2, <1>7, <2>1, <2>2 DEF LoadsTyped
  <2> QED BY <1>7, <2>1, <2>2 DEF LoadsTyped
<1> QED BY <1>1, <1>7, <1>8 DEF l

LEMMA LoadEndsEffect ==
    ASSUME TypeOK, Kept, NEW i \in DOMAIN loads, loads' = RemoveAt(loads, i)
    PROVE  /\ LoadsTyped'
           /\ \A k \in DOMAIN loads' : \E j \in DOMAIN loads \ {i} : loads'[k] = loads[j]
           /\ \A j \in DOMAIN loads \ {i} : \E k \in DOMAIN loads' : loads'[k] = loads[j]
<1> DEFINE at(k) == IF k < i THEN k ELSE k + 1
<1>1. LoadsTyped /\ Len(loads) \in Nat /\ DOMAIN loads = 1..Len(loads) /\ loads \in Seq(Loads)
  BY LoadsFacts DEF LoadsTyped
<1>2. /\ loads' \in Seq(Loads) /\ DOMAIN loads' = 1..Len(loads) - 1
      /\ \A k \in 1..Len(loads) - 1 : loads'[k] = IF k < i THEN loads[k] ELSE loads[k + 1]
  <2>1. /\ RemoveAt(loads, i) \in Seq(Loads) /\ Len(RemoveAt(loads, i)) = Len(loads) - 1
        /\ \A j \in 1..Len(loads) - 1 : RemoveAt(loads, i)[j] = IF j < i THEN loads[j] ELSE loads[j + 1]
    BY <1>1, Removal
  <2> QED BY <2>1, LenProperties
<1>3. ASSUME NEW k \in DOMAIN loads' PROVE at(k) \in DOMAIN loads \ {i} /\ loads'[k] = loads[at(k)]
  BY <1>1, <1>2
<1>4. ASSUME NEW j \in DOMAIN loads \ {i} PROVE \E k \in DOMAIN loads' : at(k) = j
  <2>1. CASE j < i
    BY <1>1, <1>2, <2>1
  <2>2. CASE ~(j < i)
    <3>1. j - 1 \in DOMAIN loads' /\ at(j - 1) = j
      BY <1>1, <1>2, <2>2
    <3> QED BY <3>1
  <2> QED BY <2>1, <2>2
<1>5. \A k, l \in DOMAIN loads' : at(k) = at(l) => k = l
  BY <1>1, <1>2
<1> HIDE DEF at
<1>6. LoadsTyped'
  <2>1. ASSUME NEW k \in DOMAIN loads'
        PROVE  /\ loads'[k].got # None => Len(loads'[k].got.items) <= PageSize
               /\ loads'[k].replace <=> loads'[k].after = None
    BY <1>1, <1>3 DEF LoadsTyped
  <2>2. ASSUME NEW k \in DOMAIN loads', NEW l \in DOMAIN loads', loads'[k].fresh, loads'[l].fresh PROVE k = l
    BY <1>1, <1>3, <1>5, <2>2 DEF LoadsTyped
  <2> QED BY <1>2, <2>1, <2>2 DEF LoadsTyped
<1> QED BY <1>3, <1>4, <1>6

LEMMA FailedLoads ==
    ASSUME TypeOK, Kept, NEW h \in Handlers, Failed(h)
    PROVE  /\ LoadsTyped' /\ DOMAIN loads' = DOMAIN loads
           /\ \A i \in DOMAIN loads : Descends(loads'[i], loads[i])
           /\ UNCHANGED <<users, cursor, loading, loadingMore, asked>>
           /\ IF handler[h].step = "send" THEN UNCHANGED <<raced, behind, loads>>
              ELSE /\ raced' = raced \cup ({handler[h].user} \ {None})
                   /\ behind' = (behind \/ handler[h].kind = "create")
                   /\ \A i \in DOMAIN loads : loads'[i].fresh <=> loads[i].fresh /\ loads[i].got = None
<1>1. LoadsTyped /\ Len(loads) \in Nat /\ DOMAIN loads = 1..Len(loads) /\ \A i \in DOMAIN loads : loads[i] \in Loads
  BY LoadsFacts
<1>2. UNCHANGED <<users, cursor, loading, loadingMore, asked>>
  BY DEF Failed
<1>3. CASE handler[h].step = "send"
  <2>1. UNCHANGED <<raced, behind, loads>>
    BY <1>3 DEF Failed
  <2>2. \A i \in DOMAIN loads : Descends(loads[i], loads[i])
    BY <1>1 DEF Descends
  <2> QED BY <1>1, <1>2, <1>3, <2>1, <2>2 DEF LoadsTyped
<1>4. CASE handler[h].step # "send"
  <2>1. /\ raced' = raced \cup ({handler[h].user} \ {None})
        /\ behind' = (behind \/ handler[h].kind = "create")
        /\ loads' = [i \in DOMAIN loads |-> [loads[i] EXCEPT !.fresh = @ /\ loads[i].got = None]]
    BY <1>4 DEF Failed
  <2>2. \A i \in DOMAIN loads : /\ Descends(loads'[i], loads[i])
                                /\ loads'[i].fresh <=> loads[i].fresh /\ loads[i].got = None
    BY <1>1, <2>1 DEF Loads, Descends
  <2>3. loads' \in Seq(Loads) /\ DOMAIN loads' = DOMAIN loads
    <3>1. loads' \in [1..Len(loads) -> Loads]
      BY <1>1, <2>1, <2>2 DEF Descends
    <3> QED BY <1>1, <3>1, SeqDef
  <2>4. LoadsTyped'
    BY <1>1, <2>2, <2>3 DEF LoadsTyped, Descends
  <2> QED BY <1>2, <1>4, <2>1, <2>2, <2>3, <2>4
<1> QED BY <1>3, <1>4

-----------------------------------------------------------------------------
(* Types, and what is kept beside them. *)

LEMMA TypesNext ==
    ASSUME TypeOK, Kept,
           (db \in Seq(Users) /\ known \subseteq Users /\ row \in [Users -> [Fields -> BOOLEAN]])',
           (IsInjective(db) /\ ToSet(db) \subseteq known)',
           (users \in Seq(Rows) /\ cursor \in Users \cup {None} /\ LoadsTyped)',
           ({loading, loadingMore, timer, creating, behind} \subseteq BOOLEAN /\ search \in Searches)',
           editing' \in Users \cup {None}, handler' \in [Handlers -> Tasks \cup {Idle}], Asked,
           clicks' \in 0..MaxClicks, asked' \in 0..MaxAsked, raced' \subseteq Users
    PROVE  (TypeOK /\ Kept)'
<1>1. ASSUME NEW i \in DOMAIN loads'
      PROVE  /\ loads'[i] \in Loads /\ (loads'[i].got # None => Len(loads'[i].got.items) <= PageSize)
             /\ loads'[i].replace <=> loads'[i].after = None
  <2>1. loads'[i] \in Loads
    BY LenProperties, ElementOfSeq DEF LoadsTyped
  <2> QED BY <2>1 DEF LoadsTyped
<1>2. \A i \in DOMAIN loads' :
          /\ loads'[i].after \in Users \cup {None} /\ loads'[i].search \in Searches
          /\ loads'[i].got # None => loads'[i].got.items \in Seq(Rows) /\ Len(loads'[i].got.items) <= PageSize
  BY <1>1 DEF Loads, Answers
<1>3. TypeOK'
  BY <1>2 DEF TypeOK, Asked
<1>4. Kept'
  BY <1>1 DEF Kept, LoadsTyped, Asked
<1> QED BY <1>3, <1>4

LEMMA StillAsked ==
    ASSUME TypeOK, Kept, NEW S, AllLike(S), \A h \in S : handler[h].step # "ask", confirming' = confirming
    PROVE  Asked
<1>1. CASE confirming = None
  BY <1>1 DEF Asked
<1>2. CASE confirming # None
  <2>1. confirming \in Handlers \ S /\ handler[confirming].kind # "idle" /\ handler[confirming].step = "ask"
    BY <1>2 DEF TypeOK, Kept
  <2> QED BY <2>1 DEF Asked, AllLike, Like
<1> QED BY <1>1, <1>2

LEMMA TalkTypes ==
    ASSUME TypeOK, Kept, Talk
    PROVE  (TypeOK /\ Kept)'
<1>1. LoadsTyped
  BY LoadsFacts
<1>2. UNCHANGED <<db, row, known, users, cursor, loading, loadingMore, search, timer, loads, asked, raced, behind>>
  BY DEF Talk
<1>3. (db \in Seq(Users) /\ known \subseteq Users /\ row \in [Users -> [Fields -> BOOLEAN]])'
  BY <1>2 DEF TypeOK
<1>4. (IsInjective(db) /\ ToSet(db) \subseteq known)'
  BY <1>2 DEF Kept
<1>5. (users \in Seq(Rows) /\ cursor \in Users \cup {None} /\ LoadsTyped)'
  BY <1>1, <1>2 DEF TypeOK, LoadsTyped
<1>6. ({loading, loadingMore, timer, creating, behind} \subseteq BOOLEAN /\ search \in Searches)'
  BY <1>2 DEF TypeOK, Talk
<1>7. asked' \in 0..MaxAsked /\ raced' \subseteq Users
  BY <1>2 DEF TypeOK
<1>8. /\ editing' \in Users \cup {None} /\ handler' \in [Handlers -> Tasks \cup {Idle}]
      /\ Asked /\ clicks' \in 0..MaxClicks
  BY DEF Talk
<1> QED BY <1>3, <1>4, <1>5, <1>6, <1>7, <1>8, TypesNext

(* What the page displays after one of its steps. *)
LEMMA PageTypes ==
    ASSUME TypeOK, Kept, PageStep
    PROVE  (TypeOK /\ Kept)'
<1> USE DEF server, dialogs, history
<1>1. AllLike({}) /\ UNCHANGED <<db, row, known, editing, creating, confirming, clicks, raced>>
  BY PageEffect
<1>2. /\ db \in Seq(Users) /\ known \subseteq Users /\ row \in [Users -> [Fields -> BOOLEAN]] /\ IsInjective(db)
      /\ ToSet(db) \subseteq known /\ users \in Seq(Rows) /\ cursor \in Users \cup {None} /\ LoadsTyped
      /\ loading \in BOOLEAN /\ loadingMore \in BOOLEAN /\ timer \in BOOLEAN /\ creating \in BOOLEAN
      /\ behind \in BOOLEAN /\ search \in Searches /\ asked \in 0..MaxAsked /\ raced \subseteq Users
      /\ editing \in Users \cup {None} /\ clicks \in 0..MaxClicks
  BY LoadsFacts DEF TypeOK, Kept
<1>3. Asked /\ handler' \in [Handlers -> Tasks \cup {Idle}]
  <2>1. ASSUME NEW S, S = {} PROVE AllLike(S) => Asked
    BY <1>1, <2>1, StillAsked
  <2> QED BY <1>1, <2>1 DEF AllLike
<1> DEFINE PageTyped == /\ users' \in Seq(Rows) /\ cursor' \in Users \cup {None} /\ LoadsTyped'
                        /\ loading' \in BOOLEAN /\ loadingMore' \in BOOLEAN /\ timer' \in BOOLEAN
                        /\ behind' \in BOOLEAN /\ search' \in Searches /\ asked' \in 0..MaxAsked
<1>4. ASSUME NEW s \in Searches, TypeSearch(s) PROVE PageTyped
  <2>1. UNCHANGED <<users, cursor, loading, loadingMore, loads, asked, behind>> /\ search' = s /\ timer' = TRUE
    BY <1>4 DEF TypeSearch
  <2> QED BY <1>2, <2>1 DEF LoadsTyped
<1>5. ASSUME NEW after \in Users \cup {None}, NEW replace \in BOOLEAN, replace <=> after = None,
             Load(after, replace, search), UNCHANGED <<search, behind>>, timer' \in BOOLEAN
      PROVE  PageTyped
  <2>1. /\ LoadsTyped' /\ UNCHANGED <<users, cursor>>
        /\ asked' \in 0..MaxAsked /\ loading' \in BOOLEAN /\ loadingMore' \in BOOLEAN
    BY <1>2, <1>5, LoadEffect
  <2> QED BY <1>2, <1>5, <2>1
<1>6. ASSUME TimerFires \/ Reload PROVE PageTyped
  <2>1. Load(None, TRUE, search) /\ UNCHANGED <<search, behind>> /\ timer' \in BOOLEAN
    BY <1>2, <1>6 DEF TimerFires, Reload
  <2> QED BY <1>5, <2>1
<1>7. ASSUME LoadMore PROVE PageTyped
  <2>1. cursor # None /\ Load(cursor, FALSE, search) /\ UNCHANGED <<search, behind, timer>>
    BY <1>7 DEF LoadMore
  <2> QED BY <1>2, <1>5, <2>1
<1>8. ASSUME NEW i \in DOMAIN loads, LoadServed(i) PROVE PageTyped
  <2>1. LoadsTyped' /\ UNCHANGED <<users, cursor, loading, loadingMore, search, timer, asked, behind>>
    BY <1>8, LoadServedEffect
  <2> QED BY <1>2, <2>1
<1>9. ASSUME NEW i \in DOMAIN loads, NEW ok \in BOOLEAN, LoadEnds(i, ok) PROVE PageTyped
  <2> DEFINE l == loads[i]
             late == ~l.fresh \/ l.search # search
  <2>1. /\ ok => l.got # None
        /\ users' = IF ~ok THEN users ELSE IF l.replace THEN l.got.items ELSE users \o l.got.items
        /\ cursor' = IF ok THEN l.got.next ELSE cursor
        /\ behind' = IF l.replace /\ ok THEN late ELSE behind \/ late \/ l.replace
        /\ loads' = RemoveAt(loads, i) /\ loading' = FALSE /\ loadingMore' = FALSE
        /\ UNCHANGED <<search, timer, asked>>
    BY <1>9 DEF LoadEnds
  <2>2. LoadsTyped' /\ (l.got # None => l.got.items \in Seq(Rows) /\ l.got.next \in Users \cup {None})
    BY <2>1, LoadEndsEffect, LoadsFacts DEF Answers
  <2>3. l \in Loads
    BY LoadsFacts
  <2> HIDE DEF l
  <2>4. l.replace \in BOOLEAN /\ late \in BOOLEAN
    BY <2>3 DEF Loads
  <2>5. users' \in Seq(Rows)
    BY <1>2, <2>1, <2>2, ConcatProperties
  <2> QED BY <1>2, <2>1, <2>2, <2>4, <2>5
<1>10. PageTyped
  BY <1>4, <1>6, <1>7, <1>8, <1>9 DEF PageStep
<1>11. (db \in Seq(Users) /\ known \subseteq Users /\ row \in [Users -> [Fields -> BOOLEAN]])'
  BY <1>1, <1>2
<1>12. (IsInjective(db) /\ ToSet(db) \subseteq known)'
  BY <1>1, <1>2
<1>13. ({loading, loadingMore, timer, creating, behind} \subseteq BOOLEAN /\ search \in Searches)'
  BY <1>1, <1>2, <1>10
<1>14. editing' \in Users \cup {None} /\ clicks' \in 0..MaxClicks /\ raced' \subseteq Users
  BY <1>1, <1>2
<1> HIDE DEF PageTyped
<1>15. (users \in Seq(Rows) /\ cursor \in Users \cup {None} /\ LoadsTyped)' /\ asked' \in 0..MaxAsked
  BY <1>10 DEF PageTyped
<1> QED BY <1>3, <1>11, <1>12, <1>13, <1>14, <1>15, TypesNext

(* What the server does keeps its table. *)
LEMMA ServerEffect ==
    ASSUME TypeOK, Kept, NEW t \in Tasks, Updated(t) \/ Deleted(t) \/ Created(t)
    PROVE  /\ (db \in Seq(Users) /\ known \subseteq Users /\ row \in [Users -> [Fields -> BOOLEAN]])'
           /\ (IsInjective(db) /\ ToSet(db) \subseteq known)'
           /\ known \subseteq known' /\ \A u \in known : u \in ToSet(db') => u \in ToSet(db)
<1>1. /\ db \in Seq(Users) /\ known \subseteq Users /\ row \in [Users -> [Fields -> BOOLEAN]]
      /\ IsInjective(db) /\ ToSet(db) \subseteq known /\ Tables
  BY DEF TypeOK, Kept, Tables
<1>2. ASSUME Updated(t) PROVE row' \in [Users -> [Fields -> BOOLEAN]] /\ UNCHANGED <<db, known>>
  <2>1. row' = [row EXCEPT ![t.user][t.field] = t.to] /\ t.field \in Fields /\ t.to \in BOOLEAN
    BY <1>2 DEF Updated, Tasks
  <2> QED BY <1>1, <1>2, <2>1 DEF Updated
<1>3. ASSUME Deleted(t)
      PROVE  /\ db' \in Seq(Users) /\ IsInjective(db') /\ ToSet(db') \subseteq ToSet(db)
             /\ UNCHANGED <<row, known>>
  <2>1. db' = Select(db, Users \ {t.user}) /\ UNCHANGED <<row, known>>
    BY <1>3 DEF Deleted
  <2> QED BY <1>1, <2>1, DeletedFrom
<1>4. ASSUME Created(t)
      PROVE  /\ db' \in Seq(Users) /\ IsInjective(db') /\ known' \subseteq Users /\ known \subseteq known'
             /\ ToSet(db') \subseteq known' /\ \A u \in known : u \in ToSet(db') => u \in ToSet(db)
             /\ UNCHANGED row
  <2>1. PICK u \in Users \ known : db' = <<u>> \o db /\ known' = known \cup {u} /\ UNCHANGED row
    BY <1>4 DEF Created
  <2>2. Len(db) \in Nat /\ DOMAIN db = 1..Len(db) /\ \A p \in 1..Len(db) : db[p] \in ToSet(db)
    BY <1>1, DbFacts
  <2>3. <<u>> \in Seq(Users) /\ Len(<<u>>) = 1 /\ <<u>>[1] = u
    OBVIOUS
  <2>4. /\ db' \in Seq(Users) /\ Len(db') = 1 + Len(db)
        /\ \A i \in 1..1 + Len(db) : db'[i] = IF i <= 1 THEN <<u>>[i] ELSE db[i - 1]
    BY <1>1, <2>1, <2>3, ConcatProperties
  <2>5. DOMAIN db' = 1..1 + Len(db)
    BY <2>2, <2>4, LenProperties
  <2>6. \A i \in 1..1 + Len(db) : \/ i = 1 /\ db'[i] = u
                                  \/ i - 1 \in 1..Len(db) /\ db'[i] = db[i - 1]
    <3> TAKE i \in 1..1 + Len(db)
    <3>1. CASE i = 1
      <4>1. 1 \in 1..1 + Len(db)
        BY <2>2
      <4>2. db'[1] = IF 1 <= 1 THEN <<u>>[1] ELSE db[1 - 1]
        BY <2>4, <4>1
      <4> QED BY <2>3, <3>1, <4>2
    <3>2. CASE i # 1
      <4>1. i - 1 \in 1..Len(db) /\ ~(i <= 1)
        BY <2>2, <3>2
      <4> QED BY <2>4, <4>1
    <3> QED BY <3>1, <3>2
  <2>7. \A i \in 1..Len(db) : db[i] # u
    BY <1>1, <2>2
  <2>8. IsInjective(db')
    <3>1. ASSUME NEW i \in DOMAIN db', NEW j \in DOMAIN db', db'[i] = db'[j] PROVE i = j
      <4>1. i \in 1..1 + Len(db) /\ j \in 1..1 + Len(db)
        BY <2>5
      <4>2. CASE i = 1 \/ j = 1
        BY <2>6, <2>7, <3>1, <4>1, <4>2
      <4>3. CASE ~(i = 1 \/ j = 1)
        <5>1. /\ i - 1 \in DOMAIN db /\ db'[i] = db[i - 1]
              /\ j - 1 \in DOMAIN db /\ db'[j] = db[j - 1]
          BY <2>2, <2>6, <4>1, <4>3
        <5>2. i - 1 = j - 1
          BY <1>1, <3>1, <5>1 DEF IsInjective
        <5> QED BY <2>2, <4>1, <5>2
      <4> QED BY <4>2, <4>3
    <3> QED BY <3>1 DEF IsInjective
  <2>9. \A v \in ToSet(db') : v = u \/ v \in ToSet(db)
    BY <2>2, <2>5, <2>6 DEF ToSet
  <2> QED BY <1>1, <2>1, <2>4, <2>8, <2>9
<1>5. CASE Updated(t)
  BY <1>1, <1>2, <1>5
<1>6. CASE Deleted(t)
  BY <1>1, <1>3, <1>6
<1>7. CASE Created(t)
  BY <1>1, <1>4, <1>7
<1> QED BY <1>5, <1>6, <1>7

LEMMA ServedTypes ==
    ASSUME TypeOK, Kept, NEW h \in Handlers, Served(h)
    PROVE  (TypeOK /\ Kept)'
<1>1. /\ AllLike({h}) /\ handler[h] \in Tasks /\ handler[h].step # "ask"
      /\ Updated(handler[h]) \/ Deleted(handler[h]) \/ Created(handler[h])
      /\ raced' = IF handler[h].user # None /\ Overlapped(h) THEN raced \cup {handler[h].user} ELSE raced
      /\ UNCHANGED <<users, cursor, loading, loadingMore, search, timer, loads, asked>>
      /\ UNCHANGED <<editing, creating, confirming, clicks, behind>>
  BY ServedEffect DEF page, dialogs
<1>2. /\ (db \in Seq(Users) /\ known \subseteq Users /\ row \in [Users -> [Fields -> BOOLEAN]])'
      /\ (IsInjective(db) /\ ToSet(db) \subseteq known)'
  BY <1>1, ServerEffect
<1>3. Asked /\ handler' \in [Handlers -> Tasks \cup {Idle}]
  <2>1. ASSUME NEW S, S = {h} PROVE AllLike(S) => Asked
    BY <1>1, <2>1, StillAsked
  <2> QED BY <1>1, <2>1 DEF AllLike
<1>4. (users \in Seq(Rows) /\ cursor \in Users \cup {None} /\ LoadsTyped)'
  BY <1>1, LoadsFacts DEF TypeOK, LoadsTyped
<1>5. ({loading, loadingMore, timer, creating, behind} \subseteq BOOLEAN /\ search \in Searches)'
  BY <1>1 DEF TypeOK
<1>6. editing' \in Users \cup {None} /\ clicks' \in 0..MaxClicks /\ asked' \in 0..MaxAsked
  BY <1>1 DEF TypeOK
<1>7. raced' \subseteq Users
  <2>1. handler[h].user \in Users \cup {None} /\ raced \subseteq Users
    BY <1>1 DEF Tasks, TypeOK
  <2> QED BY <1>1, <2>1
<1> QED BY <1>2, <1>3, <1>4, <1>5, <1>6, <1>7, TypesNext

(* The rows an answer leaves: one patched, or one removed. *)
IsPatched(patched, t) ==
    /\ patched \in Seq(Rows) /\ DOMAIN patched = DOMAIN users /\ Len(patched) = Len(users)
    /\ \A i \in DOMAIN users :
           /\ patched[i].id = users[i].id
           /\ users[i].id # t.user => patched[i] = users[i]
           /\ users[i].id = t.user => patched[i].data = [users[i].data EXCEPT ![t.field] = t.to]

LEMMA PatchedRows ==
    ASSUME TypeOK, NEW t \in Tasks, NEW patched, patched = Patch(t)
    PROVE  IsPatched(patched, t)
<1>1. DOMAIN users = 1..Len(users) /\ Len(users) \in Nat /\ \A i \in DOMAIN users : users[i] \in Rows
  BY LenProperties, ElementOfSeq DEF TypeOK
<1>2. t.field \in Fields /\ t.to \in BOOLEAN
  BY DEF Tasks
<1>3. patched = [i \in DOMAIN users |-> IF users[i].id = t.user THEN [users[i] EXCEPT !.data[t.field] = t.to]
                                       ELSE users[i]]
  BY DEF Patch
<1>4. ASSUME NEW r \in Rows
      PROVE  /\ [r EXCEPT !.data[t.field] = t.to] \in Rows
             /\ [r EXCEPT !.data[t.field] = t.to].id = r.id
             /\ [r EXCEPT !.data[t.field] = t.to].data = [r.data EXCEPT ![t.field] = t.to]
  <2>1. r.id \in Users /\ r.data \in [Fields -> BOOLEAN] /\ r = [id |-> r.id, data |-> r.data]
    BY DEF Rows
  <2>2. [r EXCEPT !.data[t.field] = t.to] = [id |-> r.id, data |-> [r.data EXCEPT ![t.field] = t.to]]
    BY <2>1
  <2>3. [r.data EXCEPT ![t.field] = t.to] \in [Fields -> BOOLEAN]
    BY <1>2, <2>1
  <2> QED BY <2>1, <2>2, <2>3 DEF Rows
<1>5. \A i \in DOMAIN users :
          /\ patched[i] \in Rows /\ patched[i].id = users[i].id
          /\ users[i].id # t.user => patched[i] = users[i]
          /\ users[i].id = t.user => patched[i].data = [users[i].data EXCEPT ![t.field] = t.to]
  BY <1>1, <1>3, <1>4
<1>6. patched \in [1..Len(users) -> Rows]
  BY <1>1, <1>3, <1>5
<1>7. patched \in Seq(Rows)
  BY <1>1, <1>6, SeqDef
<1>8. Len(patched) = Len(users)
  BY <1>1, <1>6, <1>7, LenProperties
<1> QED BY <1>1, <1>5, <1>6, <1>7, <1>8 DEF IsPatched

Others(u) == {r \in Rows : r.id # u}

LEMMA RemovedRows ==
    ASSUME TypeOK, NEW u, NEW kept, kept = Select(users, Others(u))
    PROVE  /\ kept \in Seq(Rows)
           /\ \E at \in [1..Len(kept) -> 1..Len(users)] :
                  /\ \A i, j \in 1..Len(kept) : i < j => at[i] < at[j]
                  /\ \A i \in 1..Len(kept) : kept[i] = users[at[i]] /\ kept[i].id # u
                  /\ \A i \in 1..Len(users) : users[i].id # u => \E j \in 1..Len(kept) : kept[j].id = users[i].id
<1> DEFINE others == Others(u)
           places == {i \in DOMAIN users : users[i] \in others}
<1>1. /\ users \in Seq(Rows) /\ DOMAIN users = 1..Len(users) /\ Len(users) \in Nat
      /\ \A i \in DOMAIN users : users[i] \in Rows
  BY LenProperties, ElementOfSeq DEF TypeOK
<1>2. kept \in Seq(Rows \cap others) /\ \E at : SelectedBy(at, users, others)
  <2> HIDE DEF others
  <2>1. kept = Select(users, others)
    BY DEF others
  <2> QED BY <1>1, <2>1, Selected
<1>3. PICK at : Enumerates(at, Len(kept), places) /\ \A i \in 1..Len(kept) : kept[i] = users[at[i]]
  <2>1. PICK at : SelectedBy(at, users, others)
    BY <1>2
  <2> QED BY <2>1 DEF SelectedBy
<1>4. \A i \in places : i \in 1..Len(users) /\ users[i].id # u
  BY <1>1 DEF Others
<1>5. \A i \in 1..Len(users) : users[i].id # u => i \in places
  BY <1>1 DEF Others
<1> HIDE DEF places
<1>6. /\ at \in [1..Len(kept) -> 1..Len(users)]
      /\ \A i, j \in 1..Len(kept) : i < j => at[i] < at[j]
      /\ \A i \in 1..Len(kept) : kept[i] = users[at[i]] /\ kept[i].id # u
  BY <1>3, <1>4 DEF Enumerates
<1>7. ASSUME NEW i \in 1..Len(users), users[i].id # u PROVE \E j \in 1..Len(kept) : kept[j].id = users[i].id
  <2>1. PICK j \in 1..Len(kept) : at[j] = i
    BY <1>3, <1>5, <1>7 DEF Enumerates
  <2> QED BY <1>3, <2>1
<1>8. kept \in Seq(Rows)
  <2>1. Len(kept) \in Nat /\ kept \in [1..Len(kept) -> Rows \cap others]
    BY <1>2, LenProperties
  <2>2. kept \in [1..Len(kept) -> Rows]
    BY <2>1
  <2> QED BY <2>1, <2>2, SeqDef
<1> QED BY <1>6, <1>7, <1>8

(* What an answer does to the page. *)
LEMMA AnsweredEffect ==
    ASSUME TypeOK, Kept, NEW h \in Handlers, Answered(h)
    PROVE  /\ handler[h].step = "served" /\ UNCHANGED <<raced, behind>>
           /\ handler[h].kind = "create" => Load(None, TRUE, handler[h].search) /\ handler[h].search \in Searches
           /\ handler[h].kind # "create" => UNCHANGED <<cursor, loading, loadingMore, loads, asked>>
           /\ handler[h].kind = "update" => users' = Patch(handler[h])
           /\ handler[h].kind = "delete" => users' = Select(users, Others(handler[h].user))
           /\ handler[h].kind \in {"create", "update", "delete"}
<1>1. handler[h] \in Tasks
  BY EndEffect
<1>2. handler[h].kind \in {"create", "update", "delete"} /\ handler[h].search \in Searches
  BY <1>1 DEF Tasks
<1>3. handler[h].step = "served" /\ UNCHANGED <<raced, behind>>
  BY DEF Answered, history
<1>4. handler[h].kind = "create" => Load(None, TRUE, handler[h].search)
  BY DEF Answered
<1>5. handler[h].kind # "create" =>
          /\ users' = IF handler[h].kind = "update" THEN Patch(handler[h])
                      ELSE Select(users, Others(handler[h].user))
          /\ UNCHANGED <<cursor, loading, loadingMore, loads, asked>>
  BY DEF Answered, Others
<1> QED BY <1>2, <1>3, <1>4, <1>5

LEMMA EndTypes ==
    ASSUME TypeOK, Kept, NEW h \in Handlers, Answered(h) \/ Failed(h)
    PROVE  (TypeOK /\ Kept)'
<1>1. /\ AllLike({h}) /\ handler[h] \in Tasks /\ handler[h].step # "ask"
      /\ creating' \in BOOLEAN /\ UNCHANGED <<db, row, known, search, timer, editing, confirming, clicks>>
  BY EndEffect
<1>2. Asked /\ handler' \in [Handlers -> Tasks \cup {Idle}]
  <2>1. ASSUME NEW S, S = {h} PROVE AllLike(S) => Asked
    BY <1>1, <2>1, StillAsked
  <2> QED BY <1>1, <2>1 DEF AllLike
<1>3. LoadsTyped /\ users \in Seq(Rows) /\ cursor \in Users \cup {None} /\ asked \in 0..MaxAsked
  BY LoadsFacts DEF TypeOK
<1>4. handler[h].user \in Users \cup {None} /\ handler[h].search \in Searches
  BY <1>1 DEF Tasks
<1> DEFINE PageTyped == /\ users' \in Seq(Rows) /\ cursor' \in Users \cup {None} /\ LoadsTyped'
                        /\ loading' \in BOOLEAN /\ loadingMore' \in BOOLEAN
                        /\ behind' \in BOOLEAN /\ asked' \in 0..MaxAsked /\ raced' \subseteq Users
<1>5. ASSUME Answered(h) PROVE PageTyped
  <2>1. raced' \subseteq Users /\ behind' \in BOOLEAN
    BY <1>5, AnsweredEffect DEF TypeOK
  <2>2. CASE handler[h].kind = "create"
    <3>1. Load(None, TRUE, handler[h].search)
      BY <1>5, <2>2, AnsweredEffect
    <3>2. /\ LoadsTyped' /\ UNCHANGED <<users, cursor>>
          /\ asked' \in 0..MaxAsked /\ loading' \in BOOLEAN /\ loadingMore' \in BOOLEAN
      BY <1>4, <3>1, LoadEffect
    <3> QED BY <1>3, <2>1, <3>2
  <2>3. CASE handler[h].kind # "create"
    <3>1. UNCHANGED <<cursor, loading, loadingMore, loads, asked>>
      BY <1>5, <2>3, AnsweredEffect
    <3>2. users' \in Seq(Rows)
      <4>1. CASE handler[h].kind = "update"
        <5>1. users' = Patch(handler[h])
          BY <1>5, <4>1, AnsweredEffect
        <5> QED BY <1>1, <5>1, PatchedRows DEF IsPatched
      <4>2. CASE handler[h].kind = "delete"
        <5>1. users' = Select(users, Others(handler[h].user))
          BY <1>5, <4>2, AnsweredEffect
        <5> QED BY <5>1, RemovedRows
      <4> QED BY <1>5, <2>3, <4>1, <4>2, AnsweredEffect
    <3>3. loading \in BOOLEAN /\ loadingMore \in BOOLEAN
      BY DEF TypeOK
    <3> QED BY <1>3, <2>1, <3>1, <3>2, <3>3 DEF LoadsTyped
  <2> QED BY <2>2, <2>3
<1>6. ASSUME Failed(h) PROVE PageTyped
  <2>1. LoadsTyped' /\ UNCHANGED <<users, cursor, loading, loadingMore, asked>>
    BY <1>6, FailedLoads
  <2>2. raced' \subseteq Users /\ behind' \in BOOLEAN
    BY <1>4, <1>6, FailedLoads DEF TypeOK
  <2>3. loading \in BOOLEAN /\ loadingMore \in BOOLEAN
    BY DEF TypeOK
  <2> QED BY <1>3, <2>1, <2>2, <2>3
<1>7. PageTyped
  BY <1>5, <1>6
<1> HIDE DEF PageTyped
<1>8. /\ (users \in Seq(Rows) /\ cursor \in Users \cup {None} /\ LoadsTyped)'
      /\ asked' \in 0..MaxAsked /\ raced' \subseteq Users
  BY <1>7 DEF PageTyped
<1>9. ({loading, loadingMore, timer, creating, behind} \subseteq BOOLEAN /\ search \in Searches)'
  BY <1>1, <1>7 DEF PageTyped, TypeOK
<1>10. (db \in Seq(Users) /\ known \subseteq Users /\ row \in [Users -> [Fields -> BOOLEAN]])'
  BY <1>1 DEF TypeOK
<1>11. (IsInjective(db) /\ ToSet(db) \subseteq known)'
  BY <1>1 DEF Kept
<1>12. editing' \in Users \cup {None} /\ clicks' \in 0..MaxClicks
  BY <1>1 DEF TypeOK
<1> QED BY <1>2, <1>8, <1>9, <1>10, <1>11, <1>12, TypesNext

-----------------------------------------------------------------------------
(* What handlers do was asked of accounts that exist, and agreed to. *)

LEMMA Steps ==
    ASSUME TypeOK, Kept, Known, [Next]_vars
    PROVE  PageStep \/ Talk \/ \E h \in Handlers : Served(h) \/ Answered(h) \/ Failed(h)
<1>1. PageStep <=> Pages
  BY DEF PageStep, Pages
<1> QED BY <1>1, ClickTalk, DialogsTalk DEF Next

LEMMA LikeTask ==
    ASSUME NEW t, NEW u, Like(t, u)
    PROVE  /\ KnownTask(u) => KnownTask(t)
           /\ Consented(u) => Consented(t)
BY DEF Like, KnownTask, Consented, NeedsConsent

TasksKept == KnownTasks /\ Agreement /\ Gone

LEMMA TasksNext ==
    ASSUME TypeOK, Kept, Known, Agreement, Gone, [Next]_vars
    PROVE  TasksKept'
<1>1. ToSet(db) \subseteq known
  BY DEF Kept
<1>2. ASSUME PageStep PROVE TasksKept'
  <2>1. (\A h \in Handlers : Like(handler'[h], handler[h])) /\ UNCHANGED <<db, known>>
    BY <1>2, PageEffect DEF AllLike
  <2>2. KnownTasks' /\ Agreement'
    BY <2>1, LikeTask DEF Known, KnownTasks, KnownTask, Agreement
  <2>3. Gone'
    BY <2>1 DEF Gone, Done, Busy, Like
  <2> QED BY <2>2, <2>3 DEF TasksKept
<1>3. ASSUME Talk PROVE TasksKept'
  <2>1. (\A h \in Handlers : Like(handler'[h], handler[h]) \/ Talks(h)) /\ UNCHANGED <<db, known>>
    BY <1>3 DEF Talk
  <2>2. KnownTasks'
    BY <2>1, LikeTask DEF Known, KnownTasks, KnownTask, Talks
  <2>3. Agreement'
    BY <2>1, LikeTask DEF Agreement, Talks
  <2>4. Gone'
    BY <2>1 DEF Gone, Done, Busy, Like, Talks
  <2> QED BY <2>2, <2>3, <2>4 DEF TasksKept
<1>4. ASSUME NEW h \in Handlers, Served(h) PROVE TasksKept'
  <2>1. /\ \A g \in Handlers \ {h} : Like(handler'[g], handler[g])
        /\ handler[h] \in Tasks /\ Busy(h) /\ handler[h].step = "send"
        /\ handler'[h] = [handler[h] EXCEPT !.step = "served"]
        /\ Updated(handler[h]) \/ Deleted(handler[h]) \/ Created(handler[h])
    BY <1>4, ServedEffect DEF AllLike
  <2>2. known \subseteq known' /\ \A u \in known : u \in ToSet(db') => u \in ToSet(db)
    BY <2>1, ServerEffect
  <2>3. /\ handler'[h].kind = handler[h].kind /\ handler'[h].user = handler[h].user
        /\ handler'[h].field = handler[h].field /\ handler'[h].agreed = handler[h].agreed
    BY <2>1 DEF Tasks
  <2>4. KnownTasks'
    BY <2>1, <2>2, <2>3 DEF Known, KnownTasks, KnownTask, Like
  <2>5. Agreement'
    <3>1. Consented(handler'[h])
      BY <2>1, <2>3 DEF Agreement, Consented, NeedsConsent
    <3> QED BY <2>1, <3>1, LikeTask DEF Agreement
  <2>6. Gone'
    <3>1. ASSUME handler[h].kind = "delete" PROVE handler[h].user \notin ToSet(db')
      <4>1. Deleted(handler[h])
        BY <2>1, <3>1 DEF Updated, Created
      <4>2. db' = Select(db, Users \ {handler[h].user}) /\ Tables
        BY <4>1 DEF Deleted, Tables, TypeOK, Kept
      <4>3. ToSet(db') = ToSet(db) \ {handler[h].user}
        BY <4>2, DeletedFrom
      <4> QED BY <4>3
    <3>2. ASSUME NEW g \in Handlers, Done(g), handler[g].kind = "delete"
          PROVE  handler[g].user \in known /\ handler[g].user \notin ToSet(db')
      BY <2>2, <3>2 DEF Gone, Known, KnownTasks, KnownTask, Busy, Done
    <3> QED BY <2>1, <2>3, <3>1, <3>2 DEF Gone, Done, Busy, Like
  <2> QED BY <2>4, <2>5, <2>6 DEF TasksKept
<1>5. ASSUME NEW h \in Handlers, Answered(h) \/ Failed(h) PROVE TasksKept'
  <2>1. /\ \A g \in Handlers \ {h} : Like(handler'[g], handler[g])
        /\ handler'[h] = Idle /\ UNCHANGED <<db, known>>
    BY <1>5, EndEffect DEF AllLike
  <2>2. KnownTask(Idle) /\ Consented(Idle)
    BY DEF KnownTask, Consented, NeedsConsent, Idle
  <2>3. KnownTasks' /\ Agreement'
    BY <2>1, <2>2, LikeTask DEF Known, KnownTasks, KnownTask, Agreement
  <2>4. Gone'
    <3>1. ~Done(h)'
      BY <2>1 DEF Done, Busy, Idle
    <3> QED BY <2>1, <3>1 DEF Gone, Done, Busy, Like
  <2> QED BY <2>3, <2>4 DEF TasksKept
<1> QED BY <1>2, <1>3, <1>4, <1>5, Steps

LEMMA KnownPageNext ==
    ASSUME TypeOK, Kept, Known, [Next]_vars
    PROVE  KnownPage'
<1> USE DEF server, dialogs, history
<1>1. /\ KnownRows(users) /\ cursor \in known \cup {None} /\ ToSet(db) \subseteq known
      /\ \A i \in DOMAIN loads : KnownRequest(loads[i])
  BY DEF Known, KnownPage, Kept
<1>2. ASSUME known \subseteq known', KnownRows(users'), cursor' \in known \cup {None},
             \A i \in DOMAIN loads' : KnownRequest(loads'[i])
      PROVE  KnownPage'
  BY <1>2 DEF KnownPage, KnownRows, KnownRequest
<1>3. ASSUME NEW after \in known \cup {None}, NEW replace \in BOOLEAN, NEW of \in Searches,
             replace <=> after = None, Load(after, replace, of)
      PROVE  UNCHANGED <<users, cursor>> /\ \A i \in DOMAIN loads' : KnownRequest(loads'[i])
  <2>1. after \in Users \cup {None}
    BY DEF TypeOK
  <2>2. PICK n : /\ DOMAIN loads' = DOMAIN loads \cup {n} /\ loads'[n] = Request(after, replace, of)
                 /\ \A i \in DOMAIN loads : Descends(loads'[i], loads[i]) /\ ~loads'[i].fresh
    BY <1>3, <2>1, LoadEffect
  <2>3. UNCHANGED <<users, cursor>>
    BY <1>3, <2>1, LoadEffect
  <2>4. KnownRequest(Request(after, replace, of))
    BY DEF KnownRequest, Request
  <2>5. \A i \in DOMAIN loads : KnownRequest(loads'[i])
    BY <1>1, <2>2 DEF KnownRequest, Descends
  <2> QED BY <2>2, <2>3, <2>4, <2>5
<1>4. search \in Searches
  BY DEF TypeOK
<1>5. ASSUME NEW s \in Searches, TypeSearch(s) PROVE KnownPage'
  <2>1. UNCHANGED <<known, users, cursor, loads>>
    BY <1>5 DEF TypeSearch
  <2> QED BY <1>1, <1>2, <2>1
<1>6. ASSUME TimerFires \/ Reload PROVE KnownPage'
  <2>1. Load(None, TRUE, search) /\ known' = known
    BY <1>6 DEF TimerFires, Reload
  <2> QED BY <1>1, <1>2, <1>3, <1>4, <2>1
<1>7. ASSUME LoadMore PROVE KnownPage'
  <2>1. cursor # None /\ Load(cursor, FALSE, search) /\ known' = known
    BY <1>7 DEF LoadMore
  <2> QED BY <1>1, <1>2, <1>3, <1>4, <2>1
<1>8. ASSUME NEW i \in DOMAIN loads, LoadServed(i) PROVE KnownPage'
  <2> DEFINE p == Page(loads[i].after, loads[i].search)
  <2>1. /\ DOMAIN loads' = DOMAIN loads /\ \A j \in DOMAIN loads \ {i} : loads'[j] = loads[j]
        /\ loads'[i] = [loads[i] EXCEPT !.got = p, !.fresh = @ /\ loads[i].after \in ToSet(db) \cup {None}]
        /\ UNCHANGED <<known, users, cursor>>
    BY <1>8, LoadServedEffect
  <2>2. loads[i] \in Loads /\ Tables
    BY LoadsFacts DEF TypeOK, Kept, Tables
  <2>3. loads[i].after \in Users \cup {None}
    BY <2>2 DEF Loads
  <2>4. KnownRows(p.items) /\ p.next \in known \cup {None}
    BY <1>1, <2>2, <2>3, PageRows DEF KnownRows
  <2> HIDE DEF p
  <2>5. loads'[i].after = loads[i].after /\ loads'[i].got = p
    BY <2>1, <2>2 DEF Loads
  <2>6. KnownRequest(loads'[i])
    BY <1>1, <2>4, <2>5 DEF KnownRequest
  <2> QED BY <1>1, <1>2, <2>1, <2>6
<1>9. ASSUME NEW i \in DOMAIN loads, NEW ok \in BOOLEAN, LoadEnds(i, ok) PROVE KnownPage'
  <2> DEFINE l == loads[i]
  <2>1. /\ ok => l.got # None
        /\ users' = IF ~ok THEN users ELSE IF l.replace THEN l.got.items ELSE users \o l.got.items
        /\ cursor' = IF ok THEN l.got.next ELSE cursor
        /\ loads' = RemoveAt(loads, i) /\ known' = known
    BY <1>9 DEF LoadEnds
  <2>2. l.got # None => l.got.items \in Seq(Rows) /\ KnownRows(l.got.items) /\ l.got.next \in known \cup {None}
    BY <1>1, LoadsFacts DEF Answers, KnownRequest
  <2>3. \A k \in DOMAIN loads' : KnownRequest(loads'[k])
    BY <1>1, <2>1, LoadEndsEffect
  <2> HIDE DEF l
  <2>4. ASSUME ok PROVE KnownRows(users \o l.got.items)
    <3>1. users \in Seq(Rows) /\ l.got.items \in Seq(Rows) /\ KnownRows(l.got.items)
      BY <2>1, <2>2, <2>4 DEF TypeOK
    <3>2. /\ users \o l.got.items \in Seq(Rows)
          /\ Len(users \o l.got.items) = Len(users) + Len(l.got.items)
          /\ \A k \in 1..Len(users) + Len(l.got.items) : (users \o l.got.items)[k] =
                 IF k <= Len(users) THEN users[k] ELSE l.got.items[k - Len(users)]
      BY <3>1, ConcatProperties
    <3>3. /\ DOMAIN users = 1..Len(users) /\ Len(users) \in Nat
          /\ DOMAIN l.got.items = 1..Len(l.got.items) /\ Len(l.got.items) \in Nat
          /\ DOMAIN (users \o l.got.items) = 1..Len(users) + Len(l.got.items)
      BY <3>1, <3>2, LenProperties
    <3> QED BY <1>1, <3>1, <3>2, <3>3 DEF KnownRows
  <2>5. KnownRows(users') /\ cursor' \in known \cup {None}
    BY <1>1, <2>1, <2>2, <2>4
  <2> QED BY <1>2, <2>1, <2>3, <2>5
<1>10. ASSUME Talk PROVE KnownPage'
  BY <1>1, <1>2, <1>10 DEF Talk
<1>11. ASSUME NEW h \in Handlers, Served(h) PROVE KnownPage'
  <2>1. /\ handler[h] \in Tasks /\ (Updated(handler[h]) \/ Deleted(handler[h]) \/ Created(handler[h]))
        /\ UNCHANGED <<users, cursor, loads>>
    BY <1>11, ServedEffect DEF page
  <2> QED BY <1>1, <1>2, <2>1, ServerEffect
<1>12. ASSUME NEW h \in Handlers, Failed(h) PROVE KnownPage'
  <2>1. /\ DOMAIN loads' = DOMAIN loads /\ UNCHANGED <<users, cursor, known>>
        /\ \A i \in DOMAIN loads : Descends(loads'[i], loads[i])
    BY <1>12, FailedLoads, EndEffect
  <2>2. \A i \in DOMAIN loads' : KnownRequest(loads'[i])
    BY <1>1, <2>1 DEF KnownRequest, Descends
  <2> QED BY <1>1, <1>2, <2>1, <2>2
<1>13. ASSUME NEW h \in Handlers, Answered(h) PROVE KnownPage'
  <2>1. known' = known /\ handler[h] \in Tasks
    BY <1>13, EndEffect
  <2>2. CASE handler[h].kind = "create"
    BY <1>1, <1>2, <1>3, <1>13, <2>1, <2>2, AnsweredEffect
  <2>3. CASE handler[h].kind = "update"
    <3>1. UNCHANGED <<cursor, loads>> /\ users' = Patch(handler[h])
      BY <1>13, <2>3, AnsweredEffect
    <3>2. DOMAIN users' = DOMAIN users /\ \A i \in DOMAIN users : users'[i].id = users[i].id
      <4> DEFINE t == handler[h]
      <4>1. t \in Tasks /\ users' = Patch(t)
        BY <2>1, <3>1
      <4> HIDE DEF t
      <4>2. IsPatched(users', t)
        BY <4>1, PatchedRows
      <4> QED BY <4>2 DEF IsPatched
    <3>3. KnownRows(users')
      BY <1>1, <2>1, <3>2 DEF KnownRows
    <3> QED BY <1>1, <1>2, <2>1, <3>1, <3>3
  <2>4. CASE handler[h].kind = "delete"
    <3>1. UNCHANGED <<cursor, loads>> /\ users' = Select(users, Others(handler[h].user))
      BY <1>13, <2>4, AnsweredEffect
    <3>2. /\ users' \in Seq(Rows)
          /\ \E at \in [1..Len(users') -> 1..Len(users)] : \A i \in 1..Len(users') : users'[i] = users[at[i]]
      BY <3>1, RemovedRows
    <3>3. DOMAIN users' = 1..Len(users') /\ DOMAIN users = 1..Len(users)
      BY <3>2, LenProperties DEF TypeOK
    <3>4. KnownRows(users')
      BY <1>1, <3>2, <3>3 DEF KnownRows
    <3> QED BY <1>1, <1>2, <2>1, <3>1, <3>4
  <2> QED BY <1>13, <2>2, <2>3, <2>4, AnsweredEffect
<1> QED BY <1>5, <1>6, <1>7, <1>8, <1>9, <1>10, <1>11, <1>12, <1>13, Steps DEF PageStep

-----------------------------------------------------------------------------
(* Rows, and the changes of them whose answers are on their way. *)

(* A step that leaves an account's row and the changes of it alone. *)
SameDone(u) == \A h \in Handlers : /\ DoneOn(h, u)' <=> DoneOn(h, u)
                                   /\ DoneOn(h, u) => Like(handler'[h], handler[h])

LEMMA SettledSame ==
    ASSUME NEW u \in Users, Settled(u), SameDone(u), u \in ToSet(db) => u \in ToSet(db'), row'[u] = row[u],
           \A i \in DOMAIN users' : users'[i].id = u => RowRight(u, users'[i].data),
           \A i \in DOMAIN loads' : PageRight(u, loads'[i])
    PROVE  Settled(u)'
<1>1. \A h \in Handlers : DoneOn(h, u)' => DoneOn(h, u) /\ /\ handler'[h].kind = handler[h].kind
                                                           /\ handler'[h].field = handler[h].field
                                                           /\ handler'[h].to = handler[h].to
  BY DEF SameDone, Like
<1>2. \A g, h \in Handlers : DoneOn(g, u)' /\ DoneOn(h, u)' => g = h
  BY <1>1 DEF Settled
<1>3. \A h \in Handlers : DoneOn(h, u)' /\ handler'[h].kind = "update" => row'[u][handler'[h].field] = handler'[h].to
  BY <1>1 DEF Settled
<1>4. ASSUME NEW data, RowRight(u, data) PROVE RowRight(u, data)'
  <2>1. (\A h \in Handlers : ~DoneOn(h, u)') => u \in ToSet(db') /\ data = row'[u]
    BY <1>4 DEF RowRight, SameDone
  <2>2. ASSUME NEW h \in Handlers, DoneOn(h, u)', handler'[h].kind = "update"
        PROVE  u \in ToSet(db') /\ [data EXCEPT ![handler'[h].field] = handler'[h].to] = row'[u]
    <3>1. /\ DoneOn(h, u) /\ handler[h].kind = "update"
          /\ handler'[h].field = handler[h].field /\ handler'[h].to = handler[h].to
      BY <1>1, <2>2
    <3> QED BY <1>4, <3>1 DEF RowRight
  <2> QED BY <2>1, <2>2 DEF RowRight
<1>5. \A i \in DOMAIN users' : users'[i].id = u => RowRight(u, users[i].data)'
  BY <1>4
<1>6. \A i \in DOMAIN loads' : PageRight(u, loads[i])'
  BY DEF PageRight
<1> QED BY <1>2, <1>3, <1>5, <1>6 DEF Settled

(* A row as the server has it is right while a change of it is answered. *)
LEMMA ServersRowRight ==
    ASSUME TypeOK, NEW u \in Users, Settled(u), u \in ToSet(db)
    PROVE  RowRight(u, row[u])
<1>1. row[u] \in [Fields -> BOOLEAN]
  BY DEF TypeOK
<1>2. ASSUME NEW h \in Handlers, DoneOn(h, u), handler[h].kind = "update"
      PROVE  [row[u] EXCEPT ![handler[h].field] = handler[h].to] = row[u]
  <2>1. row[u][handler[h].field] = handler[h].to
    BY <1>2 DEF Settled
  <2> QED BY <1>1, <2>1
<1> QED BY <1>2 DEF RowRight

LEMMA LoadSettled ==
    ASSUME TypeOK, Kept, NEW after \in Users \cup {None}, NEW replace \in BOOLEAN, NEW of \in Searches,
           replace <=> after = None, Load(after, replace, of), NEW u \in Users, Settled(u)
    PROVE  users' = users /\ \A i \in DOMAIN loads' : PageRight(u, loads'[i])
<1>1. PICK n : /\ DOMAIN loads' = DOMAIN loads \cup {n} /\ loads'[n] = Request(after, replace, of)
               /\ \A i \in DOMAIN loads : Descends(loads'[i], loads[i]) /\ ~loads'[i].fresh
  BY LoadEffect
<1>2. users' = users
  BY DEF Load
<1>3. PageRight(u, Request(after, replace, of))
  BY DEF PageRight, Request
<1>4. \A i \in DOMAIN loads : PageRight(u, loads'[i])
  BY <1>1 DEF Settled, PageRight, Descends
<1> QED BY <1>1, <1>2, <1>3, <1>4

LEMMA PageSettled ==
    ASSUME TypeOK, Kept, PageStep, NEW u \in Users, Settled(u)
    PROVE  Settled(u)'
<1>1. /\ \A h \in Handlers : Like(handler'[h], handler[h])
      /\ UNCHANGED <<db, row>>
  BY PageEffect DEF AllLike
<1>2. SameDone(u)
  BY <1>1 DEF SameDone, DoneOn, Done, Busy, Like
<1>3. /\ \A i \in DOMAIN users : users[i].id = u => RowRight(u, users[i].data)
      /\ \A i \in DOMAIN loads : PageRight(u, loads[i])
  BY DEF Settled
<1>4. ASSUME \A i \in DOMAIN users' : users'[i].id = u => RowRight(u, users'[i].data),
             \A i \in DOMAIN loads' : PageRight(u, loads'[i])
      PROVE  Settled(u)'
  BY <1>1, <1>2, <1>4, SettledSame
<1>5. ASSUME NEW after \in Users \cup {None}, NEW replace \in BOOLEAN, NEW of \in Searches,
             replace <=> after = None, Load(after, replace, of)
      PROVE  Settled(u)'
  <2>1. users' = users /\ \A i \in DOMAIN loads' : PageRight(u, loads'[i])
    BY <1>5, LoadSettled
  <2> QED BY <1>3, <1>4, <2>1
<1>6. search \in Searches /\ cursor \in Users \cup {None}
  BY DEF TypeOK
<1>7. ASSUME NEW s \in Searches, TypeSearch(s) PROVE Settled(u)'
  <2>1. UNCHANGED <<users, loads>>
    BY <1>7 DEF TypeSearch
  <2> QED BY <1>3, <1>4, <2>1
<1>8. ASSUME TimerFires \/ Reload PROVE Settled(u)'
  BY <1>5, <1>6, <1>8 DEF TimerFires, Reload
<1>9. ASSUME LoadMore PROVE Settled(u)'
  BY <1>5, <1>6, <1>9 DEF LoadMore
<1>10. ASSUME NEW i \in DOMAIN loads, LoadServed(i) PROVE Settled(u)'
  <2> DEFINE p == Page(loads[i].after, loads[i].search)
  <2>1. /\ DOMAIN loads' = DOMAIN loads /\ \A j \in DOMAIN loads \ {i} : loads'[j] = loads[j]
        /\ loads'[i] = [loads[i] EXCEPT !.got = p, !.fresh = @ /\ loads[i].after \in ToSet(db) \cup {None}]
        /\ users' = users
    BY <1>10, LoadServedEffect
  <2>2. loads[i] \in Loads /\ Tables
    BY LoadsFacts DEF TypeOK, Kept, Tables
  <2>3. loads[i].after \in Users \cup {None}
    BY <2>2 DEF Loads
  <2>4. \A k \in DOMAIN p.items : p.items[k].id \in ToSet(db) /\ p.items[k].data = row[p.items[k].id]
    BY <2>2, <2>3, PageRows
  <2> HIDE DEF p
  <2>5. loads'[i].got = p
    BY <2>1, <2>2 DEF Loads
  <2>6. PageRight(u, loads'[i])
    BY <2>4, <2>5 DEF PageRight
  <2> QED BY <1>3, <1>4, <2>1, <2>6
<1>11. ASSUME NEW i \in DOMAIN loads, NEW ok \in BOOLEAN, LoadEnds(i, ok) PROVE Settled(u)'
  <2> DEFINE l == loads[i]
  <2>1. /\ ok => l.got # None
        /\ users' = IF ~ok THEN users ELSE IF l.replace THEN l.got.items ELSE users \o l.got.items
        /\ loads' = RemoveAt(loads, i)
    BY <1>11 DEF LoadEnds
  <2>2. l.got # None => l.got.items \in Seq(Rows)
    BY LoadsFacts DEF Answers
  <2>3. \A k \in DOMAIN loads' : PageRight(u, loads'[k])
    BY <1>3, <2>1, LoadEndsEffect
  <2>4. PageRight(u, l)
    BY <1>3
  <2> HIDE DEF l
  <2>5. ASSUME ok, NEW k \in DOMAIN l.got.items, l.got.items[k].id = u PROVE RowRight(u, l.got.items[k].data)
    <3>1. u \in ToSet(db) /\ l.got.items[k].data = row[u]
      BY <2>1, <2>4, <2>5 DEF PageRight
    <3> QED BY <3>1, ServersRowRight
  <2>6. ASSUME ok
        PROVE  \A k \in DOMAIN (users \o l.got.items) :
                   \/ k \in DOMAIN users /\ (users \o l.got.items)[k] = users[k]
                   \/ \E j \in DOMAIN l.got.items : (users \o l.got.items)[k] = l.got.items[j]
    <3>1. users \in Seq(Rows) /\ l.got.items \in Seq(Rows)
      BY <2>1, <2>2, <2>6 DEF TypeOK
    <3>2. /\ users \o l.got.items \in Seq(Rows)
          /\ Len(users \o l.got.items) = Len(users) + Len(l.got.items)
          /\ \A k \in 1..Len(users) + Len(l.got.items) : (users \o l.got.items)[k] =
                 IF k <= Len(users) THEN users[k] ELSE l.got.items[k - Len(users)]
      BY <3>1, ConcatProperties
    <3>3. /\ DOMAIN users = 1..Len(users) /\ Len(users) \in Nat
          /\ DOMAIN l.got.items = 1..Len(l.got.items) /\ Len(l.got.items) \in Nat
          /\ DOMAIN (users \o l.got.items) = 1..Len(users) + Len(l.got.items)
      BY <3>1, <3>2, LenProperties
    <3> TAKE k \in DOMAIN (users \o l.got.items)
    <3>4. CASE k <= Len(users)
      BY <3>2, <3>3, <3>4
    <3>5. CASE ~(k <= Len(users))
      <4>1. k - Len(users) \in DOMAIN l.got.items
        BY <3>3, <3>5
      <4> QED BY <3>2, <3>3, <3>5, <4>1
    <3> QED BY <3>4, <3>5
  <2>7. \A k \in DOMAIN users' : users'[k].id = u => RowRight(u, users'[k].data)
    BY <1>3, <2>1, <2>5, <2>6
  <2> QED BY <1>4, <2>3, <2>7
<1> QED BY <1>7, <1>8, <1>9, <1>10, <1>11 DEF PageStep

(* An account created leaves the others. *)
LEMMA CreatedKeeps ==
    ASSUME Tables, NEW w \in Users, db' = <<w>> \o db
    PROVE  ToSet(db) \subseteq ToSet(db')
<1>1. /\ <<w>> \in Seq(Users) /\ Len(<<w>>) = 1 /\ db \in Seq(Users) /\ Len(db) \in Nat /\ DOMAIN db = 1..Len(db)
  BY DbFacts DEF Tables
<1>2. /\ db' \in Seq(Users) /\ Len(db') = 1 + Len(db)
      /\ \A i \in 1..1 + Len(db) : db'[i] = IF i <= 1 THEN <<w>>[i] ELSE db[i - 1]
  BY <1>1, ConcatProperties
<1>3. DOMAIN db' = 1..1 + Len(db)
  BY <1>1, <1>2, LenProperties
<1>4. ASSUME NEW p \in 1..Len(db) PROVE db[p] \in ToSet(db')
  <2>1. p + 1 \in 1..1 + Len(db) /\ ~(p + 1 <= 1) /\ (p + 1) - 1 = p
    BY <1>1
  <2>2. db'[p + 1] = db[p]
    BY <1>2, <2>1
  <2> QED BY <1>3, <2>1, <2>2 DEF ToSet
<1> QED BY <1>1, <1>4 DEF ToSet

LEMMA ServedSettled ==
    ASSUME TypeOK, Kept, Known, NEW h \in Handlers, Served(h), NEW u \in Users, u \notin raced', Settled(u)
    PROVE  Settled(u)'
<1> DEFINE t == handler[h]
<1>1. /\ \A g \in Handlers \ {h} : Like(handler'[g], handler[g])
      /\ t \in Tasks /\ Busy(h) /\ t.step = "send"
      /\ handler'[h] = [t EXCEPT !.step = "served"]
      /\ Updated(t) \/ Deleted(t) \/ Created(t)
      /\ raced' = IF t.user # None /\ Overlapped(h) THEN raced \cup {t.user} ELSE raced
      /\ UNCHANGED <<users, loads>>
  BY ServedEffect DEF AllLike, page
<1>2. /\ handler'[h].kind = t.kind /\ handler'[h].user = t.user /\ handler'[h].step = "served"
      /\ handler'[h].field = t.field /\ handler'[h].to = t.to /\ t.field \in Fields /\ t.to \in BOOLEAN
      /\ t.kind \in {"update", "delete", "create"}
  BY <1>1 DEF Tasks
<1>3. ~DoneOn(h, u)
  BY <1>1 DEF DoneOn, Done
<1>4. \A g \in Handlers \ {h} : (DoneOn(g, u)' <=> DoneOn(g, u)) /\ Like(handler'[g], handler[g])
  BY <1>1 DEF DoneOn, Done, Busy, Like
<1>5. DoneOn(h, u)' <=> t.user = u
  BY <1>2 DEF DoneOn, Done, Busy
<1>6. /\ \A i \in DOMAIN users : users[i].id = u => RowRight(u, users[i].data)
      /\ \A i \in DOMAIN loads : PageRight(u, loads[i])
  BY DEF Settled
<1>7. /\ row \in [Users -> [Fields -> BOOLEAN]] /\ Tables /\ u # None
      /\ t.kind = "create" => t.user = None
  BY <1>1, UsersAssumption DEF TypeOK, Tables, Kept, Known, KnownTasks, KnownTask, Busy
<1>8. t.kind = "delete" => ToSet(db') = ToSet(db) \ {t.user} /\ row' = row
  BY <1>1, <1>7, DeletedFrom DEF Updated, Deleted, Created
<1>9. t.kind = "update" => db' = db /\ row' = [row EXCEPT ![t.user][t.field] = t.to] /\ t.user \in ToSet(db)
  BY <1>1 DEF Updated, Deleted, Created
<1>10. t.kind = "create" => ToSet(db) \subseteq ToSet(db') /\ row' = row
  BY <1>1, <1>7, CreatedKeeps DEF Updated, Deleted, Created
<1>11. CASE t.user # u
  <2>1. SameDone(u)
    BY <1>3, <1>4, <1>5, <1>11 DEF SameDone
  <2>2. (u \in ToSet(db) => u \in ToSet(db')) /\ row'[u] = row[u]
    BY <1>2, <1>7, <1>8, <1>9, <1>10, <1>11
  <2> QED BY <1>1, <1>6, <2>1, <2>2, SettledSame
<1>12. CASE t.user = u
  <2>1. ~Overlapped(h)
    BY <1>1, <1>7, <1>12
  <2>2. ASSUME NEW g \in Handlers PROVE ~DoneOn(g, u)
    BY <1>3, <1>12, <2>1 DEF Overlapped, DoneOn, Done, Busy, Idle
  <2>3. \A i \in DOMAIN loads : loads[i].got = None
    BY <2>1 DEF Overlapped
  <2>4. \A g \in Handlers : DoneOn(g, u)' <=> g = h
    BY <1>4, <1>5, <1>12, <2>2
  <2>5. \A i \in DOMAIN loads : PageRight(u, loads[i])'
    BY <2>3, <1>1 DEF PageRight
  <2>6. CASE t.kind = "update"
    <3>1. row'[u] = [row[u] EXCEPT ![t.field] = t.to] /\ row[u] \in [Fields -> BOOLEAN] /\ u \in ToSet(db) /\ db' = db
      BY <1>7, <1>9, <1>12, <2>6
    <3>2. row'[u][t.field] = t.to
      BY <1>2, <3>1
    <3>3. ASSUME NEW i \in DOMAIN users, users[i].id = u PROVE RowRight(u, users[i].data)'
      <4>1. users[i].data = row[u]
        BY <1>6, <2>2, <3>3 DEF RowRight
      <4>2. users'[i].data = row[u] /\ \E g \in Handlers : DoneOn(g, u)'
        BY <1>1, <2>4, <4>1
      <4>3. ASSUME NEW g \in Handlers, DoneOn(g, u)'
            PROVE  u \in ToSet(db') /\ [users'[i].data EXCEPT ![handler'[g].field] = handler'[g].to] = row'[u]
        BY <1>2, <2>4, <3>1, <4>2, <4>3
      <4> QED BY <4>2, <4>3 DEF RowRight
    <3> QED BY <1>1, <1>2, <2>4, <2>5, <3>2, <3>3 DEF Settled
  <2>7. CASE t.kind = "delete"
    <3>1. \A data : RowRight(u, data)'
      BY <1>2, <2>4, <2>7 DEF RowRight
    <3> QED BY <1>1, <1>2, <2>4, <2>5, <2>7, <3>1 DEF Settled
  <2> QED BY <1>2, <1>7, <1>12, <2>6, <2>7
<1> QED BY <1>11, <1>12

LEMMA EndSettled ==
    ASSUME TypeOK, Kept, Known, NEW h \in Handlers, Answered(h) \/ Failed(h),
           NEW u \in Users, u \notin raced', Settled(u)
    PROVE  Settled(u)'
<1> DEFINE t == handler[h]
<1>1. /\ \A g \in Handlers \ {h} : Like(handler'[g], handler[g])
      /\ handler'[h] = Idle /\ t \in Tasks /\ Busy(h) /\ UNCHANGED <<db, row>>
  BY EndEffect DEF AllLike
<1>2. ~DoneOn(h, u)'
  BY <1>1 DEF DoneOn, Done, Busy, Idle
<1>3. \A g \in Handlers \ {h} : (DoneOn(g, u)' <=> DoneOn(g, u)) /\ Like(handler'[g], handler[g])
  BY <1>1 DEF DoneOn, Done, Busy, Like
<1>4. /\ \A i \in DOMAIN users : users[i].id = u => RowRight(u, users[i].data)
      /\ \A i \in DOMAIN loads : PageRight(u, loads[i])
  BY DEF Settled
<1>5. ASSUME ~DoneOn(h, u), \A i \in DOMAIN users' : users'[i].id = u => RowRight(u, users'[i].data),
             \A i \in DOMAIN loads' : PageRight(u, loads'[i])
      PROVE  Settled(u)'
  <2>1. SameDone(u)
    BY <1>2, <1>3, <1>5 DEF SameDone
  <2> QED BY <1>1, <1>5, <2>1, SettledSame
<1>6. CASE Failed(h)
  <2>1. /\ DOMAIN loads' = DOMAIN loads /\ \A i \in DOMAIN loads : Descends(loads'[i], loads[i])
        /\ users' = users
    BY <1>6, FailedLoads
  <2>2. ~DoneOn(h, u)
    <3>1. CASE t.step = "send"
      BY <3>1 DEF DoneOn, Done
    <3>2. CASE t.step # "send"
      <4>1. raced' = raced \cup ({t.user} \ {None})
        BY <1>6, <3>2, FailedLoads
      <4> QED BY <4>1, UsersAssumption DEF DoneOn
    <3> QED BY <3>1, <3>2
  <2>3. \A i \in DOMAIN loads : PageRight(u, loads'[i])
    BY <1>4, <2>1 DEF PageRight, Descends
  <2> QED BY <1>4, <1>5, <2>1, <2>2, <2>3
<1>7. CASE Answered(h)
  <2>1. t.kind \in {"create", "update", "delete"} /\ t.step = "served"
    BY <1>7, AnsweredEffect
  <2>2. CASE t.kind = "create"
    <3>1. Load(None, TRUE, t.search) /\ t.search \in Searches /\ t.user = None /\ u # None
      BY <1>1, <1>7, <2>2, AnsweredEffect, UsersAssumption DEF Known, KnownTasks, KnownTask, Busy
    <3>2. ~DoneOn(h, u)
      BY <3>1 DEF DoneOn
    <3>3. users' = users /\ \A i \in DOMAIN loads' : PageRight(u, loads'[i])
      BY <3>1, LoadSettled
    <3> QED BY <1>4, <1>5, <3>2, <3>3
  <2>3. CASE t.kind = "update"
    <3>1. loads' = loads /\ users' = Patch(t)
      BY <1>7, <2>3, AnsweredEffect
    <3>2. IsPatched(users', t)
      BY <1>1, <3>1, PatchedRows
    <3>3. CASE t.user # u
      <4>1. ~DoneOn(h, u)
        BY <3>3 DEF DoneOn
      <4>2. \A i \in DOMAIN users' : users'[i].id = u => i \in DOMAIN users /\ users'[i] = users[i]
        BY <3>2, <3>3 DEF IsPatched
      <4> QED BY <1>4, <1>5, <3>1, <4>1, <4>2
    <3>4. CASE t.user = u
      <4>1. DoneOn(h, u)
        BY <1>1, <2>1, <3>4 DEF DoneOn, Done
      <4>2. \A g \in Handlers : ~DoneOn(g, u)'
        BY <1>2, <1>3, <4>1 DEF Settled
      <4>3. ASSUME NEW i \in DOMAIN users', users'[i].id = u PROVE RowRight(u, users[i].data)'
        <5>1. i \in DOMAIN users /\ users[i].id = u /\ users'[i].data = [users[i].data EXCEPT ![t.field] = t.to]
          BY <3>2, <3>4, <4>3 DEF IsPatched
        <5>2. u \in ToSet(db) /\ users'[i].data = row[u]
          BY <1>4, <2>3, <4>1, <5>1 DEF RowRight
        <5> QED BY <1>1, <4>2, <5>2 DEF RowRight
      <4>4. \A i \in DOMAIN loads' : PageRight(u, loads[i])'
        BY <1>1, <1>4, <3>1 DEF PageRight
      <4> QED BY <4>2, <4>3, <4>4 DEF Settled
    <3> QED BY <3>3, <3>4
  <2>4. CASE t.kind = "delete"
    <3>1. loads' = loads /\ users' = Select(users, Others(t.user))
      BY <1>7, <2>4, AnsweredEffect
    <3>2. /\ users' \in Seq(Rows)
          /\ \E at \in [1..Len(users') -> 1..Len(users)] :
                \A i \in 1..Len(users') : users'[i] = users[at[i]] /\ users'[i].id # t.user
      BY <3>1, RemovedRows
    <3>3. DOMAIN users' = 1..Len(users') /\ DOMAIN users = 1..Len(users)
      BY <3>2, LenProperties DEF TypeOK
    <3>4. \A i \in DOMAIN users' : users'[i].id # t.user /\ \E j \in DOMAIN users : users'[i] = users[j]
      BY <3>2, <3>3
    <3>5. CASE t.user # u
      <4>1. ~DoneOn(h, u)
        BY <3>5 DEF DoneOn
      <4> QED BY <1>4, <1>5, <3>1, <3>4, <4>1
    <3>6. CASE t.user = u
      <4>1. DoneOn(h, u)
        BY <1>1, <2>1, <3>6 DEF DoneOn, Done
      <4>2. \A g \in Handlers : ~DoneOn(g, u)'
        BY <1>2, <1>3, <4>1 DEF Settled
      <4>3. \A i \in DOMAIN users' : users'[i].id # u
        BY <3>4, <3>6
      <4>4. \A i \in DOMAIN loads' : PageRight(u, loads[i])'
        BY <1>1, <1>4, <3>1 DEF PageRight
      <4> QED BY <4>2, <4>3, <4>4 DEF Settled
    <3> QED BY <3>5, <3>6
  <2> QED BY <2>1, <2>2, <2>3, <2>4
<1> QED BY <1>6, <1>7

LEMMA RowsNext ==
    ASSUME TypeOK, Kept, Known, RowsInv, [Next]_vars
    PROVE  RowsInv'
<1> SUFFICES ASSUME NEW u \in Users, u \notin raced' PROVE Settled(u)'
  BY DEF RowsInv
<1>1. CASE PageStep
  <2>1. raced' = raced
    BY <1>1, PageEffect
  <2> QED BY <1>1, <2>1, PageSettled DEF RowsInv
<1>2. CASE Talk
  <2>1. /\ UNCHANGED <<db, row, users, loads, raced>>
        /\ \A h \in Handlers : Like(handler'[h], handler[h]) \/ Talks(h)
    BY <1>2 DEF Talk
  <2>2. SameDone(u)
    BY <2>1 DEF SameDone, DoneOn, Done, Busy, Like, Talks
  <2>3. Settled(u)
    BY <2>1 DEF RowsInv
  <2>4. /\ \A i \in DOMAIN users : users[i].id = u => RowRight(u, users[i].data)
        /\ \A i \in DOMAIN loads : PageRight(u, loads[i])
    BY <2>3 DEF Settled
  <2> QED BY <2>1, <2>2, <2>3, <2>4, SettledSame
<1>3. ASSUME NEW h \in Handlers, Served(h) PROVE Settled(u)'
  <2>1. raced \subseteq raced'
    BY <1>3, ServedEffect
  <2>2. Settled(u)
    BY <2>1 DEF RowsInv
  <2> QED BY <1>3, <2>2, ServedSettled
<1>4. ASSUME NEW h \in Handlers, Answered(h) \/ Failed(h) PROVE Settled(u)'
  <2>1. raced \subseteq raced'
    BY <1>4, AnsweredEffect, FailedLoads
  <2>2. Settled(u)
    BY <2>1 DEF RowsInv
  <2> QED BY <1>4, <2>2, EndSettled
<1> QED BY <1>1, <1>2, <1>3, <1>4, Steps

-----------------------------------------------------------------------------
(* The list. *)

LEMMA HalfwaySame ==
    ASSUME \A h \in Handlers : Like(handler'[h], handler[h]) \/ (~Done(h) /\ ~Done(h)')
    PROVE  Halfway' <=> Halfway
BY DEF Halfway, Done, Busy, Like

(* A request has been added, for a page that replaces the list or for the next
   one. *)
LEMMA LoadTold ==
    ASSUME TypeOK, Kept, NEW after \in Users \cup {None}, NEW replace \in BOOLEAN, NEW of \in Searches,
           replace <=> after = None, Load(after, replace, of),
           UNCHANGED <<db, search, behind>>,
           replace \/ (ListTold /\ after = cursor)
    PROVE  ListTold'
<1>1. PICK n : /\ DOMAIN loads' = DOMAIN loads \cup {n} /\ loads'[n] = Request(after, replace, of)
               /\ \A i \in DOMAIN loads : Descends(loads'[i], loads[i]) /\ ~loads'[i].fresh
  BY LoadEffect
<1>2. /\ loads'[n].after = after /\ loads'[n].replace = replace /\ loads'[n].search = of
      /\ loads'[n].got = None /\ loads'[n].fresh /\ n \in DOMAIN loads'
  BY <1>1 DEF Request
<1>3. users' = users /\ cursor' = cursor
  BY DEF Load
<1>4. \A i \in DOMAIN loads' : Replaces(loads[i])'
  BY <1>1, <1>2 DEF Replaces
<1>5. replace => ToBeReplaced'
  BY <1>2 DEF ToBeReplaced
<1>6. ToBeReplaced => ToBeReplaced'
  BY <1>1 DEF ToBeReplaced
<1>7. ASSUME Whole, after = cursor PROVE Whole'
  <2>1. Begins(users, cursor, db, search)'
    BY <1>3, <1>7 DEF Whole
  <2>2. \A i \in DOMAIN loads' : Continues(loads[i])'
    BY <1>1, <1>2, <1>3, <1>7 DEF Continues
  <2> QED BY <2>1, <2>2 DEF Whole
<1> QED BY <1>4, <1>5, <1>6, <1>7 DEF ListTold

(* A page has been read: the first one of the search, or the one after the
   list, unless its row was deleted. *)
LEMMA LoadServedTold ==
    ASSUME TypeOK, Kept, NEW i \in DOMAIN loads, LoadServed(i), ListTold
    PROVE  ListTold'
<1> DEFINE l == loads[i]
           p == Page(l.after, l.search)
<1>1. /\ DOMAIN loads' = DOMAIN loads /\ \A j \in DOMAIN loads \ {i} : loads'[j] = loads[j]
      /\ loads'[i] = [l EXCEPT !.got = p, !.fresh = @ /\ l.after \in ToSet(db) \cup {None}]
      /\ l.got = None /\ UNCHANGED <<db, users, cursor, search, behind>>
  BY LoadServedEffect DEF server, history
<1>2. l \in Loads /\ Tables /\ (l.replace <=> l.after = None)
  BY LoadsFacts DEF TypeOK, Kept, Tables
<1>3. /\ loads'[i].after = l.after /\ loads'[i].replace = l.replace /\ loads'[i].search = l.search
      /\ loads'[i].got = p /\ (loads'[i].fresh <=> l.fresh /\ l.after \in ToSet(db) \cup {None})
  BY <1>1, <1>2 DEF Loads
<1>4. l.after \in Users \cup {None} /\ users \in Seq(Rows)
  BY <1>2 DEF Loads, TypeOK
<1>5. l.replace /\ l.search = search => Begins(p.items, p.next, db, search)
  BY <1>2, FirstPageBegins
<1> HIDE DEF l, p
<1>6. Replaces(loads[i])'
  BY <1>1, <1>3, <1>5 DEF Replaces
<1>7. \A j \in DOMAIN loads' : Replaces(loads[j])'
  BY <1>1, <1>6 DEF Replaces, ListTold
<1>8. ToBeReplaced => ToBeReplaced'
  <2> SUFFICES ASSUME ToBeReplaced PROVE ToBeReplaced'
    OBVIOUS
  <2>1. PICK j \in DOMAIN loads : ~loads[j].fresh \/ loads[j].replace \/ loads[j].search # search
    BY DEF ToBeReplaced
  <2>2. j \in DOMAIN loads' /\ (~loads'[j].fresh \/ loads'[j].replace \/ loads'[j].search # search')
    BY <1>1, <1>3, <2>1 DEF l
  <2> QED BY <2>2 DEF ToBeReplaced
<1>9. ASSUME Whole PROVE ToBeReplaced' \/ Whole'
  <2>1. Begins(users, cursor, db, search)'
    BY <1>1, <1>9 DEF Whole
  <2>2. CASE loads'[i].replace \/ loads'[i].search # search
    BY <1>1, <2>2 DEF ToBeReplaced
  <2>3. CASE ~loads'[i].replace /\ loads'[i].search = search
    <3>1. ASSUME loads'[i].fresh PROVE l.after = cursor /\ Begins(users \o p.items, p.next, db, search)
      <4>1. l.fresh /\ l.after \in ToSet(db) /\ l.search = search
        BY <1>2, <1>3, <1>4, <2>3, <3>1
      <4>2. l.after = cursor
        BY <1>1, <1>9, <4>1 DEF Whole, Continues, l
      <4>3. Begins(users, l.after, db, search)
        BY <1>9, <4>2 DEF Whole
      <4>4. p = Page(l.after, search)
        BY <4>1 DEF p
      <4> QED BY <1>2, <1>4, <4>1, <4>2, <4>3, <4>4, NextPageBegins
    <3>2. Continues(loads[i])'
      BY <1>1, <1>3, <3>1 DEF Continues
    <3>3. \A j \in DOMAIN loads' : Continues(loads[j])'
      BY <1>1, <1>9, <3>2 DEF Continues, Whole
    <3> QED BY <2>1, <3>3 DEF Whole
  <2> QED BY <2>2, <2>3
<1> QED BY <1>1, <1>7, <1>8, <1>9 DEF ListTold

(* A request has ended: its page replaces the list or is appended to it, unless
   it is an older one's or another search's. *)
LEMMA LoadEndsTold ==
    ASSUME TypeOK, Kept, NEW i \in DOMAIN loads, NEW ok \in BOOLEAN, LoadEnds(i, ok), ListTold
    PROVE  ListTold'
<1> DEFINE l == loads[i]
           late == ~l.fresh \/ l.search # search
<1>1. /\ ok => l.got # None
      /\ users' = IF ~ok THEN users ELSE IF l.replace THEN l.got.items ELSE users \o l.got.items
      /\ cursor' = IF ok THEN l.got.next ELSE cursor
      /\ behind' = IF l.replace /\ ok THEN late ELSE behind \/ late \/ l.replace
      /\ loads' = RemoveAt(loads, i) /\ UNCHANGED <<db, search>>
  BY DEF LoadEnds, server
<1>2. /\ \A k \in DOMAIN loads' : \E j \in DOMAIN loads \ {i} : loads'[k] = loads[j]
      /\ \A j \in DOMAIN loads \ {i} : \E k \in DOMAIN loads' : loads'[k] = loads[j]
  BY <1>1, LoadEndsEffect
<1>3. \A k \in DOMAIN loads' : Replaces(loads[k])'
  BY <1>1, <1>2 DEF Replaces, ListTold
<1>4. ASSUME ~late PROVE Whole' <=> Begins(users, cursor, db, search)'
  <2>1. \A j \in DOMAIN loads \ {i} : ~loads[j].fresh
    BY <1>4 DEF Kept
  <2>2. \A k \in DOMAIN loads' : ~loads'[k].fresh
    BY <1>2, <2>1
  <2>3. \A k \in DOMAIN loads' : Continues(loads[k])'
    BY <2>2 DEF Continues
  <2> QED BY <2>3 DEF Whole
<1>5. Replaces(l)
  BY DEF ListTold
<1> HIDE DEF l
<1>6. ASSUME l.replace, ok, ~late PROVE Whole'
  <2>1. Begins(l.got.items, l.got.next, db, search)
    BY <1>1, <1>5, <1>6 DEF Replaces
  <2>2. users' = l.got.items /\ cursor' = l.got.next
    BY <1>1, <1>6
  <2> QED BY <1>1, <1>4, <1>6, <2>1, <2>2
<1>7. ASSUME ~l.replace, ~late, ToBeReplaced PROVE ToBeReplaced'
  <2>1. PICK j \in DOMAIN loads : ~loads[j].fresh \/ loads[j].replace \/ loads[j].search # search
    BY <1>7 DEF ToBeReplaced
  <2>2. j # i
    BY <1>7, <2>1 DEF l
  <2>3. PICK k \in DOMAIN loads' : loads'[k] = loads[j]
    BY <1>2, <2>2
  <2> QED BY <1>1, <2>1, <2>3 DEF ToBeReplaced
<1>8. ASSUME ~l.replace, ~late, Whole PROVE Whole'
  <2>1. CASE ok
    <3>1. users' = users \o l.got.items /\ cursor' = l.got.next /\ l.got # None
      BY <1>1, <1>8, <2>1
    <3>2. Begins(users \o l.got.items, l.got.next, db, search)
      BY <1>8, <3>1 DEF Whole, Continues, l
    <3> QED BY <1>1, <1>4, <1>8, <3>1, <3>2
  <2>2. CASE ~ok
    <3>1. users' = users /\ cursor' = cursor
      BY <1>1, <2>2
    <3>2. Begins(users, cursor, db, search)
      BY <1>8 DEF Whole
    <3> QED BY <1>1, <1>4, <1>8, <3>1, <3>2
  <2> QED BY <2>1, <2>2
<1>9. behind' \/ ToBeReplaced' \/ Whole'
  BY <1>1, <1>6, <1>7, <1>8 DEF ListTold
<1> QED BY <1>3, <1>9 DEF ListTold

(* A change of an account is done: one deleted leaves the others in order. *)
LEMMA ServedTold ==
    ASSUME TypeOK, Kept, NEW h \in Handlers, Served(h), handler[h].kind # "create", ListTold
    PROVE  ListTold'
<1>1. /\ Updated(handler[h]) \/ Deleted(handler[h])
      /\ UNCHANGED <<users, cursor, search, loads, behind>>
  BY ServedEffect DEF page, Created
<1>2. Tables
  BY DEF TypeOK, Kept, Tables
<1>3. ASSUME NEW rows, NEW next, Begins(rows, next, db, search) PROVE Begins(rows, next, db', search)
  <2>1. CASE Updated(handler[h])
    BY <1>3, <2>1 DEF Updated
  <2>2. CASE Deleted(handler[h])
    <3> DEFINE rest == Select(db, Users \ {handler[h].user})
    <3>1. db' = rest
      BY <2>2 DEF Deleted
    <3>2. Begins(rows, next, rest, search)
      <4> HIDE DEF rest
      <4>1. rest = Select(db, Users \ {handler[h].user})
        BY DEF rest
      <4> QED BY <1>2, <1>3, <4>1, DeletionBegins
    <3> QED BY <3>1, <3>2
  <2> QED BY <1>1, <2>1, <2>2
<1>4. \A i \in DOMAIN loads' : Replaces(loads[i])'
  BY <1>1, <1>3 DEF ListTold, Replaces
<1>5. ToBeReplaced => ToBeReplaced'
  BY <1>1 DEF ToBeReplaced
<1>6. ASSUME Whole PROVE Whole'
  <2>1. Begins(users, cursor, db, search)'
    BY <1>1, <1>3, <1>6 DEF Whole
  <2>2. \A i \in DOMAIN loads' : Continues(loads[i])'
    BY <1>1, <1>3, <1>6 DEF Whole, Continues
  <2> QED BY <2>1, <2>2 DEF Whole
<1> QED BY <1>1, <1>4, <1>5, <1>6 DEF ListTold

(* An answer changes rows or leaves out those of an account that is gone; one
   of an account created asks for the first page. *)
LEMMA KeptRows ==
    ASSUME TypeOK, Kept, Gone, NEW h \in Handlers, Answered(h), handler[h].kind # "create"
    PROVE  /\ users' \in Seq(Rows)
           /\ \E at \in [1..Len(users') -> 1..Len(users)] :
                  /\ \A i \in 1..Len(users') : users'[i].id = users[at[i]].id
                  /\ \A i, j \in 1..Len(users') : i < j => at[i] < at[j]
                  /\ \A i \in 1..Len(users) : users[i].id \in ToSet(db) =>
                         \E j \in 1..Len(users') : users'[j].id = users[i].id
<1> DEFINE t == handler[h]
<1>1. t \in Tasks /\ Busy(h) /\ t.step = "served" /\ t.kind \in {"update", "delete"}
  BY EndEffect, AnsweredEffect
<1>2. DOMAIN users = 1..Len(users) /\ Len(users) \in Nat
  BY LenProperties DEF TypeOK
<1>3. CASE t.kind = "update"
  <2>1. users' = Patch(t)
    BY <1>3, AnsweredEffect
  <2>2. IsPatched(users', t)
    BY <1>1, <2>1, PatchedRows
  <2>3. /\ users' \in Seq(Rows) /\ Len(users') = Len(users)
        /\ \A i \in 1..Len(users) : users'[i].id = users[i].id
    BY <1>2, <2>2 DEF IsPatched
  <2> DEFINE at == [i \in 1..Len(users) |-> i]
  <2>4. at \in [1..Len(users) -> 1..Len(users)] /\ \A i \in 1..Len(users) : at[i] = i
    OBVIOUS
  <2> HIDE DEF at
  <2> QED BY <2>3, <2>4
<1>4. CASE t.kind = "delete"
  <2>1. users' = Select(users, Others(t.user))
    BY <1>4, AnsweredEffect
  <2>2. t.user \notin ToSet(db)
    BY <1>1, <1>4 DEF Gone, Done
  <2>3. /\ users' \in Seq(Rows)
        /\ \E at \in [1..Len(users') -> 1..Len(users)] :
               /\ \A i, j \in 1..Len(users') : i < j => at[i] < at[j]
               /\ \A i \in 1..Len(users') : users'[i] = users[at[i]] /\ users'[i].id # t.user
               /\ \A i \in 1..Len(users) : users[i].id # t.user => \E j \in 1..Len(users') : users'[j].id = users[i].id
    BY <2>1, RemovedRows
  <2> QED BY <2>2, <2>3
<1> QED BY <1>1, <1>3, <1>4

LEMMA AnsweredTold ==
    ASSUME TypeOK, Kept, Gone, NEW h \in Handlers, Answered(h), handler[h].kind # "create" => ListTold
    PROVE  ListTold'
<1>1. UNCHANGED <<db, search, behind>>
  BY EndEffect, AnsweredEffect
<1>2. CASE handler[h].kind = "create"
  <2>1. Load(None, TRUE, handler[h].search) /\ handler[h].search \in Searches
    BY <1>2, AnsweredEffect
  <2> QED BY <1>1, <2>1, LoadTold
<1>3. CASE handler[h].kind # "create"
  <2>1. UNCHANGED <<cursor, loads>>
    BY <1>3, AnsweredEffect
  <2>2. users \in Seq(Rows) /\ users' \in Seq(Rows)
    BY <1>3, KeptRows DEF TypeOK
  <2>3. PICK at \in [1..Len(users') -> 1..Len(users)] :
            /\ \A i \in 1..Len(users') : users'[i].id = users[at[i]].id
            /\ \A i, j \in 1..Len(users') : i < j => at[i] < at[j]
            /\ \A i \in 1..Len(users) : users[i].id \in ToSet(db) =>
                   \E j \in 1..Len(users') : users'[j].id = users[i].id
    BY <1>3, KeptRows
  <2>4. ASSUME NEW more \in Seq(Rows), NEW next, Begins(users \o more, next, db, search)
        PROVE  Begins(users' \o more, next, db, search)
    BY <2>2, <2>3, <2>4, KeptBegins
  <2>5. ASSUME NEW next, Begins(users, next, db, search) PROVE Begins(users', next, db, search)
    <3>1. <<>> \in Seq(Rows) /\ users \o <<>> = users /\ users' \o <<>> = users'
      BY <2>2, ConcatEmptySeq, EmptySeq
    <3>2. Begins(users \o <<>>, next, db, search)
      BY <2>5, <3>1
    <3> QED BY <2>4, <3>1, <3>2
  <2>6. \A i \in DOMAIN loads' : Replaces(loads[i])'
    BY <1>1, <1>3, <2>1 DEF ListTold, Replaces
  <2>7. ToBeReplaced => ToBeReplaced'
    BY <1>1, <2>1 DEF ToBeReplaced
  <2>8. ASSUME Whole PROVE Whole'
    <3>1. Begins(users, cursor, db, search)'
      BY <1>1, <2>1, <2>5, <2>8 DEF Whole
    <3>2. ASSUME NEW i \in DOMAIN loads PROVE Continues(loads[i])'
      <4>1. CASE loads[i].got = None \/ ~loads[i].fresh
        BY <2>1, <2>8, <4>1 DEF Whole, Continues
      <4>2. CASE loads[i].got # None /\ loads[i].fresh
        <5>1. loads[i].got.items \in Seq(Rows) /\ Begins(users \o loads[i].got.items, loads[i].got.next, db, search)
          BY <2>8, <4>2, LoadsFacts DEF Whole, Continues, Answers
        <5>2. Begins(users' \o loads[i].got.items, loads[i].got.next, db, search)
          BY <2>4, <5>1
        <5> QED BY <1>1, <2>1, <4>2, <5>2 DEF Continues
      <4> QED BY <4>1, <4>2
    <3> QED BY <2>1, <3>1, <3>2 DEF Whole
  <2> QED BY <1>1, <1>3, <2>6, <2>7, <2>8 DEF ListTold
<1> QED BY <1>2, <1>3

(* A handler has failed: an account it created is not told of, and no answer
   given before the server was changed makes the list whole. *)
LEMMA FailedTold ==
    ASSUME TypeOK, Kept, NEW h \in Handlers, Failed(h),
           (handler[h].kind = "create" /\ handler[h].step # "send") \/ ListTold
    PROVE  ListTold'
<1>1. /\ UNCHANGED <<db, search, users, cursor>> /\ DOMAIN loads' = DOMAIN loads
      /\ \A i \in DOMAIN loads : Descends(loads'[i], loads[i])
  BY EndEffect, FailedLoads
<1>2. behind => behind'
  BY FailedLoads
<1>3. ToBeReplaced => ToBeReplaced'
  BY <1>1 DEF ToBeReplaced, Descends
<1>4. ASSUME Whole PROVE Whole'
  <2>1. \A i \in DOMAIN loads' : Continues(loads[i])'
    BY <1>1, <1>4 DEF Whole, Continues, Descends
  <2> QED BY <1>1, <1>4, <2>1 DEF Whole
<1>5. CASE handler[h].step = "send" /\ ListTold
  <2>1. loads' = loads
    BY <1>5, FailedLoads
  <2>2. \A i \in DOMAIN loads' : Replaces(loads[i])'
    BY <1>1, <1>5, <2>1 DEF Replaces, ListTold
  <2> QED BY <1>2, <1>3, <1>4, <1>5, <2>2 DEF ListTold
<1>6. CASE handler[h].step # "send"
  <2>1. \A i \in DOMAIN loads : loads'[i].fresh => loads[i].got = None
    BY <1>6, FailedLoads
  <2>2. \A i \in DOMAIN loads' : Replaces(loads[i])'
    BY <1>1, <2>1 DEF Replaces, Descends
  <2>3. handler[h].kind = "create" => behind'
    BY <1>6, FailedLoads
  <2> QED BY <1>2, <1>3, <1>4, <2>2, <2>3 DEF ListTold
<1> QED BY <1>5, <1>6

LEMMA ToldNext ==
    ASSUME TypeOK, Kept, Known, Gone, Told, [Next]_vars
    PROVE  Told'
<1> SUFFICES ASSUME ~timer', ~Halfway' PROVE ListTold'
  BY DEF Told
<1>1. ASSUME PageStep PROVE ListTold'
  <2>1. Halfway' <=> Halfway
    BY <1>1, PageEffect, HalfwaySame DEF AllLike
  <2>2. timer \/ ListTold
    BY <2>1 DEF Told
  <2>3. search \in Searches /\ cursor \in Users \cup {None} /\ db' = db
    BY <1>1, PageEffect DEF TypeOK
  <2>4. ASSUME TimerFires \/ Reload PROVE ListTold'
    <3>1. Load(None, TRUE, search) /\ UNCHANGED <<db, search, behind>>
      BY <2>4 DEF TimerFires, Reload, server, history
    <3> QED BY <2>3, <3>1, LoadTold
  <2>5. ASSUME LoadMore PROVE ListTold'
    <3>1. cursor # None /\ Load(cursor, FALSE, search) /\ UNCHANGED <<db, search, behind, timer>>
      BY <2>5 DEF LoadMore, server, history
    <3> QED BY <2>2, <2>3, <3>1, LoadTold
  <2>6. ASSUME NEW i \in DOMAIN loads, LoadServed(i) PROVE ListTold'
    <3>1. timer' = timer
      BY <2>6, LoadServedEffect
    <3> QED BY <2>2, <2>6, <3>1, LoadServedTold
  <2>7. ASSUME NEW i \in DOMAIN loads, NEW ok \in BOOLEAN, LoadEnds(i, ok) PROVE ListTold'
    <3>1. timer' = timer
      BY <2>7 DEF LoadEnds
    <3> QED BY <2>2, <2>7, <3>1, LoadEndsTold
  <2>8. ASSUME NEW s \in Searches, TypeSearch(s) PROVE FALSE
    BY <2>8 DEF TypeSearch
  <2> QED BY <1>1, <2>4, <2>5, <2>6, <2>7, <2>8 DEF PageStep
<1>2. ASSUME Talk PROVE ListTold'
  <2>1. /\ UNCHANGED <<db, users, cursor, search, timer, loads, behind>>
        /\ \A h \in Handlers : Like(handler'[h], handler[h]) \/ Talks(h)
    BY <1>2 DEF Talk
  <2>2. Halfway' <=> Halfway
    BY <2>1, HalfwaySame DEF Talks, Done, Busy
  <2>3. ListTold
    BY <2>1, <2>2 DEF Told
  <2> QED BY <2>1, <2>3 DEF ListTold, Replaces, ToBeReplaced, Whole, Continues
<1>3. ASSUME NEW h \in Handlers, Served(h) PROVE ListTold'
  <2>1. /\ handler[h] \in Tasks /\ handler[h].step = "send" /\ Busy(h)
        /\ handler'[h] = [handler[h] EXCEPT !.step = "served"] /\ timer' = timer
        /\ \A g \in Handlers \ {h} : Like(handler'[g], handler[g])
    BY <1>3, ServedEffect DEF page, AllLike
  <2>2. handler'[h].kind = handler[h].kind /\ handler'[h].step = "served"
    BY <2>1 DEF Tasks
  <2>3. handler[h].kind # "create"
    BY <2>1, <2>2 DEF Halfway, Done, Busy
  <2>4. ~Halfway
    BY <2>1 DEF Halfway, Done, Busy, Like
  <2>5. ListTold
    BY <2>1, <2>4 DEF Told
  <2> QED BY <1>3, <2>3, <2>5, ServedTold
<1>4. ASSUME NEW h \in Handlers, Answered(h) \/ Failed(h) PROVE ListTold'
  <2>1. /\ \A g \in Handlers \ {h} : Like(handler'[g], handler[g])
        /\ handler[h] \in Tasks /\ Busy(h) /\ handler[h].step # "ask" /\ timer' = timer
    BY <1>4, EndEffect DEF AllLike
  <2>2. (handler[h].kind = "create" /\ handler[h].step # "send") \/ ListTold
    <3>1. ASSUME ~(handler[h].kind = "create" /\ handler[h].step # "send") PROVE ~Halfway
      BY <2>1, <3>1 DEF Halfway, Done, Busy, Like
    <3> QED BY <2>1, <3>1 DEF Told
  <2> QED BY <1>4, <2>2, AnsweredTold, FailedTold
<1> QED BY <1>1, <1>2, <1>3, <1>4, Steps

-----------------------------------------------------------------------------
(* The invariant. *)

LEMMA InitIInv ==
    ASSUME Init
    PROVE  IInv
<1>1. /\ db \in Seq(Users) /\ IsInjective(db) /\ known = ToSet(db)
      /\ row = [u \in Users |-> [f \in Fields |-> FALSE]]
      /\ search = Users /\ timer = FALSE
      /\ users = Page(None, Users).items /\ cursor = Page(None, Users).next
      /\ loading = FALSE /\ loadingMore = FALSE /\ loads = <<>> /\ asked = 0
      /\ editing = None /\ creating = FALSE /\ confirming = None
      /\ handler = [h \in Handlers |-> Idle] /\ clicks = 0
      /\ raced = {} /\ behind = FALSE
  BY UsersAssumption DEF Init
<1>2. row \in [Users -> [Fields -> BOOLEAN]] /\ Tables /\ known \subseteq Users
  BY <1>1, DbFacts DEF Tables
<1>3. /\ users \in Seq(Rows) /\ cursor \in Users \cup {None} /\ cursor \in known \cup {None}
      /\ \A i \in DOMAIN users : users[i].id \in known /\ users[i].data = row[users[i].id]
  <2> DEFINE p == Page(None, Users)
  <2>1. /\ p \in Answers /\ p.next \in ToSet(db) \cup {None}
        /\ \A i \in DOMAIN p.items : p.items[i].id \in ToSet(db) /\ p.items[i].data = row[p.items[i].id]
    <3>1. None \in Users \cup {None} /\ Tables
      BY <1>2
    <3> QED BY <3>1, PageRows
  <2>2. users = p.items /\ cursor = p.next /\ known = ToSet(db)
    BY <1>1
  <2> HIDE DEF p
  <2> QED BY <2>1, <2>2 DEF Answers
<1>4. DOMAIN loads = {} /\ loads \in Seq(Loads)
  BY <1>1, EmptySeq
<1>5. \A h \in Handlers : ~Busy(h)
  BY <1>1 DEF Busy, Idle
<1>6. TypeOK
  <2>1. search \in Searches /\ clicks \in 0..MaxClicks /\ asked \in 0..MaxAsked
    BY <1>1, UsersAssumption
  <2>2. handler \in [Handlers -> Tasks \cup {Idle}]
    BY <1>1
  <2> QED BY <1>1, <1>2, <1>3, <1>4, <2>1, <2>2 DEF TypeOK
<1>7. Kept
  BY <1>1, <1>4 DEF Kept
<1>8. Known
  <2>1. KnownPage
    BY <1>3, <1>4 DEF KnownPage, KnownRows
  <2>2. KnownTasks
    BY <1>5 DEF KnownTasks, KnownTask, Busy
  <2> QED BY <2>1, <2>2 DEF Known
<1>9. Agreement /\ Gone
  BY <1>5, <1>1 DEF Agreement, Consented, NeedsConsent, Gone, Done, Idle
<1>10. RowsInv
  <2> SUFFICES ASSUME NEW u \in Users PROVE Settled(u)
    BY DEF RowsInv
  <2>1. \A h \in Handlers : ~DoneOn(h, u)
    BY <1>5 DEF DoneOn, Done
  <2>2. \A i \in DOMAIN users : users[i].id = u => RowRight(u, users[i].data)
    BY <1>1, <1>3, <2>1 DEF RowRight
  <2> QED BY <1>4, <2>1, <2>2 DEF Settled
<1>11. Told
  <2>1. Begins(users, cursor, db, search)
    BY <1>1, <1>2, FirstPageBegins
  <2> QED BY <1>4, <2>1 DEF Told, ListTold, Whole
<1> QED BY <1>6, <1>7, <1>8, <1>9, <1>10, <1>11 DEF IInv

LEMMA NextIInv ==
    ASSUME IInv, [Next]_vars
    PROVE  IInv'
<1>1. (TypeOK /\ Kept)'
  <2>1. TypeOK /\ Kept /\ Known
    BY DEF IInv
  <2> QED BY <2>1, Steps, PageTypes, TalkTypes, ServedTypes, EndTypes
<1>2. KnownPage' /\ TasksKept'
  BY KnownPageNext, TasksNext DEF IInv
<1>3. RowsInv'
  BY RowsNext DEF IInv
<1>4. Told'
  BY ToldNext DEF IInv
<1> QED BY <1>1, <1>2, <1>3, <1>4 DEF IInv, Known, TasksKept

(* Agreements, rows and the list of the page with useUsers.ts, its dialogs and
   AdminUsersService. *)
THEOREM UsersInvariant == Spec => []IInv
BY InitIInv, NextIInv, PTL DEF Spec

(* Tables, pages and handlers keep their types, no page is longer than its
   limit, and a question asked belongs to a handler that waits for it. *)
THEOREM UsersTypeCorrect == Spec => []TypeOK
<1>1. IInv => TypeOK
  BY DEF IInv
<1> QED BY <1>1, UsersInvariant, PTL

(* patchUser and deleteUser bring every row back to what the server has, in
   whatever order pages and answers come, unless changes overlapped. *)
THEOREM RowsComeBack == Spec => []RowsCurrent
<1>1. IInv => RowsCurrent
  <2> SUFFICES ASSUME IInv, loads = <<>>, Quiet, NEW i \in DOMAIN users, users[i].id \notin raced
               PROVE  users[i].id \in ToSet(db) /\ users[i].data = row[users[i].id]
    BY DEF RowsCurrent
  <2>1. users[i].id \in Users
    <3>1. users \in Seq(Rows)
      BY DEF IInv, TypeOK
    <3>2. users[i] \in Rows
      BY <3>1, ElementOfSeq, LenProperties
    <3> QED BY <3>2 DEF Rows
  <2> DEFINE u == users[i].id
  <2>2. RowRight(u, users[i].data)
    BY <2>1 DEF IInv, RowsInv, Settled
  <2>3. \A h \in Handlers : ~DoneOn(h, u)
    BY DEF Quiet, DoneOn, Done, Busy
  <2> QED BY <2>2, <2>3 DEF RowRight
<1> QED BY <1>1, UsersInvariant, PTL

(* loadPage leaves the beginning of the search's accounts displayed, joined
   from its pages, unless the list is known to be behind. *)
THEOREM PagesJoin == Spec => []ListWhole
<1>1. IInv => ListWhole
  <2> SUFFICES ASSUME IInv, loads = <<>>, ~timer, Quiet, ~behind,
                      NEW all, all = Matching(None, search),
                      NEW ids, ids = [i \in DOMAIN users |-> users[i].id],
                      NEW listed, listed = Select(ids, ToSet(db))
               PROVE  IsPrefix(listed, all) /\ (cursor = None => listed = all)
    BY DEF ListWhole
  <2>1. ~Halfway /\ ~ToBeReplaced
    <3>1. DOMAIN loads = {}
      BY EmptySeq
    <3> QED BY <3>1 DEF Quiet, Halfway, Done, Busy, ToBeReplaced
  <2>2. Begins(users, cursor, db, search)
    BY <2>1 DEF IInv, Told, ListTold, Whole
  <2>3. Tables /\ users \in Seq(Rows)
    BY DEF IInv, TypeOK, Kept, Tables
  <2>4. all = Select(db, search)
    BY DEF Matching
  <2> QED BY <2>2, <2>3, <2>4, BeginsIsPrefix
<1> QED BY <1>1, UsersInvariant, PTL

-----------------------------------------------------------------------------
(* What a step may change at the server. *)

LEMMA ConfirmedStep ==
    ASSUME IInv, [Next]_vars
    PROVE  [\A u \in ToSet(db) :
              /\ u \notin ToSet(db') => Agreed("delete", u) # {}
              /\ \A f \in Fields \ {"coins"} :
                    row'[u][f] # row[u][f] =>
                        \E t \in Agreed("update", u) : t.field = f /\ t.to = row'[u][f]]_vars
<1> SUFFICES ASSUME NEW u \in ToSet(db)
             PROVE  /\ u \notin ToSet(db') => Agreed("delete", u) # {}
                    /\ \A f \in Fields \ {"coins"} :
                           row'[u][f] # row[u][f] => \E t \in Agreed("update", u) : t.field = f /\ t.to = row'[u][f]
  OBVIOUS
<1>1. TypeOK /\ Kept /\ Known /\ Agreement /\ Tables /\ row \in [Users -> [Fields -> BOOLEAN]] /\ u \in Users
  BY DbFacts DEF IInv, Tables, TypeOK, Kept
<1>2. CASE PageStep \/ Talk \/ \E h \in Handlers : Answered(h) \/ Failed(h)
  <2>1. db' = db /\ row' = row
    BY <1>1, <1>2, PageEffect, EndEffect DEF Talk
  <2> QED BY <2>1
<1>3. ASSUME NEW h \in Handlers, Served(h)
      PROVE  /\ u \notin ToSet(db') => Agreed("delete", u) # {}
             /\ \A f \in Fields \ {"coins"} :
                    row'[u][f] # row[u][f] => \E t \in Agreed("update", u) : t.field = f /\ t.to = row'[u][f]
  <2> DEFINE t == handler[h]
  <2>1. t \in Tasks /\ Busy(h) /\ t.step = "send" /\ (Updated(t) \/ Deleted(t) \/ Created(t))
    BY <1>1, <1>3, ServedEffect
  <2>2. t # Idle
    BY <2>1 DEF Busy, Idle
  <2>3. t.field \in Fields /\ t.to \in BOOLEAN /\ (NeedsConsent(t) => t.agreed)
    BY <1>1, <2>1 DEF Agreement, Consented, Tasks
  <2>4. ASSUME t.agreed PROVE t \in Agreed(t.kind, t.user)
    BY <2>2, <2>4 DEF Agreed
  <2> HIDE DEF t
  <2>5. CASE Updated(t)
    <3>1. t.kind = "update" /\ db' = db /\ row' = [row EXCEPT ![t.user][t.field] = t.to]
      BY <2>5 DEF Updated
    <3>2. ASSUME NEW f \in Fields \ {"coins"}, row'[u][f] # row[u][f]
          PROVE  \E s \in Agreed("update", u) : s.field = f /\ s.to = row'[u][f]
      <4>1. u = t.user /\ f = t.field /\ row'[u][f] = t.to
        BY <1>1, <2>3, <3>1, <3>2
      <4>2. t \in Agreed("update", u)
        BY <2>3, <2>4, <3>1, <4>1 DEF NeedsConsent
      <4> QED BY <4>1, <4>2
    <3> QED BY <3>1, <3>2
  <2>6. CASE Deleted(t)
    <3>1. t.kind = "delete" /\ db' = Select(db, Users \ {t.user}) /\ row' = row
      BY <2>6 DEF Deleted
    <3>2. ToSet(db') = ToSet(db) \ {t.user}
      BY <1>1, <3>1, DeletedFrom
    <3>3. t \in Agreed("delete", t.user)
      BY <2>3, <2>4, <3>1 DEF NeedsConsent
    <3> QED BY <3>1, <3>2, <3>3
  <2>7. CASE Created(t)
    <3>1. row' = row /\ \E w \in Users : db' = <<w>> \o db
      BY <2>7 DEF Created
    <3>2. ToSet(db) \subseteq ToSet(db')
      BY <1>1, <3>1, CreatedKeeps
    <3> QED BY <3>1, <3>2
  <2> QED BY <2>1, <2>5, <2>6, <2>7
<1> QED BY <1>1, <1>2, <1>3, Steps

(* A ban, a role or a deletion reaches the server only as the confirmation of
   handleToggleBan, handleDelete or the edit dialog asked it. *)
THEOREM ChangesAsConfirmed == Spec => OnlyAsConfirmed
BY UsersInvariant, ConfirmedStep, PTL DEF Spec, OnlyAsConfirmed
=============================================================================
