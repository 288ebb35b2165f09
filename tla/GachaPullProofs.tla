-------------------------- MODULE GachaPullProofs ---------------------------
(***************************************************************************)
(* Proofs about GachaPull, for every set of requests, accounts, events,    *)
(* items and administrators, and every price.                              *)
(***************************************************************************)
EXTENDS GachaPull, TLAPS, FiniteSetTheorems

-----------------------------------------------------------------------------
(* The actions of Next, one disjunct each. *)

LEMMA NextCases ==
    ASSUME Next, NEW P,
           \A r \in Requests : Receive(r) \/ LoadEvent(r) \/ RefuseItems(r) \/ Deduct(r) => P,
           \A r \in Requests : GetItems(r) => P,
           \A r \in Requests : CreateLogs(r) => P,
           \A r \in Requests : Commit(r) \/ CommitUnheard(r) => P,
           \A r \in Requests : EmitPulls(r) => P,
           \A r \in Requests : Fail(r) => P,
           \A u \in Users, c \in Balances : UpdateUserCoins(u, c) => P,
           \A e \in Events, b \in BOOLEAN : UpdateEventActive(e, b) => P,
           \A a \in Admins, u \in Users : CountUserLogs(a, u) => P,
           \A a \in Admins, i \in Items : CountItemLogs(a, i) => P,
           \A a \in Admins, e \in Events : CountEventLogs(a, e) => P,
           \A a \in Admins, u \in Users : DeleteUser(a, u) => P,
           \A a \in Admins, i \in Items : DeleteItem(a, i) => P,
           \A a \in Admins, e \in Events : DeleteEvent(a, e) => P
    PROVE  P
BY Zenon DEF Next, Serve, Administer

LEMMA AmountType ==
    ASSUME TypeOK, NEW r \in Requests
    PROVE  /\ req[r].user \in Users
           /\ req[r].event \in Events
           /\ req[r].count \in Nat \ {0}
           /\ Amount(r) \in Nat
<1>1. /\ req[r].user \in Users
      /\ req[r].event \in Events
      /\ req[r].count \in Nat \ {0}
  BY ParametersAssumption DEF TypeOK
<1>2. PullCost \in Nat
  BY ParametersAssumption
<1>3. \A m, n \in Nat : m * n \in Nat
  OBVIOUS
<1> QED BY <1>1, <1>2, <1>3 DEF Amount

LEMMA NewRowsType ==
    ASSUME TypeOK, NEW r \in Requests, NEW picked \in [1..req[r].count -> list[r]]
    PROVE  NewRows(r, picked) \in SUBSET LogRows
<1> SUFFICES ASSUME NEW k \in 1..req[r].count
             PROVE  RowFor(r, k, picked[k]) \in LogRows
  BY DEF NewRows
<1>1. k \in Nat \ {0}
  BY AmountType
<1>2. picked[k] \in Items
  BY DEF TypeOK
<1> QED BY <1>1, <1>2, AmountType DEF RowFor, LogRows

-----------------------------------------------------------------------------
(* Type correctness. *)

LEMMA TypeInit == Init => TypeOK
<1> SUFFICES ASSUME Init PROVE TypeOK
  OBVIOUS
<1>1. coins \in [Users -> Int] /\ granted \in [Users -> Int]
  BY ParametersAssumption DEF Init
<1> QED
  BY <1>1 DEF Init, TypeOK, Steps, Targets

LEMMA TypeStep == TypeOK /\ [Next]_vars => TypeOK'
<1> SUFFICES ASSUME TypeOK, [Next]_vars PROVE TypeOK'
  OBVIOUS
<1> USE DEF TypeOK
<1>1. \A r \in Requests : Receive(r) \/ LoadEvent(r) \/ RefuseItems(r) \/ Deduct(r) => TypeOK'
  BY DEF Receive, LoadEvent, RefuseItems, Deduct, Advance, Steps, InTx, Answered, database
<1>2. \A r \in Requests : GetItems(r) => TypeOK'
  BY DEF GetItems, Advance, Steps, database
<1>3. \A r \in Requests : CreateLogs(r) => TypeOK'
  <2> SUFFICES ASSUME NEW r \in Requests, CreateLogs(r)
               PROVE  TypeOK'
    OBVIOUS
  <2>1. PICK picked \in [1..req[r].count -> list[r]] :
          \/ /\ draft' = [draft EXCEPT ![r] = NewRows(r, picked)]
             /\ Advance(r, "commit")
          \/ /\ Advance(r, "failed")
             /\ UNCHANGED draft
    BY DEF CreateLogs
  <2>2. NewRows(r, picked) \in SUBSET LogRows
    BY NewRowsType
  <2>3. draft' \in [Requests -> SUBSET LogRows]
    BY <2>1, <2>2
  <2> QED
    BY <2>1, <2>3 DEF CreateLogs, Advance, Steps, InTx, Answered, database
<1>4. \A r \in Requests : Commit(r) \/ CommitUnheard(r) => TypeOK'
  <2> SUFFICES ASSUME NEW r \in Requests, NEW step \in {"emit", "unanswered"},
                      Publish(r, step)
               PROVE  TypeOK'
    BY DEF Commit, CommitUnheard
  <2>1. coins' \in [Users -> Int]
    BY AmountType DEF Publish
  <2> QED
    BY <2>1 DEF Publish, Advance, Steps, Answered
<1>5. \A r \in Requests : EmitPulls(r) => TypeOK'
  BY DEF EmitPulls, Advance, Steps, Answered, database
<1>6. \A r \in Requests : Fail(r) => TypeOK'
  BY DEF Fail, Advance, Steps, Answered, database
<1>7. \A u \in Users, c \in Balances : UpdateUserCoins(u, c) => TypeOK'
  BY ParametersAssumption DEF UpdateUserCoins, requests
<1>8. \A e \in Events, b \in BOOLEAN : UpdateEventActive(e, b) => TypeOK'
  BY DEF UpdateEventActive, requests
<1>9. \A a \in Admins, u \in Users : CountUserLogs(a, u) => TypeOK'
  BY DEF CountUserLogs, CountLogs, Targets, database, requests
<1>10. \A a \in Admins, i \in Items : CountItemLogs(a, i) => TypeOK'
  BY DEF CountItemLogs, CountLogs, Targets, database, requests
<1>11. \A a \in Admins, e \in Events : CountEventLogs(a, e) => TypeOK'
  BY DEF CountEventLogs, CountLogs, Targets, database, requests
<1>12. \A a \in Admins, u \in Users : DeleteUser(a, u) => TypeOK'
  BY DEF DeleteUser, Finish, Targets, requests
<1>13. \A a \in Admins, i \in Items : DeleteItem(a, i) => TypeOK'
  BY DEF DeleteItem, Finish, Targets, requests
<1>14. \A a \in Admins, e \in Events : DeleteEvent(a, e) => TypeOK'
  BY DEF DeleteEvent, Finish, Targets, requests
<1>15. CASE Next
  BY <1>1, <1>2, <1>3, <1>4, <1>5, <1>6, <1>7, <1>8, <1>9, <1>10, <1>11, <1>12, <1>13,
     <1>14, <1>15, NextCases
<1>16. CASE UNCHANGED vars
  BY <1>16 DEF vars, database, requests
<1> QED
  BY <1>15, <1>16

(* Every variable of the pull service keeps its type in every behaviour. *)
THEOREM TypeCorrect == Spec => []TypeOK
BY TypeInit, TypeStep, PTL DEF Spec

-----------------------------------------------------------------------------
(* The inductive invariant.  The properties alone are not inductive: that a
   commit keeps the balance non-negative depends on the row lock having kept
   the balance above the amount since the guarded UPDATE. *)

(* A balance is locked by one transaction at a time. *)
OneOpenTx ==
    \A r, s \in Requests :
        pc[r] \in InTx /\ pc[s] \in InTx /\ req[r].user = req[s].user => r = s

(* While a transaction is open, the balance still pays for it. *)
Covered ==
    \A r \in Requests :
        pc[r] \in InTx => req[r].user \in users /\ coins[req[r].user] >= Amount(r)

(* The rows a transaction inserted are the request's, one per draw. *)
DraftOfRequest ==
    \A r \in Requests :
        pc[r] \in {"commit", "emit"} =>
            /\ IsFiniteSet(draft[r])
            /\ Cardinality(draft[r]) = req[r].count
            /\ \A row \in draft[r] :
                  row.request = r /\ row.user = req[r].user /\ row.event = req[r].event

(* A row of the history belongs to the account that asked for the pull. *)
LogOfRequest == \A row \in logs : row.user = req[row.request].user

(* A list holds items of the requested event only, and what an open
   transaction refers to is share-locked, hence still there. *)
DraftRefers ==
    \A r \in Requests :
        /\ \A i \in list[r] : EventOf[i] = req[r].event
        /\ pc[r] = "commit" =>
             \A row \in draft[r] : /\ row.event \in events
                                    /\ row.item \in items
                                    /\ EventOf[row.item] = row.event

(* What is about to be announced is in the history. *)
Announceable ==
    \A r \in Requests :
        pc[r] = "emit" => draft[r] \subseteq logs \/ req[r].user \notin users

IInv ==
    /\ TypeOK
    /\ OneOpenTx /\ Covered /\ DraftOfRequest /\ DraftRefers /\ Announceable
    /\ LogOfRequest
    /\ IsFiniteSet(logs)
    /\ CoinsNonNegative /\ LedgerConserved /\ AllOrNothing
    /\ ReferencesHold /\ FeedTellsHistory

-----------------------------------------------------------------------------
(* Arithmetic and counting. *)

LEMMA Distribute == \A m, n, k \in Int : m * (n + k) = m * n + m * k
OBVIOUS

LEMMA CostType ==
    ASSUME NEW S, IsFiniteSet(S)
    PROVE  PullCost * Cardinality(S) \in Int
<1>1. Cardinality(S) \in Int /\ PullCost \in Int
  BY FS_CardinalityType, ParametersAssumption
<1>2. \A m, n \in Int : m * n \in Int
  OBVIOUS
<1> QED
  BY <1>1, <1>2

(* One row per draw: a pull of n draws inserts n rows. *)
LEMMA NewRowsCount ==
    ASSUME TypeOK, NEW r \in Requests, NEW picked \in [1..req[r].count -> list[r]]
    PROVE  /\ IsFiniteSet(NewRows(r, picked))
           /\ Cardinality(NewRows(r, picked)) = req[r].count
           /\ \A row \in NewRows(r, picked) :
                 /\ row.request = r
                 /\ row.user = req[r].user
                 /\ row.event = req[r].event
                 /\ \E k \in 1..req[r].count : row.item = picked[k]
<1> DEFINE n == req[r].count
           f == [k \in 1..n |-> RowFor(r, k, picked[k])]
<1>1. n \in Nat \ {0}
  BY AmountType
<1>2. IsFiniteSet(1..n) /\ Cardinality(1..n) = n
  <2> HIDE DEF n
  <2>1. /\ IsFiniteSet(1..n)
        /\ Cardinality(1..n) = IF 1 > n THEN 0 ELSE n - 1 + 1
    BY <1>1, FS_Interval
  <2> QED
    BY <1>1, <2>1
<1>3. f \in Bijection(1..n, NewRows(r, picked))
  <2>1. f \in [1..n -> NewRows(r, picked)]
    BY DEF NewRows
  <2>2. \A k, l \in 1..n : f[k] = f[l] => k = l
    BY DEF RowFor
  <2>3. \A row \in NewRows(r, picked) : \E k \in 1..n : f[k] = row
    BY DEF NewRows
  <2> QED
    BY <2>1, <2>2, <2>3 DEF Bijection, Injection, Surjection, IsInjective
<1>4. IsFiniteSet(NewRows(r, picked)) /\ Cardinality(NewRows(r, picked)) = n
  BY <1>2, <1>3, FS_Bijection DEF ExistsBijection
<1>5. ASSUME NEW row \in NewRows(r, picked)
      PROVE  /\ row.request = r
             /\ row.user = req[r].user
             /\ row.event = req[r].event
             /\ \E k \in 1..req[r].count : row.item = picked[k]
  BY DEF NewRows, RowFor
<1> QED
  BY <1>4, <1>5

-----------------------------------------------------------------------------
(* Row locks: each action keeps the balance above what open transactions owe. *)

LEMMA TxKept ==
    ASSUME OneOpenTx, Covered, req' = req, coins' = coins, users' = users,
           \A s \in Requests : pc'[s] \in InTx => pc[s] \in InTx
    PROVE  OneOpenTx' /\ Covered'
BY DEF OneOpenTx, Covered, Amount

LEMMA TxStep == IInv /\ [Next]_vars => OneOpenTx' /\ Covered'
<1> SUFFICES ASSUME IInv, [Next]_vars PROVE OneOpenTx' /\ Covered'
  OBVIOUS
<1> USE DEF IInv
<1>1. \A r \in Requests : Receive(r) \/ LoadEvent(r) \/ RefuseItems(r) \/ Deduct(r)
                            => OneOpenTx' /\ Covered'
  <2> SUFFICES ASSUME NEW r \in Requests,
                      Receive(r) \/ LoadEvent(r) \/ RefuseItems(r) \/ Deduct(r)
               PROVE  OneOpenTx' /\ Covered'
    OBVIOUS
  <2>1. CASE Deduct(r)
    <3>1. /\ req' = req /\ coins' = coins /\ users' = users
          /\ pc' \in [Requests -> Steps]
          /\ \A s \in Requests \ {r} : pc'[s] = pc[s]
      BY <2>1, TypeStep DEF Deduct, Advance, TypeOK, database
    <3>2. \A s \in Requests : pc[s] \in InTx => req[s].user # req[r].user
      BY <2>1 DEF Deduct, BalanceLocked
    <3>3. pc'[r] \in InTx => req[r].user \in users /\ coins[req[r].user] >= Amount(r)
      BY <2>1 DEF Deduct, Advance, TypeOK, InTx
    <3> QED
      BY <3>1, <3>2, <3>3 DEF OneOpenTx, Covered, Amount
  <2>2. CASE Receive(r) \/ LoadEvent(r) \/ RefuseItems(r)
    <3>1. \A s \in Requests : pc'[s] \in InTx => pc[s] \in InTx
      BY <2>2 DEF Receive, LoadEvent, RefuseItems, Advance, InTx, TypeOK
    <3> QED
      BY <2>2, <3>1, TxKept DEF Receive, LoadEvent, RefuseItems, database
  <2> QED
    BY <2>1, <2>2
<1>2. \A r \in Requests : GetItems(r) => OneOpenTx' /\ Covered'
  BY TxKept DEF GetItems, Advance, InTx, TypeOK, database
<1>3. \A r \in Requests : CreateLogs(r) => OneOpenTx' /\ Covered'
  BY TxKept DEF CreateLogs, Advance, InTx, TypeOK, database
<1>4. \A r \in Requests : Commit(r) \/ CommitUnheard(r) => OneOpenTx' /\ Covered'
  <2> SUFFICES ASSUME NEW r \in Requests, NEW step \in {"emit", "unanswered"},
                      pc[r] = "commit", Publish(r, step)
               PROVE  OneOpenTx' /\ Covered'
    BY DEF Commit, CommitUnheard
  <2>1. \A s \in Requests : pc'[s] \in InTx => pc[s] \in InTx /\ s # r
    BY DEF Publish, Advance, InTx, TypeOK
  <2>2. \A s \in Requests : pc'[s] \in InTx => coins'[req[s].user] = coins[req[s].user]
    BY <2>1, AmountType DEF Publish, OneOpenTx, InTx, TypeOK
  <2> QED
    BY <2>1, <2>2 DEF Publish, OneOpenTx, Covered, Amount
<1>5. \A r \in Requests : EmitPulls(r) => OneOpenTx' /\ Covered'
  BY TxKept DEF EmitPulls, Advance, InTx, TypeOK, database
<1>6. \A r \in Requests : Fail(r) => OneOpenTx' /\ Covered'
  BY TxKept DEF Fail, Advance, InTx, TypeOK, database
<1>7. \A u \in Users, c \in Balances : UpdateUserCoins(u, c) => OneOpenTx' /\ Covered'
  BY DEF UpdateUserCoins, BalanceLocked, OneOpenTx, Covered, Amount, TypeOK, requests
<1>8. \A e \in Events, b \in BOOLEAN : UpdateEventActive(e, b) => OneOpenTx' /\ Covered'
  BY TxKept DEF UpdateEventActive, requests
<1>9. \A a \in Admins, u \in Users : CountUserLogs(a, u) => OneOpenTx' /\ Covered'
  BY TxKept DEF CountUserLogs, CountLogs, database, requests
<1>10. \A a \in Admins, i \in Items : CountItemLogs(a, i) => OneOpenTx' /\ Covered'
  BY TxKept DEF CountItemLogs, CountLogs, database, requests
<1>11. \A a \in Admins, e \in Events : CountEventLogs(a, e) => OneOpenTx' /\ Covered'
  BY TxKept DEF CountEventLogs, CountLogs, database, requests
<1>12. \A a \in Admins, u \in Users : DeleteUser(a, u) => OneOpenTx' /\ Covered'
  BY DEF DeleteUser, BalanceLocked, OneOpenTx, Covered, Amount, requests
<1>13. \A a \in Admins, i \in Items : DeleteItem(a, i) => OneOpenTx' /\ Covered'
  BY TxKept DEF DeleteItem, requests
<1>14. \A a \in Admins, e \in Events : DeleteEvent(a, e) => OneOpenTx' /\ Covered'
  BY TxKept DEF DeleteEvent, requests
<1>15. CASE Next
  BY <1>1, <1>2, <1>3, <1>4, <1>5, <1>6, <1>7, <1>8, <1>9, <1>10, <1>11, <1>12, <1>13,
     <1>14, <1>15, NextCases
<1>16. CASE UNCHANGED vars
  BY <1>16, TxKept DEF vars, database, requests
<1> QED
  BY <1>15, <1>16

-----------------------------------------------------------------------------
(* The ledger: balances, and the cost of the rows that explain them. *)

LedgerInv == IsFiniteSet(logs) /\ CoinsNonNegative /\ LedgerConserved

LEMMA LedgerKept ==
    ASSUME LedgerInv, users' = users, coins' = coins, logs' = logs, granted' = granted
    PROVE  LedgerInv'
BY DEF LedgerInv, CoinsNonNegative, LedgerConserved

(* Committing: the rows are new, are all the account's, and are as many as the
   deduction paid for. *)
LEMMA LedgerPublish ==
    ASSUME IInv, NEW r \in Requests, NEW step, pc[r] = "commit", Publish(r, step)
    PROVE  LedgerInv'
<1> DEFINE u == req[r].user
           H(v) == {row \in logs : row.user = v}
<1> USE DEF IInv
<1>1. /\ IsFiniteSet(draft[r])
      /\ Cardinality(draft[r]) = req[r].count
      /\ \A row \in draft[r] : row.request = r /\ row.user = u
  BY DEF DraftOfRequest
<1>2. draft[r] \cap logs = {}
  <2>1. RowsOf(r) = {}
    BY DEF AllOrNothing, Committed
  <2> QED
    BY <1>1, <2>1 DEF RowsOf
<1>3. /\ users' = users
      /\ granted' = granted
      /\ logs' = logs \cup draft[r]
      /\ coins' = [coins EXCEPT ![u] = @ - Amount(r)]
  BY DEF Publish
<1>4. IsFiniteSet(logs')
  BY <1>1, <1>3, FS_Union
<1>5. u \in users /\ coins[u] >= Amount(r)
  BY DEF Covered, InTx
<1>6. CoinsNonNegative'
  BY <1>3, <1>5, AmountType DEF CoinsNonNegative, TypeOK
<1>7. ASSUME NEW v \in users
      PROVE  coins'[v] + PullCost * Cardinality({row \in logs' : row.user = v})
               = InitialCoins + granted'[v]
  <2>1. coins[v] + PullCost * Cardinality(H(v)) = InitialCoins + granted[v]
    BY DEF LedgerConserved
  <2>2. CASE v # u
    <3>1. {row \in logs' : row.user = v} = H(v)
      BY <1>1, <1>3, <2>2
    <3> QED
      BY <1>3, <2>1, <2>2, <3>1 DEF TypeOK
  <2>3. CASE v = u
    <3>1. {row \in logs' : row.user = v} = H(v) \cup draft[r]
      BY <1>1, <1>3, <2>3
    <3>2. IsFiniteSet(H(v)) /\ H(v) \cap draft[r] = {}
      BY <1>2, FS_Subset
    <3>3. Cardinality(H(v) \cup draft[r]) = Cardinality(H(v)) + req[r].count
      <4>1. Cardinality(H(v) \cup draft[r])
              = Cardinality(H(v)) + Cardinality(draft[r]) - Cardinality(H(v) \cap draft[r])
        BY <1>1, <3>2, FS_Union
      <4>2. Cardinality(H(v) \cap draft[r]) = 0
        BY <3>2, FS_EmptySet
      <4>3. Cardinality(H(v)) \in Nat
        BY <3>2, FS_CardinalityType
      <4> QED
        BY <1>1, <4>1, <4>2, <4>3, AmountType
    <3>4. PullCost * (Cardinality(H(v)) + req[r].count)
            = PullCost * Cardinality(H(v)) + Amount(r)
      <4>1. Cardinality(H(v)) \in Int /\ req[r].count \in Int /\ PullCost \in Int
        BY <3>2, FS_CardinalityType, AmountType, ParametersAssumption
      <4> QED
        BY <4>1, Distribute DEF Amount
    <3>5. coins'[v] = coins[v] - Amount(r)
      BY <1>3, <2>3 DEF TypeOK
    <3>6. /\ coins[v] \in Int /\ Amount(r) \in Int
          /\ PullCost * Cardinality(H(v)) \in Int
      <4>1. PullCost * Cardinality(H(v)) \in Int
        BY <3>2, CostType
      <4>2. coins[v] \in Int
        BY DEF TypeOK
      <4>3. Amount(r) \in Int
        BY AmountType
      <4> QED
        BY <4>1, <4>2, <4>3
    <3>7. PullCost * Cardinality({row \in logs' : row.user = v})
            = PullCost * Cardinality(H(v)) + Amount(r)
      BY <3>1, <3>3, <3>4, Zenon
    <3>8. \A c, a, p \in Int : (c - a) + (p + a) = c + p
      OBVIOUS
    <3>9. (coins[v] - Amount(r)) + (PullCost * Cardinality(H(v)) + Amount(r))
            = coins[v] + PullCost * Cardinality(H(v))
      BY <3>6, <3>8
    <3> QED
      BY <1>3, <2>1, <3>5, <3>7, <3>9, Zenon
  <2> QED
    BY <2>2, <2>3
<1>8. LedgerConserved'
  BY <1>3, <1>7 DEF LedgerConserved
<1> QED
  BY <1>4, <1>6, <1>8 DEF LedgerInv

LEMMA LedgerStep == IInv /\ [Next]_vars => LedgerInv'
<1> SUFFICES ASSUME IInv, [Next]_vars PROVE LedgerInv'
  OBVIOUS
<1>0. LedgerInv
  BY DEF IInv, LedgerInv
<1>1. \A r \in Requests : Receive(r) \/ LoadEvent(r) \/ RefuseItems(r) \/ Deduct(r) => LedgerInv'
  BY <1>0, LedgerKept DEF Receive, LoadEvent, RefuseItems, Deduct, database
<1>2. \A r \in Requests : GetItems(r) => LedgerInv'
  BY <1>0, LedgerKept DEF GetItems, database
<1>3. \A r \in Requests : CreateLogs(r) => LedgerInv'
  BY <1>0, LedgerKept DEF CreateLogs, database
<1>4. \A r \in Requests : Commit(r) \/ CommitUnheard(r) => LedgerInv'
  BY LedgerPublish DEF Commit, CommitUnheard
<1>5. \A r \in Requests : EmitPulls(r) => LedgerInv'
  BY <1>0, LedgerKept DEF EmitPulls, database
<1>6. \A r \in Requests : Fail(r) => LedgerInv'
  BY <1>0, LedgerKept DEF Fail, database
<1>7. \A u \in Users, c \in Balances : UpdateUserCoins(u, c) => LedgerInv'
  <2> SUFFICES ASSUME NEW u \in Users, NEW c \in Balances, UpdateUserCoins(u, c)
               PROVE  LedgerInv'
    OBVIOUS
  <2>1. /\ c \in Nat
        /\ coins \in [Users -> Int] /\ granted \in [Users -> Int]
        /\ users \subseteq Users
    BY ParametersAssumption DEF IInv, TypeOK
  <2>2. IsFiniteSet(logs') /\ CoinsNonNegative'
    BY <1>0, <2>1 DEF UpdateUserCoins, LedgerInv, CoinsNonNegative
  <2>3. ASSUME NEW v \in users
        PROVE  coins'[v] + PullCost * Cardinality({row \in logs : row.user = v})
                 = InitialCoins + granted'[v]
    <3> DEFINE p == PullCost * Cardinality({row \in logs : row.user = v})
    <3>1. coins[v] + p = InitialCoins + granted[v]
      BY <1>0 DEF LedgerInv, LedgerConserved
    <3>2. p \in Int /\ InitialCoins \in Int
      <4>1. IsFiniteSet({row \in logs : row.user = v})
        BY <1>0, FS_Subset DEF LedgerInv
      <4>2. p \in Int
        BY <4>1, CostType
      <4> QED
        BY <4>2, ParametersAssumption
    <3> HIDE DEF p
    <3>3. v = u => coins'[v] + p = InitialCoins + granted'[v]
      BY <2>1, <3>1, <3>2 DEF UpdateUserCoins
    <3>4. v # u => coins'[v] + p = InitialCoins + granted'[v]
      BY <2>1, <3>1, <3>2 DEF UpdateUserCoins
    <3>5. coins'[v] + p = InitialCoins + granted'[v]
      BY <3>3, <3>4
    <3> QED
      BY <3>5 DEF p
  <2>4. LedgerConserved'
    BY <2>3 DEF UpdateUserCoins, LedgerConserved
  <2> QED
    BY <2>2, <2>4 DEF LedgerInv
<1>8. \A e \in Events, b \in BOOLEAN : UpdateEventActive(e, b) => LedgerInv'
  BY <1>0, LedgerKept DEF UpdateEventActive
<1>9. \A a \in Admins, u \in Users : CountUserLogs(a, u) => LedgerInv'
  BY <1>0, LedgerKept DEF CountUserLogs, CountLogs, database
<1>10. \A a \in Admins, i \in Items : CountItemLogs(a, i) => LedgerInv'
  BY <1>0, LedgerKept DEF CountItemLogs, CountLogs, database
<1>11. \A a \in Admins, e \in Events : CountEventLogs(a, e) => LedgerInv'
  BY <1>0, LedgerKept DEF CountEventLogs, CountLogs, database
<1>12. \A a \in Admins, u \in Users : DeleteUser(a, u) => LedgerInv'
  <2> SUFFICES ASSUME NEW a \in Admins, NEW u \in Users, DeleteUser(a, u)
               PROVE  LedgerInv'
    OBVIOUS
  <2>1. IsFiniteSet(logs')
    BY <1>0, FS_Subset DEF DeleteUser, LedgerInv
  <2>2. \A v \in users' : {row \in logs' : row.user = v} = {row \in logs : row.user = v}
    BY DEF DeleteUser
  <2> QED
    BY <1>0, <2>1, <2>2 DEF DeleteUser, LedgerInv, CoinsNonNegative, LedgerConserved
<1>13. \A a \in Admins, i \in Items : DeleteItem(a, i) => LedgerInv'
  BY <1>0, LedgerKept DEF DeleteItem
<1>14. \A a \in Admins, e \in Events : DeleteEvent(a, e) => LedgerInv'
  BY <1>0, LedgerKept DEF DeleteEvent
<1>15. CASE Next
  BY <1>1, <1>2, <1>3, <1>4, <1>5, <1>6, <1>7, <1>8, <1>9, <1>10, <1>11, <1>12, <1>13,
     <1>14, <1>15, NextCases
<1>16. CASE UNCHANGED vars
  BY <1>0, <1>16, LedgerKept DEF vars, database
<1> QED
  BY <1>15, <1>16

-----------------------------------------------------------------------------
(* Outcomes: rows, answers and announcements of a pull agree. *)

OutcomeInv ==
    /\ DraftOfRequest /\ LogOfRequest /\ Announceable
    /\ AllOrNothing /\ FeedTellsHistory

LEMMA OutcomeKept ==
    ASSUME OutcomeInv, req' = req, logs' = logs, users' = users, feed' = feed,
           \A s \in Requests :
               /\ pc'[s] \in Committed <=> pc[s] \in Committed
               /\ pc'[s] \in {"commit", "emit"} => pc'[s] = pc[s] /\ draft'[s] = draft[s]
    PROVE  OutcomeInv'
<1>1. DraftOfRequest'
  BY DEF OutcomeInv, DraftOfRequest
<1>2. LogOfRequest' /\ Announceable' /\ FeedTellsHistory'
  BY DEF OutcomeInv, LogOfRequest, Announceable, FeedTellsHistory
<1>3. AllOrNothing'
  BY DEF OutcomeInv, AllOrNothing, RowsOf, Committed
<1> QED
  BY <1>1, <1>2, <1>3 DEF OutcomeInv

LEMMA OutcomePublish ==
    ASSUME IInv, NEW r \in Requests, NEW step \in {"emit", "unanswered"},
           pc[r] = "commit", Publish(r, step)
    PROVE  OutcomeInv'
<1> USE DEF IInv
<1>1. /\ users' = users /\ req' = req /\ draft' = draft /\ feed' = feed
      /\ logs' = logs \cup draft[r]
      /\ pc'[r] = step
      /\ \A s \in Requests \ {r} : pc'[s] = pc[s]
  BY DEF Publish, Advance, TypeOK
<1>2. /\ IsFiniteSet(draft[r])
      /\ Cardinality(draft[r]) = req[r].count
      /\ \A row \in draft[r] : row.request = r /\ row.user = req[r].user
  BY DEF DraftOfRequest
<1>3. RowsOf(r) = {}
  BY DEF AllOrNothing, Committed
<1>4. DraftOfRequest'
  BY <1>1 DEF DraftOfRequest
<1>5. LogOfRequest' /\ Announceable' /\ FeedTellsHistory'
  BY <1>1, <1>2 DEF LogOfRequest, Announceable, FeedTellsHistory
<1>6. RowsOf(r)' = draft[r]
  BY <1>1, <1>2, <1>3 DEF RowsOf
<1>7. \A s \in Requests \ {r} : RowsOf(s)' = RowsOf(s)
  BY <1>1, <1>2 DEF RowsOf
<1>8. AllOrNothing'
  <2> SUFFICES ASSUME NEW s \in Requests
               PROVE  IF pc'[s] \in Committed
                      THEN req[s].user \in users => Cardinality(RowsOf(s)') = req[s].count
                      ELSE RowsOf(s)' = {}
    BY <1>1 DEF AllOrNothing
  <2>1. CASE s = r
    BY <1>1, <1>2, <1>6, <2>1 DEF Committed
  <2>2. CASE s # r
    BY <1>1, <1>7, <2>2 DEF AllOrNothing
  <2> QED
    BY <2>1, <2>2
<1> QED
  BY <1>4, <1>5, <1>8 DEF OutcomeInv

LEMMA OutcomeStep == IInv /\ [Next]_vars => OutcomeInv'
<1> SUFFICES ASSUME IInv, [Next]_vars PROVE OutcomeInv'
  OBVIOUS
<1>0. OutcomeInv /\ TypeOK
  BY DEF IInv, OutcomeInv
<1>1. \A r \in Requests : Receive(r) \/ LoadEvent(r) \/ RefuseItems(r) \/ Deduct(r) => OutcomeInv'
  <2> SUFFICES ASSUME NEW r \in Requests,
                      Receive(r) \/ LoadEvent(r) \/ RefuseItems(r) \/ Deduct(r)
               PROVE  OutcomeInv'
    OBVIOUS
  <2>1. /\ pc[r] \notin Committed /\ pc'[r] \notin Committed \cup {"commit"}
        /\ \A s \in Requests \ {r} : pc'[s] = pc[s]
    BY <1>0 DEF Receive, LoadEvent, RefuseItems, Deduct, Advance, Committed, TypeOK
  <2>2. \A s \in Requests :
            /\ pc'[s] \in Committed <=> pc[s] \in Committed
            /\ pc'[s] \in {"commit", "emit"} => pc'[s] = pc[s]
    BY <2>1 DEF Committed
  <2> QED
    BY <1>0, <2>2, OutcomeKept DEF Receive, LoadEvent, RefuseItems, Deduct, database
<1>2. \A r \in Requests : GetItems(r) => OutcomeInv'
  BY <1>0, OutcomeKept DEF GetItems, Advance, Committed, TypeOK, database
<1>3. \A r \in Requests : CreateLogs(r) => OutcomeInv'
  <2> SUFFICES ASSUME NEW r \in Requests, CreateLogs(r)
               PROVE  OutcomeInv'
    OBVIOUS
  <2>1. PICK picked \in [1..req[r].count -> list[r]] :
          \/ /\ draft' = [draft EXCEPT ![r] = NewRows(r, picked)]
             /\ Advance(r, "commit")
          \/ /\ Advance(r, "failed")
             /\ UNCHANGED draft
    BY DEF CreateLogs
  <2>2. /\ IsFiniteSet(NewRows(r, picked))
        /\ Cardinality(NewRows(r, picked)) = req[r].count
        /\ \A row \in NewRows(r, picked) :
              row.request = r /\ row.user = req[r].user /\ row.event = req[r].event
    BY <1>0, NewRowsCount
  <2>3. /\ pc[r] = "createLogs"
        /\ req' = req /\ logs' = logs /\ users' = users /\ feed' = feed
    BY DEF CreateLogs, database
  <2>4. /\ pc'[r] \notin Committed
        /\ pc'[r] = "commit" => draft'[r] = NewRows(r, picked)
        /\ \A s \in Requests \ {r} : pc'[s] = pc[s] /\ draft'[s] = draft[s]
    BY <1>0, <2>1 DEF Advance, Committed, TypeOK
  <2>5. DraftOfRequest'
    <3> SUFFICES ASSUME NEW s \in Requests, pc'[s] \in {"commit", "emit"}
                 PROVE  /\ IsFiniteSet(draft'[s])
                        /\ Cardinality(draft'[s]) = req[s].count
                        /\ \A row \in draft'[s] : /\ row.request = s
                                                  /\ row.user = req[s].user
                                                  /\ row.event = req[s].event
      BY <2>3 DEF DraftOfRequest
    <3>1. CASE s = r
      BY <2>2, <2>4, <3>1 DEF Committed
    <3>2. CASE s # r
      BY <1>0, <2>4, <3>2 DEF OutcomeInv, DraftOfRequest
    <3> QED
      BY <3>1, <3>2
  <2>6. LogOfRequest' /\ FeedTellsHistory'
    BY <1>0, <2>3 DEF OutcomeInv, LogOfRequest, FeedTellsHistory
  <2>7. Announceable'
    BY <1>0, <2>3, <2>4 DEF OutcomeInv, Announceable, Committed
  <2>8. AllOrNothing'
    BY <1>0, <2>3, <2>4 DEF OutcomeInv, AllOrNothing, RowsOf, Committed
  <2> QED
    BY <2>5, <2>6, <2>7, <2>8 DEF OutcomeInv
<1>4. \A r \in Requests : Commit(r) \/ CommitUnheard(r) => OutcomeInv'
  BY OutcomePublish DEF Commit, CommitUnheard
<1>5. \A r \in Requests : EmitPulls(r) => OutcomeInv'
  <2> SUFFICES ASSUME NEW r \in Requests, EmitPulls(r)
               PROVE  OutcomeInv'
    OBVIOUS
  <2>1. PICK sent \in SUBSET draft[r] : feed' = feed \cup sent
    BY DEF EmitPulls
  <2>2. /\ pc[r] = "emit" /\ pc'[r] = "ok"
        /\ \A s \in Requests \ {r} : pc'[s] = pc[s]
        /\ req' = req /\ logs' = logs /\ users' = users /\ draft' = draft
    BY <1>0 DEF EmitPulls, Advance, database, TypeOK
  <2>3. DraftOfRequest' /\ LogOfRequest' /\ Announceable'
    BY <1>0, <2>2 DEF OutcomeInv, DraftOfRequest, LogOfRequest, Announceable
  <2>4. AllOrNothing'
    BY <1>0, <2>2 DEF OutcomeInv, AllOrNothing, RowsOf, Committed
  <2>5. FeedTellsHistory'
    <3>1. \A row \in sent : row \in logs \/ row.user \notin users
      BY <1>0, <2>2 DEF OutcomeInv, Announceable, DraftOfRequest
    <3> QED
      BY <1>0, <2>1, <2>2, <3>1 DEF OutcomeInv, FeedTellsHistory
  <2> QED
    BY <2>3, <2>4, <2>5 DEF OutcomeInv
<1>6. \A r \in Requests : Fail(r) => OutcomeInv'
  <2> SUFFICES ASSUME NEW r \in Requests, Fail(r)
               PROVE  OutcomeInv'
    OBVIOUS
  <2>1. /\ req' = req /\ logs' = logs /\ users' = users /\ feed' = feed
        /\ pc'[r] \notin {"commit", "emit"}
        /\ pc'[r] \in Committed <=> pc[r] \in Committed
        /\ \A s \in Requests \ {r} : pc'[s] = pc[s] /\ draft'[s] = draft[s]
    BY <1>0 DEF Fail, Advance, InTx, Committed, TypeOK, database
  <2> QED
    BY <1>0, <2>1, OutcomeKept
<1>7. \A u \in Users, c \in Balances : UpdateUserCoins(u, c) => OutcomeInv'
  BY <1>0, OutcomeKept DEF UpdateUserCoins, requests
<1>8. \A e \in Events, b \in BOOLEAN : UpdateEventActive(e, b) => OutcomeInv'
  BY <1>0, OutcomeKept DEF UpdateEventActive, requests
<1>9. \A a \in Admins, u \in Users : CountUserLogs(a, u) => OutcomeInv'
  BY <1>0, OutcomeKept DEF CountUserLogs, CountLogs, database, requests
<1>10. \A a \in Admins, i \in Items : CountItemLogs(a, i) => OutcomeInv'
  BY <1>0, OutcomeKept DEF CountItemLogs, CountLogs, database, requests
<1>11. \A a \in Admins, e \in Events : CountEventLogs(a, e) => OutcomeInv'
  BY <1>0, OutcomeKept DEF CountEventLogs, CountLogs, database, requests
<1>12. \A a \in Admins, u \in Users : DeleteUser(a, u) => OutcomeInv'
  <2> SUFFICES ASSUME NEW a \in Admins, NEW u \in Users, DeleteUser(a, u)
               PROVE  OutcomeInv'
    OBVIOUS
  <2>1. /\ users' = users \ {u}
        /\ logs' = {row \in logs : row.user # u}
        /\ req' = req /\ pc' = pc /\ draft' = draft /\ feed' = feed
    BY DEF DeleteUser, requests
  <2>2. DraftOfRequest' /\ LogOfRequest'
    BY <1>0, <2>1 DEF OutcomeInv, DraftOfRequest, LogOfRequest
  <2>3. Announceable'
    BY <1>0, <2>1 DEF OutcomeInv, Announceable, DraftOfRequest
  <2>4. FeedTellsHistory'
    BY <1>0, <2>1 DEF OutcomeInv, FeedTellsHistory
  <2>5. ASSUME NEW s \in Requests
        PROVE  /\ RowsOf(s) = {} => {row \in logs' : row.request = s} = {}
               /\ req[s].user # u => {row \in logs' : row.request = s} = RowsOf(s)
    BY <1>0, <2>1 DEF OutcomeInv, LogOfRequest, RowsOf
  <2>6. AllOrNothing'
    BY <1>0, <2>1, <2>5 DEF OutcomeInv, AllOrNothing, RowsOf, Committed
  <2> QED
    BY <2>2, <2>3, <2>4, <2>6 DEF OutcomeInv
<1>13. \A a \in Admins, i \in Items : DeleteItem(a, i) => OutcomeInv'
  BY <1>0, OutcomeKept DEF DeleteItem, requests
<1>14. \A a \in Admins, e \in Events : DeleteEvent(a, e) => OutcomeInv'
  BY <1>0, OutcomeKept DEF DeleteEvent, requests
<1>15. CASE Next
  BY <1>1, <1>2, <1>3, <1>4, <1>5, <1>6, <1>7, <1>8, <1>9, <1>10, <1>11, <1>12, <1>13,
     <1>14, <1>15, NextCases
<1>16. CASE UNCHANGED vars
  BY <1>0, <1>16, OutcomeKept DEF vars, database, requests
<1> QED
  BY <1>15, <1>16

-----------------------------------------------------------------------------
(* References: what rows name is kept, by share locks until COMMIT and by the
   foreign keys after it. *)

ReferInv == DraftRefers /\ ReferencesHold

LEMMA ReferKept ==
    ASSUME ReferInv, req' = req, users' = users, events' = events, items' = items,
           logs' = logs, list' = list,
           \A s \in Requests : pc'[s] = "commit" => pc[s] = "commit" /\ draft'[s] = draft[s]
    PROVE  ReferInv'
BY DEF ReferInv, DraftRefers, ReferencesHold

LEMMA ReferStep == IInv /\ [Next]_vars => ReferInv'
<1> SUFFICES ASSUME IInv, [Next]_vars PROVE ReferInv'
  OBVIOUS
<1>0. ReferInv /\ TypeOK
  BY DEF IInv, ReferInv
<1>1. \A r \in Requests : Receive(r) \/ LoadEvent(r) \/ RefuseItems(r) \/ Deduct(r) => ReferInv'
  BY <1>0, ReferKept DEF Receive, LoadEvent, RefuseItems, Deduct, Advance, TypeOK, database
<1>2. \A r \in Requests : GetItems(r) => ReferInv'
  BY <1>0 DEF GetItems, Advance, TypeOK, database, ReferInv, DraftRefers, ReferencesHold
<1>3. \A r \in Requests : CreateLogs(r) => ReferInv'
  <2> SUFFICES ASSUME NEW r \in Requests, CreateLogs(r)
               PROVE  ReferInv'
    OBVIOUS
  <2>1. /\ req' = req /\ users' = users /\ events' = events /\ items' = items
        /\ logs' = logs /\ list' = list
    BY DEF CreateLogs, database
  <2>2. PICK picked \in [1..req[r].count -> list[r]] :
          \/ /\ req[r].event \in events
             /\ \A k \in 1..req[r].count : picked[k] \in items
             /\ draft' = [draft EXCEPT ![r] = NewRows(r, picked)]
             /\ Advance(r, "commit")
          \/ /\ Advance(r, "failed")
             /\ UNCHANGED draft
    BY DEF CreateLogs
  <2>3. CASE /\ Advance(r, "failed")
             /\ UNCHANGED draft
    BY <1>0, <2>1, <2>3, ReferKept DEF Advance, TypeOK
  <2>4. CASE /\ req[r].event \in events
             /\ \A k \in 1..req[r].count : picked[k] \in items
             /\ draft' = [draft EXCEPT ![r] = NewRows(r, picked)]
             /\ Advance(r, "commit")
    <3>1. \A row \in NewRows(r, picked) : /\ row.event \in events
                                          /\ row.item \in items
                                          /\ EventOf[row.item] = row.event
      <4> SUFFICES ASSUME NEW row \in NewRows(r, picked)
                   PROVE  /\ row.event \in events
                          /\ row.item \in items
                          /\ EventOf[row.item] = row.event
        OBVIOUS
      <4>1. PICK k \in 1..req[r].count : row.item = picked[k]
        BY <1>0, NewRowsCount
      <4>2. row.event = req[r].event
        BY <1>0, NewRowsCount
      <4>3. EventOf[picked[k]] = req[r].event
        BY <1>0 DEF ReferInv, DraftRefers
      <4> QED
        BY <2>4, <4>1, <4>2, <4>3
    <3>2. /\ draft'[r] = NewRows(r, picked)
          /\ \A s \in Requests \ {r} : pc'[s] = pc[s] /\ draft'[s] = draft[s]
      BY <1>0, <2>4 DEF Advance, TypeOK
    <3>3. DraftRefers'
      <4> SUFFICES ASSUME NEW s \in Requests, pc'[s] = "commit", NEW row \in draft'[s]
                   PROVE  /\ row.event \in events
                          /\ row.item \in items
                          /\ EventOf[row.item] = row.event
        BY <1>0, <2>1 DEF ReferInv, DraftRefers
      <4>1. CASE s = r
        BY <3>1, <3>2, <4>1
      <4>2. CASE s # r
        BY <1>0, <3>2, <4>2 DEF ReferInv, DraftRefers
      <4> QED
        BY <4>1, <4>2
    <3> QED
      BY <1>0, <2>1, <3>3 DEF ReferInv, ReferencesHold
  <2> QED
    BY <2>2, <2>3, <2>4
<1>4. \A r \in Requests : Commit(r) \/ CommitUnheard(r) => ReferInv'
  <2> SUFFICES ASSUME NEW r \in Requests, NEW step \in {"emit", "unanswered"},
                      pc[r] = "commit", Publish(r, step)
               PROVE  ReferInv'
    BY DEF Commit, CommitUnheard
  <2>1. /\ req' = req /\ users' = users /\ events' = events /\ items' = items
        /\ list' = list /\ draft' = draft
        /\ logs' = logs \cup draft[r]
        /\ \A s \in Requests : pc'[s] = "commit" => pc[s] = "commit"
    BY <1>0 DEF Publish, Advance, TypeOK
  <2>2. \A row \in draft[r] : /\ row.user \in users
                              /\ row.event \in events
                              /\ row.item \in items
                              /\ EventOf[row.item] = row.event
    BY DEF IInv, DraftOfRequest, DraftRefers, Covered, InTx
  <2> QED
    BY <1>0, <2>1, <2>2 DEF ReferInv, DraftRefers, ReferencesHold
<1>5. \A r \in Requests : EmitPulls(r) => ReferInv'
  BY <1>0, ReferKept DEF EmitPulls, Advance, TypeOK, database
<1>6. \A r \in Requests : Fail(r) => ReferInv'
  BY <1>0, ReferKept DEF Fail, Advance, TypeOK, database
<1>7. \A u \in Users, c \in Balances : UpdateUserCoins(u, c) => ReferInv'
  BY <1>0, ReferKept DEF UpdateUserCoins, requests
<1>8. \A e \in Events, b \in BOOLEAN : UpdateEventActive(e, b) => ReferInv'
  BY <1>0, ReferKept DEF UpdateEventActive, requests
<1>9. \A a \in Admins, u \in Users : CountUserLogs(a, u) => ReferInv'
  BY <1>0, ReferKept DEF CountUserLogs, CountLogs, database, requests
<1>10. \A a \in Admins, i \in Items : CountItemLogs(a, i) => ReferInv'
  BY <1>0, ReferKept DEF CountItemLogs, CountLogs, database, requests
<1>11. \A a \in Admins, e \in Events : CountEventLogs(a, e) => ReferInv'
  BY <1>0, ReferKept DEF CountEventLogs, CountLogs, database, requests
<1>12. \A a \in Admins, u \in Users : DeleteUser(a, u) => ReferInv'
  BY <1>0 DEF DeleteUser, requests, ReferInv, DraftRefers, ReferencesHold
<1>13. \A a \in Admins, i \in Items : DeleteItem(a, i) => ReferInv'
  BY <1>0 DEF DeleteItem, requests, ItemShared, Referenced, ReferInv, DraftRefers, ReferencesHold
<1>14. \A a \in Admins, e \in Events : DeleteEvent(a, e) => ReferInv'
  <2> SUFFICES ASSUME NEW a \in Admins, NEW e \in Events, DeleteEvent(a, e)
               PROVE  ReferInv'
    OBVIOUS
  <2>1. /\ req' = req /\ users' = users /\ logs' = logs /\ list' = list
        /\ pc' = pc /\ draft' = draft
    BY DEF DeleteEvent, requests
  <2>2. \A row \in logs : row.event \in events' /\ row.item \in items'
    BY <1>0 DEF DeleteEvent, ReferInv, ReferencesHold
  <2>3. \A s \in Requests : pc[s] = "commit" =>
            \A row \in draft[s] : row.event \in events' /\ row.item \in items'
    BY <1>0 DEF DeleteEvent, EventShared, Referenced, ReferInv, DraftRefers
  <2> QED
    BY <1>0, <2>1, <2>2, <2>3 DEF ReferInv, DraftRefers, ReferencesHold
<1>15. CASE Next
  BY <1>1, <1>2, <1>3, <1>4, <1>5, <1>6, <1>7, <1>8, <1>9, <1>10, <1>11, <1>12, <1>13,
     <1>14, <1>15, NextCases
<1>16. CASE UNCHANGED vars
  BY <1>0, <1>16, ReferKept DEF vars, database, requests
<1> QED
  BY <1>15, <1>16

-----------------------------------------------------------------------------
(* The invariant holds at the start, and every step keeps it. *)

LEMMA InvInit == Init => IInv
<1> SUFFICES ASSUME Init PROVE IInv
  OBVIOUS
<1>1. TypeOK
  BY TypeInit
<1>2. OneOpenTx /\ Covered /\ DraftOfRequest /\ DraftRefers /\ Announceable
  BY DEF Init, OneOpenTx, Covered, DraftOfRequest, DraftRefers, Announceable, InTx
<1>3. IsFiniteSet(logs) /\ LogOfRequest /\ AllOrNothing /\ ReferencesHold /\ FeedTellsHistory
  BY FS_EmptySet DEF Init, LogOfRequest, AllOrNothing, RowsOf, Committed,
                     ReferencesHold, FeedTellsHistory
<1>4. CoinsNonNegative
  BY ParametersAssumption DEF Init, CoinsNonNegative
<1>5. LedgerConserved
  <2> SUFFICES ASSUME NEW u \in users
               PROVE  coins[u] + PullCost * Cardinality({row \in logs : row.user = u})
                        = InitialCoins + granted[u]
    BY DEF LedgerConserved
  <2>1. Cardinality({row \in logs : row.user = u}) = 0
    <3>1. {row \in logs : row.user = u} = {}
      BY DEF Init
    <3> QED
      BY <3>1, FS_EmptySet
  <2>2. coins[u] = InitialCoins /\ granted[u] = 0
    BY DEF Init
  <2>3. PullCost * 0 = 0 /\ InitialCoins + 0 = InitialCoins
    BY ParametersAssumption
  <2> QED
    BY <2>1, <2>2, <2>3, Zenon
<1> QED
  BY <1>1, <1>2, <1>3, <1>4, <1>5 DEF IInv

LEMMA InvStep == IInv /\ [Next]_vars => IInv'
<1> SUFFICES ASSUME IInv, [Next]_vars PROVE IInv'
  OBVIOUS
<1>1. TypeOK'
  BY TypeStep DEF IInv
<1>2. OneOpenTx' /\ Covered'
  BY TxStep
<1>3. LedgerInv' /\ OutcomeInv' /\ ReferInv'
  BY LedgerStep, OutcomeStep, ReferStep
<1> QED
  BY <1>1, <1>2, <1>3 DEF IInv, LedgerInv, OutcomeInv, ReferInv

THEOREM Invariance == Spec => []IInv
BY InvInit, InvStep, PTL DEF Spec

(* No balance is ever negative, however many pulls and overwrites interleave. *)
THEOREM NoOverdraft == Spec => []CoinsNonNegative
<1>1. IInv => CoinsNonNegative
  BY DEF IInv
<1> QED
  BY <1>1, Invariance, PTL

(* Balances and history rows always account for each other. *)
THEOREM Conservation == Spec => []LedgerConserved
<1>1. IInv => LedgerConserved
  BY DEF IInv
<1> QED
  BY <1>1, Invariance, PTL

(* A pull leaves all of its rows or none, whatever fails on the way. *)
THEOREM Atomicity == Spec => []AllOrNothing
<1>1. IInv => AllOrNothing
  BY DEF IInv
<1> QED
  BY <1>1, Invariance, PTL

(* No row of the history refers to something deleted. *)
THEOREM Referential == Spec => []ReferencesHold
<1>1. IInv => ReferencesHold
  BY DEF IInv
<1> QED
  BY <1>1, Invariance, PTL

(* The admin feed never announces a pull that did not happen. *)
THEOREM FeedHonest == Spec => []FeedTellsHistory
<1>1. IInv => FeedTellsHistory
  BY DEF IInv
<1> QED
  BY <1>1, Invariance, PTL

-----------------------------------------------------------------------------
(* Steps: what may happen to the history, and the refinement. *)

(* Only the deletion of an account removes history rows. *)
THEOREM HistoryOnlyGrows == Spec => HistoryKept
<1> DEFINE Kept == \A row \in logs : row \in logs' \/ row.user \notin users'
<1>1. [Next]_vars => [Kept]_vars
  <2> SUFFICES ASSUME Next PROVE Kept
    OBVIOUS
  <2>1. \A r \in Requests : Receive(r) \/ LoadEvent(r) \/ RefuseItems(r) \/ Deduct(r) => Kept
    BY DEF Receive, LoadEvent, RefuseItems, Deduct, database
  <2>2. \A r \in Requests : /\ GetItems(r) => Kept
                            /\ CreateLogs(r) => Kept
                            /\ EmitPulls(r) => Kept
                            /\ Fail(r) => Kept
    BY DEF GetItems, CreateLogs, EmitPulls, Fail, database
  <2>3. \A r \in Requests : Commit(r) \/ CommitUnheard(r) => Kept
    BY DEF Commit, CommitUnheard, Publish
  <2>4. /\ \A u \in Users, c \in Balances : UpdateUserCoins(u, c) => Kept
        /\ \A e \in Events, b \in BOOLEAN : UpdateEventActive(e, b) => Kept
    BY DEF UpdateUserCoins, UpdateEventActive
  <2>5. /\ \A a \in Admins, u \in Users : CountUserLogs(a, u) => Kept
        /\ \A a \in Admins, i \in Items : CountItemLogs(a, i) => Kept
        /\ \A a \in Admins, e \in Events : CountEventLogs(a, e) => Kept
    BY DEF CountUserLogs, CountItemLogs, CountEventLogs, CountLogs, database
  <2>6. /\ \A a \in Admins, u \in Users : DeleteUser(a, u) => Kept
        /\ \A a \in Admins, i \in Items : DeleteItem(a, i) => Kept
        /\ \A a \in Admins, e \in Events : DeleteEvent(a, e) => Kept
    BY DEF DeleteUser, DeleteItem, DeleteEvent
  <2> HIDE DEF Kept
  <2> QED
    BY <2>1, <2>2, <2>3, <2>4, <2>5, <2>6, NextCases
<1>2. [][Next]_vars => [][Kept]_vars
  BY <1>1, PTL
<1> QED
  BY <1>2, PTL DEF Spec, HistoryKept

LEMMA LedgerInitRefined == Init => Ledger!LedgerInit
BY DEF Init, Ledger!LedgerInit

(* A commit is one draw of the ledger: the rows that appear are the draft's,
   and the balance pays exactly for them. *)
LEMMA PublishDraws ==
    ASSUME IInv, NEW r \in Requests, NEW step, pc[r] = "commit", Publish(r, step)
    PROVE  Ledger!Draw(req[r].user)
<1> USE DEF IInv
<1>1. /\ users' = users
      /\ logs' = logs \cup draft[r]
      /\ coins' = [coins EXCEPT ![req[r].user] = @ - Amount(r)]
  BY DEF Publish
<1>2. /\ IsFiniteSet(draft[r])
      /\ Cardinality(draft[r]) = req[r].count
      /\ \A row \in draft[r] : row.request = r /\ row.user = req[r].user
  BY DEF DraftOfRequest
<1>3. draft[r] \cap logs = {}
  BY <1>2 DEF AllOrNothing, Committed, RowsOf
<1>4. logs' \ logs = draft[r]
  BY <1>1, <1>3
<1>5. PullCost * Cardinality(logs' \ logs) = Amount(r)
  BY <1>2, <1>4 DEF Amount
<1>6. logs # logs'
  <2>1. req[r].count # 0
    BY AmountType
  <2>2. draft[r] # {}
    BY <1>2, <2>1, FS_EmptySet
  <2> QED
    BY <1>1, <1>3, <2>2
<1>7. req[r].user \in users /\ coins[req[r].user] >= Amount(r)
  BY DEF Covered, InTx
<1>8. logs' \in SUBSET LogRows /\ logs \subseteq logs'
  BY <1>1 DEF TypeOK
<1>9. \A row \in logs' \ logs : [x \in LogRows |-> x.user][row] = req[r].user
  BY <1>2, <1>4, <1>8
<1>10. Ledger!Cardinality(logs' \ logs) = Cardinality(logs' \ logs)
  BY DEF Ledger!Cardinality, Cardinality, Ledger!IsFiniteSet, IsFiniteSet
<1> QED
  BY <1>1, <1>5, <1>6, <1>7, <1>8, <1>9, <1>10 DEF Ledger!Draw

LEMMA LedgerStepRefined == IInv /\ [Next]_vars => [Ledger!LedgerNext]_(Ledger!ledgerVars)
<1> SUFFICES ASSUME IInv, [Next]_vars
             PROVE  Ledger!LedgerNext \/ UNCHANGED <<users, coins, logs>>
  BY DEF Ledger!ledgerVars
<1> DEFINE P == Ledger!LedgerNext \/ UNCHANGED <<users, coins, logs>>
<1>1. \A r \in Requests : Receive(r) \/ LoadEvent(r) \/ RefuseItems(r) \/ Deduct(r) => P
  BY DEF Receive, LoadEvent, RefuseItems, Deduct, database
<1>2. \A r \in Requests : /\ GetItems(r) => P
                          /\ CreateLogs(r) => P
                          /\ EmitPulls(r) => P
                          /\ Fail(r) => P
  BY DEF GetItems, CreateLogs, EmitPulls, Fail, database
<1>3. \A r \in Requests : Commit(r) \/ CommitUnheard(r) => P
  <2> SUFFICES ASSUME NEW r \in Requests, NEW step \in {"emit", "unanswered"},
                      pc[r] = "commit", Publish(r, step)
               PROVE  P
    BY DEF Commit, CommitUnheard
  <2>1. Ledger!Draw(req[r].user)
    BY PublishDraws
  <2>2. req[r].user \in Users
    BY AmountType DEF IInv
  <2> QED
    BY <2>1, <2>2 DEF Ledger!LedgerNext
<1>4. \A u \in Users, c \in Balances : UpdateUserCoins(u, c) => P
  BY DEF UpdateUserCoins, Ledger!LedgerNext, Ledger!SetBalance
<1>5. \A e \in Events, b \in BOOLEAN : UpdateEventActive(e, b) => P
  BY DEF UpdateEventActive
<1>6. /\ \A a \in Admins, u \in Users : CountUserLogs(a, u) => P
      /\ \A a \in Admins, i \in Items : CountItemLogs(a, i) => P
      /\ \A a \in Admins, e \in Events : CountEventLogs(a, e) => P
  BY DEF CountUserLogs, CountItemLogs, CountEventLogs, CountLogs, database
<1>7. \A a \in Admins, u \in Users : DeleteUser(a, u) => P
  <2> SUFFICES ASSUME NEW a \in Admins, NEW u \in Users, DeleteUser(a, u)
               PROVE  P
    OBVIOUS
  <2>1. Ledger!HistoryOf(u) = {row \in logs : row.user = u}
    BY DEF Ledger!HistoryOf, IInv, TypeOK
  <2>2. CASE u \in users
    BY <2>1, <2>2 DEF DeleteUser, Ledger!LedgerNext, Ledger!DropUser
  <2>3. CASE u \notin users
    BY <2>3 DEF DeleteUser, IInv, ReferencesHold
  <2> QED
    BY <2>2, <2>3
<1>8. /\ \A a \in Admins, i \in Items : DeleteItem(a, i) => P
      /\ \A a \in Admins, e \in Events : DeleteEvent(a, e) => P
  BY DEF DeleteItem, DeleteEvent
<1>9. CASE Next
  <2> HIDE DEF P
  <2>1. P
    BY <1>1, <1>2, <1>3, <1>4, <1>5, <1>6, <1>7, <1>8, <1>9, NextCases
  <2> QED
    BY <2>1 DEF P
<1>10. CASE UNCHANGED vars
  BY <1>10 DEF vars, database
<1> QED
  BY <1>9, <1>10

(* The pull service implements the ledger: concurrent, failing pulls are, in
   the committed tables, single steps that pay for what they record. *)
THEOREM PullsImplementLedger == Spec => ImplementsLedger
<1>1. Spec => Ledger!LedgerInit
  BY LedgerInitRefined DEF Spec
<1>2. Spec => [][Ledger!LedgerNext]_(Ledger!ledgerVars)
  BY Invariance, LedgerStepRefined, PTL DEF Spec
<1> QED
  BY <1>1, <1>2, PTL DEF ImplementsLedger, Ledger!LedgerSpec
=============================================================================
