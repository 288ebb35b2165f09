----------------------------- MODULE PullLedger -----------------------------
(***************************************************************************)
(* What a pull promises, with no word about requests, caches, locks or     *)
(* transactions: a player's balance and the pull history change together,  *)
(* in one step, and never beyond what the balance can pay for.             *)
(***************************************************************************)
EXTENDS Integers, FiniteSets

CONSTANTS
    Users,          \* the accounts
    Rows,           \* every history row a pull may ever write
    RowUser,        \* RowUser[row]: the account a row belongs to
    PullCost,       \* coins one draw costs
    InitialCoins,   \* balance an account starts with
    Balances        \* the balances an administrator may set

VARIABLES
    users,          \* accounts that exist
    coins,          \* balance of each account
    logs            \* the history: the rows written so far

ledgerVars == <<users, coins, logs>>

HistoryOf(u) == {row \in logs : RowUser[row] = u}

LedgerInit ==
    /\ users = Users
    /\ coins = [u \in Users |-> InitialCoins]
    /\ logs = {}

(* One pull: one or several draws paid for and recorded at once. *)
Draw(u) ==
    LET price == PullCost * Cardinality(logs' \ logs)
    IN  /\ u \in users
        /\ logs' \in SUBSET Rows
        /\ logs \subseteq logs'
        /\ logs # logs'
        /\ \A row \in logs' \ logs : RowUser[row] = u
        /\ coins[u] >= price
        /\ coins' = [coins EXCEPT ![u] = @ - price]
        /\ UNCHANGED users

(* An administrator overwrites a balance. *)
SetBalance(u, c) ==
    /\ u \in users
    /\ coins' = [coins EXCEPT ![u] = c]
    /\ UNCHANGED <<users, logs>>

(* An administrator deletes an account; its history goes with it. *)
DropUser(u) ==
    /\ u \in users
    /\ users' = users \ {u}
    /\ logs' = logs \ HistoryOf(u)
    /\ UNCHANGED coins

LedgerNext ==
    \E u \in Users :
        \/ Draw(u)
        \/ \E c \in Balances : SetBalance(u, c)
        \/ DropUser(u)

LedgerSpec == LedgerInit /\ [][LedgerNext]_ledgerVars
=============================================================================
