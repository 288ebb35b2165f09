------------------------- MODULE AuthSessionProofs --------------------------
(***************************************************************************)
(* Proofs about AuthSession, for any number of calls and logins.  That a   *)
(* token is exchanged once is proved for a browser with one tab, which is  *)
(* what it needs: with two tabs it is false.                               *)
(***************************************************************************)
EXTENDS AuthSession, TLAPS, FiniteSetTheorems

Handlers == Calls \cup Logins
HandlerSteps == {"idle", "received", "issuing", "answered", "refused", "done"}
CallSteps == {"idle", "sent", "unauthorized", "waiting", "resent"} \cup Ended

(* The types, with the pairs bounded by those minted so far. *)
Types ==
    /\ account \in {"open", "banned", "deleted"}
    /\ minted \in Nat \ {0}
    /\ stored \in 0..minted /\ session \in 0..minted
    /\ lapsed \in BOOLEAN /\ logout \in BOOLEAN
    /\ expired \subseteq 1..minted
    /\ retired \subseteq 1..minted
    /\ handler \in [Handlers -> [step : HandlerSteps, shown : 0..minted, given : 0..minted]]
    /\ flight \in [Tabs -> Calls \cup {None}]
    /\ call \in [Calls -> [step : CallSteps, bearer : 0..minted, effects : Nat]]

(* A call has no refresh of its own before it was answered 401. *)
Unstarted ==
    /\ \A c \in Calls : call[c].step \in {"idle", "sent", "unauthorized"}
                            => handler[c].step = "idle"
    /\ \A h \in Handlers : handler[h].step = "idle" => handler[h].shown = 0
    /\ \A h \in Handlers : handler[h].step \in {"idle", "received", "issuing"}
                               => handler[h].given = 0

(* Every pair minted after the first was given to one handler. *)
Given == {h \in Handlers : handler[h].given # 0}
MintedOnce == minted = 1 + Cardinality(Given)

(* A call that has not ended has not taken effect. *)
Effects ==
    \A c \in Calls : /\ call[c].effects <= 1
                     /\ call[c].step \notin Ended => call[c].effects = 0

SafeInv == Types /\ Unstarted /\ MintedOnce /\ Effects /\ RetiredStaysOut

-----------------------------------------------------------------------------
LEMMA Numbers ==
    ASSUME Types
    PROVE  /\ minted + 1 \in Nat \ {0}
           /\ 0..minted \subseteq 0..(minted + 1)
           /\ 1..minted \subseteq 1..(minted + 1)
           /\ minted + 1 \in 0..(minted + 1)
           /\ minted + 1 \notin 0..minted
           /\ 0 \in 0..minted /\ 0 \notin 1..minted
           /\ 1..minted \subseteq 0..minted
BY DEF Types

LEMMA NextCases ==
    ASSUME [Next]_vars, NEW P,
           \A c \in Calls : Send(c) \/ Serve(c) \/ Lose(c) => P,
           \A c \in Calls : Handle(c) => P,
           \A c \in Calls : CheckRefresh(c) => P,
           \A h \in Handlers : Issue(h) => P,
           \A h \in Handlers : HandlerFails(h) => P,
           \A t \in Tabs : Refreshed(t) => P,
           \A t \in Tabs : RefreshRefused(t) \/ RefreshLost(t) => P,
           \A l \in Logins : Login(l) => P,
           \A l \in Logins : TakeLogin(l) => P,
           \A to \in {"open", "banned", "deleted"} : SetAccount(to) => P,
           \A pair \in 1..minted : ExpireToken(pair) => P,
           AdmitLogout => P, Logout => P, Lapse => P, SignOut => P,
           UNCHANGED vars => P
    PROVE  P
BY Zenon DEF Next, Answer, Resume, Handlers

-----------------------------------------------------------------------------
LEMMA TypesInit == Init => Types
<1> SUFFICES ASSUME Init PROVE Types
  OBVIOUS
<1>1. minted = 1 /\ stored = 1 /\ session = 1 /\ expired \subseteq 1..1 /\ retired = {}
  BY DEF Init
<1>2. handler \in [Handlers -> [step : HandlerSteps, shown : 0..1, given : 0..1]]
  BY DEF Init, Handlers, HandlerSteps
<1>3. call \in [Calls -> [step : CallSteps, bearer : 0..1, effects : Nat]]
  BY DEF Init, CallSteps
<1>4. flight \in [Tabs -> Calls \cup {None}]
  BY DEF Init
<1>5. /\ minted \in Nat \ {0} /\ stored \in 0..minted /\ session \in 0..minted
      /\ expired \subseteq 1..minted /\ retired \subseteq 1..minted
  BY <1>1
<1> QED
  BY <1>1, <1>2, <1>3, <1>4, <1>5 DEF Init, Types

LEMMA TypesStep == Types /\ [Next]_vars => Types'
<1> SUFFICES ASSUME Types, [Next]_vars PROVE Types'
  OBVIOUS
<1> USE DEF Types, HandlerSteps, CallSteps, Ended
<1>1. \A c \in Calls : Send(c) \/ Serve(c) \/ Lose(c) => Types'
  <2> SUFFICES ASSUME NEW c \in Calls, Send(c) \/ Serve(c) \/ Lose(c) PROVE Types'
    OBVIOUS
  <2> DEFINE new == call'[c]
  <2>1. /\ call' = [call EXCEPT ![c] = new]
        /\ new \in [step : CallSteps, bearer : 0..minted, effects : Nat]
    <3>1. CASE Send(c)
      BY <3>1 DEF Send
    <3>2. CASE Serve(c)
      <4>1. CASE Accepts(call[c].bearer)
        BY <3>2, <4>1 DEF Serve
      <4>2. CASE ~Accepts(call[c].bearer)
        BY <3>2, <4>2 DEF Serve
      <4> QED
        BY <4>1, <4>2
    <3>3. CASE Lose(c)
      BY <3>3 DEF Lose
    <3> QED
      BY <3>1, <3>2, <3>3
  <2>2. UNCHANGED <<server, handler, logout, session, flight>>
    BY DEF Send, Serve, Lose
  <2> HIDE DEF new, HandlerSteps, CallSteps, Ended
  <2> QED
    BY <2>1, <2>2 DEF server
<1>2. \A c \in Calls : Handle(c) => Types'
  <2> SUFFICES ASSUME NEW c \in Calls, Handle(c) PROVE Types'
    OBVIOUS
  <2>1. CASE GiveUp(c)
    BY <2>1 DEF GiveUp, server
  <2>2. CASE Await(c, FALSE)
    BY <2>2 DEF Await, server
  <2>3. CASE Await(c, TRUE)
    <3>1. flight' \in [Tabs -> Calls \cup {None}]
      BY <2>3 DEF Await
    <3>2. handler' \in [Handlers -> [step : HandlerSteps, shown : 0..minted, given : 0..minted]]
      <4>1. handler' = [handler EXCEPT ![c].step = "received", ![c].shown = session]
        BY <2>3 DEF Await
      <4>2. /\ c \in Handlers
            /\ "received" \in HandlerSteps /\ session \in 0..minted
            /\ handler \in [Handlers -> [step : HandlerSteps, shown : 0..minted,
                                        given : 0..minted]]
        BY DEF Handlers
      <4> HIDE DEF Types, HandlerSteps, CallSteps, Ended
      <4> QED
        BY <4>1, <4>2
    <3>3. call' \in [Calls -> [step : CallSteps, bearer : 0..minted, effects : Nat]]
      BY <2>3 DEF Await
    <3>4. UNCHANGED <<server, logout, session>>
      BY <2>3 DEF Await
    <3> HIDE DEF HandlerSteps, CallSteps, Ended
    <3> QED
      BY <3>1, <3>2, <3>3, <3>4 DEF server
  <2> QED
    BY <2>1, <2>2, <2>3 DEF Handle
<1>3. \A c \in Calls : CheckRefresh(c) => Types'
  BY DEF CheckRefresh, Reach, server, Handlers
<1>4. \A h \in Handlers : Issue(h) => Types'
  <2> SUFFICES ASSUME NEW h \in Handlers, Issue(h) PROVE Types'
    OBVIOUS
  <2>1. CASE account = "deleted"
    BY <2>1 DEF Issue, Reach
  <2>2. CASE account # "deleted"
    <3>1. /\ minted' = minted + 1 /\ stored' = minted + 1 /\ lapsed' = FALSE
          /\ retired' = retired \cup ({handler[h].shown} \ {0})
          /\ handler' = [handler EXCEPT ![h].step = "answered", ![h].given = minted + 1]
          /\ UNCHANGED <<account, expired, logout, session, flight, call>>
      BY <2>2 DEF Issue
    <3>2. retired' \subseteq 1..(minted + 1)
      <4>1. {handler[h].shown} \ {0} \subseteq 1..(minted + 1)
        OBVIOUS
      <4> QED
        BY <3>1, <4>1, Numbers
    <3>3. handler' \in [Handlers -> [step : HandlerSteps, shown : 0..(minted + 1),
                                     given : 0..(minted + 1)]]
      <4>1. handler \in [Handlers -> [step : HandlerSteps, shown : 0..(minted + 1),
                                      given : 0..(minted + 1)]]
        BY Numbers
      <4> QED
        BY <3>1, <4>1, Numbers
    <3>4. call \in [Calls -> [step : CallSteps, bearer : 0..(minted + 1), effects : Nat]]
      BY Numbers
    <3>5. /\ minted' \in Nat \ {0} /\ stored' \in 0..(minted + 1)
          /\ session' \in 0..(minted + 1) /\ expired' \subseteq 1..(minted + 1)
      BY <3>1, Numbers
    <3> QED
      BY <3>1, <3>2, <3>3, <3>4, <3>5
  <2> QED
    BY <2>1, <2>2
<1>5. \A h \in Handlers : HandlerFails(h) => Types'
  BY DEF HandlerFails, Reach, server
<1>6. ASSUME NEW t \in Tabs, NEW pair \in 0..minted, Settle(t, pair)
      PROVE  /\ session' \in 0..minted
             /\ flight' \in [Tabs -> Calls \cup {None}]
             /\ call' \in [Calls -> [step : CallSteps, bearer : 0..minted, effects : Nat]]
             /\ UNCHANGED <<account, minted, stored, lapsed, logout, expired, retired>>
  BY <1>6 DEF Settle, server
<1>7. \A t \in Tabs : Refreshed(t) => Types'
  <2> SUFFICES ASSUME NEW t \in Tabs, Refreshed(t) PROVE Types'
    OBVIOUS
  <2>1. /\ flight[t] \in Handlers
        /\ handler[flight[t]].given \in 0..minted
        /\ Settle(t, handler[flight[t]].given)
        /\ handler' = [handler EXCEPT ![flight[t]].step = "done"]
    BY DEF Refreshed, Reach, Handlers
  <2>2. handler' \in [Handlers -> [step : HandlerSteps, shown : 0..minted, given : 0..minted]]
    BY <2>1
  <2> HIDE DEF HandlerSteps, CallSteps, Ended
  <2> QED
    BY <1>6, <2>1, <2>2
<1>8. \A t \in Tabs : RefreshRefused(t) \/ RefreshLost(t) => Types'
  <2> SUFFICES ASSUME NEW t \in Tabs, Settle(t, 0), UNCHANGED handler PROVE Types'
    BY DEF RefreshRefused, RefreshLost
  <2> HIDE DEF HandlerSteps, CallSteps, Ended
  <2> QED
    BY <1>6, Numbers
<1>9. \A l \in Logins : Login(l) => Types'
  BY DEF Login, Reach, server, Handlers
<1>10. \A l \in Logins : TakeLogin(l) => Types'
  BY DEF TakeLogin, Reach, server, Handlers
<1>11. \A to \in {"open", "banned", "deleted"} : SetAccount(to) => Types'
  BY DEF SetAccount
<1>12. \A pair \in 1..minted : ExpireToken(pair) => Types'
  BY DEF ExpireToken
<1>13. /\ AdmitLogout => Types'
       /\ Lapse => Types'
       /\ UNCHANGED vars => Types'
  BY DEF AdmitLogout, Lapse, vars, server
<1>14. Logout => Types'
  BY Numbers DEF Logout
<1>15. SignOut => Types'
  BY Numbers DEF SignOut, server
<1> HIDE DEF Types, HandlerSteps, CallSteps, Ended
<1> QED
  BY <1>1, <1>2, <1>3, <1>4, <1>5, <1>7, <1>8, <1>9, <1>10, <1>11, <1>12, <1>13, <1>14, <1>15,
     NextCases

-----------------------------------------------------------------------------
LEMMA UnstartedStep == Types /\ Unstarted /\ [Next]_vars => Unstarted'
<1> SUFFICES ASSUME Types, Unstarted, [Next]_vars PROVE Unstarted'
  OBVIOUS
<1> USE DEF Unstarted, Types
<1>1. \A c \in Calls : Send(c) \/ Serve(c) \/ Lose(c) => Unstarted'
  BY DEF Send, Serve, Lose, Ended
<1>2. \A c \in Calls : Handle(c) => Unstarted'
  <2> SUFFICES ASSUME NEW c \in Calls, Handle(c) PROVE Unstarted'
    OBVIOUS
  <2>1. CASE GiveUp(c) \/ Await(c, FALSE)
    BY <2>1 DEF GiveUp, Await
  <2>2. CASE Await(c, TRUE)
    <3>1. c \in Handlers /\ handler[c].step = "idle" /\ handler[c].given = 0
      BY DEF Handlers, Handle
    <3>2. /\ handler' = [handler EXCEPT ![c] = [@ EXCEPT !.step = "received", !.shown = session]]
          /\ call' = [call EXCEPT ![c] = [@ EXCEPT !.step = "waiting"]]
      BY <2>2 DEF Await
    <3>3. /\ handler'[c].step = "received" /\ handler'[c].given = 0
          /\ \A h \in Handlers \ {c} : handler'[h] = handler[h]
      BY <3>1, <3>2
    <3>4. /\ call'[c].step = "waiting"
          /\ \A d \in Calls \ {c} : call'[d] = call[d]
      BY <3>2
    <3> QED
      BY <3>3, <3>4 DEF Handlers
  <2> QED
    BY <2>1, <2>2 DEF Handle
<1>3. \A c \in Calls : CheckRefresh(c) => Unstarted'
  BY DEF CheckRefresh, Reach, Handlers
<1>4. \A h \in Handlers : Issue(h) => Unstarted'
  <2> SUFFICES ASSUME NEW h \in Handlers, Issue(h) PROVE Unstarted'
    OBVIOUS
  <2>1. /\ handler[h].step = "issuing"
        /\ handler'[h].step \in {"refused", "answered"}
        /\ \A g \in Handlers \ {h} : handler'[g] = handler[g]
        /\ call' = call
    BY DEF Issue, Reach
  <2> QED
    BY <2>1 DEF Handlers
<1>5. \A h \in Handlers : HandlerFails(h) => Unstarted'
  BY DEF HandlerFails, Reach, Handlers
<1>6. \A t \in Tabs : Refreshed(t) => Unstarted'
  <2> SUFFICES ASSUME NEW t \in Tabs, Refreshed(t) PROVE Unstarted'
    OBVIOUS
  <2>1. /\ flight[t] \in Handlers
        /\ handler[flight[t]].step = "answered"
        /\ handler'[flight[t]].step = "done"
        /\ \A g \in Handlers \ {flight[t]} : handler'[g] = handler[g]
    BY DEF Refreshed, Reach, Handlers
  <2>2. \A c \in Calls : call'[c].step = call[c].step
                          \/ call'[c].step \in {"error", "resent"}
    BY DEF Refreshed, Settle
  <2> QED
    BY <2>1, <2>2 DEF Handlers
<1>7. \A t \in Tabs : RefreshRefused(t) \/ RefreshLost(t) => Unstarted'
  BY DEF RefreshRefused, RefreshLost, Settle
<1>8. \A l \in Logins : Login(l) => Unstarted'
  BY SessionAssumption DEF Login, Reach, Handlers
<1>9. \A l \in Logins : TakeLogin(l) => Unstarted'
  BY SessionAssumption DEF TakeLogin, Reach, Handlers
<1>10. \A to \in {"open", "banned", "deleted"} : SetAccount(to) => Unstarted'
  BY DEF SetAccount
<1>11. \A pair \in 1..minted : ExpireToken(pair) => Unstarted'
  BY DEF ExpireToken
<1>12. /\ AdmitLogout => Unstarted'
       /\ Logout => Unstarted'
       /\ Lapse => Unstarted'
       /\ SignOut => Unstarted'
       /\ UNCHANGED vars => Unstarted'
  BY DEF AdmitLogout, Logout, Lapse, SignOut, vars
<1> HIDE DEF Unstarted, Types
<1> QED
  BY <1>1, <1>2, <1>3, <1>4, <1>5, <1>6, <1>7, <1>8, <1>9, <1>10, <1>11, <1>12, NextCases
-----------------------------------------------------------------------------
(* Only a token issue mints, retires or gives; nothing else stores a pair. *)
Issued(h) ==
    /\ handler[h].step = "issuing"
    /\ minted' = minted + 1 /\ stored' = minted + 1
    /\ retired' = retired \cup ({handler[h].shown} \ {0})
    /\ handler' = [handler EXCEPT ![h].step = "answered", ![h].given = minted + 1]

Kept ==
    /\ minted' = minted /\ retired' = retired
    /\ stored' \in {stored, 0}
    /\ \A h \in Handlers : handler'[h].given = handler[h].given

LEMMA IssuedOrKept ==
    ASSUME Types, [Next]_vars
    PROVE  Kept \/ \E h \in Handlers : Issued(h)
<1> DEFINE Goal == Kept \/ \E h \in Handlers : Issued(h)
<1> USE DEF Kept, Types
<1>1. \A c \in Calls : Send(c) \/ Serve(c) \/ Lose(c) => Goal
  BY DEF Send, Serve, Lose, server
<1>2. \A c \in Calls : Handle(c) => Goal
  <2> SUFFICES ASSUME NEW c \in Calls, Handle(c) PROVE Goal
    OBVIOUS
  <2>1. CASE GiveUp(c) \/ Await(c, FALSE)
    BY <2>1 DEF GiveUp, Await, server
  <2>2. CASE Await(c, TRUE)
    BY <2>2 DEF Await, server, Handlers
  <2> QED
    BY <2>1, <2>2 DEF Handle
<1>3. \A c \in Calls : CheckRefresh(c) => Goal
  BY DEF CheckRefresh, Reach, Handlers, server
<1>4. \A h \in Handlers : Issue(h) => Goal
  <2> SUFFICES ASSUME NEW h \in Handlers, Issue(h) PROVE Goal
    OBVIOUS
  <2>1. CASE account = "deleted"
    BY <2>1 DEF Issue, Reach
  <2>2. CASE account # "deleted"
    BY <2>2 DEF Issue, Issued
  <2> QED
    BY <2>1, <2>2
<1>5. \A h \in Handlers : HandlerFails(h) => Goal
  BY DEF HandlerFails, Reach, server
<1>6. \A t \in Tabs : Refreshed(t) => Goal
  <2> SUFFICES ASSUME NEW t \in Tabs, Refreshed(t) PROVE Goal
    OBVIOUS
  <2>1. /\ flight[t] \in Handlers
        /\ handler' = [handler EXCEPT ![flight[t]].step = "done"]
    BY DEF Refreshed, Reach, Handlers
  <2>2. UNCHANGED server
    BY DEF Refreshed, Settle
  <2> QED
    BY <2>1, <2>2 DEF server
<1>7. \A t \in Tabs : RefreshRefused(t) \/ RefreshLost(t) => Goal
  BY DEF RefreshRefused, RefreshLost, Settle, server
<1>8. \A l \in Logins : Login(l) => Goal
  BY DEF Login, Reach, Handlers, server
<1>9. \A l \in Logins : TakeLogin(l) => Goal
  BY DEF TakeLogin, Reach, Handlers, server
<1>10. \A to \in {"open", "banned", "deleted"} : SetAccount(to) => Goal
  BY DEF SetAccount
<1>11. \A pair \in 1..minted : ExpireToken(pair) => Goal
  BY DEF ExpireToken
<1>12. /\ AdmitLogout => Goal
       /\ Logout => Goal
       /\ Lapse => Goal
       /\ SignOut => Goal
       /\ UNCHANGED vars => Goal
  BY DEF AdmitLogout, Logout, Lapse, SignOut, vars, server
<1> HIDE DEF Kept, Types, Goal
<1>13. Goal
  BY <1>1, <1>2, <1>3, <1>4, <1>5, <1>6, <1>7, <1>8, <1>9, <1>10, <1>11, <1>12, NextCases
<1> QED
  BY <1>13 DEF Goal

LEMMA GivenFinite ==
    /\ IsFiniteSet(Given)
    /\ Cardinality(Given) \in Nat
    /\ Cardinality(Given) <= Cardinality(Calls) + Cardinality(Logins)
<1>1. IsFiniteSet(Handlers)
      /\ Cardinality(Handlers) = Cardinality(Calls) + Cardinality(Logins)
  <2>1. /\ IsFiniteSet(Calls) /\ IsFiniteSet(Logins) /\ Calls \cap Logins = {}
        /\ Cardinality(Calls \cap Logins) = 0
    BY SessionAssumption, FS_EmptySet
  <2>2. Cardinality(Calls) \in Nat /\ Cardinality(Logins) \in Nat
    BY <2>1, FS_CardinalityType
  <2>3. /\ IsFiniteSet(Calls \cup Logins)
        /\ Cardinality(Calls \cup Logins)
             = Cardinality(Calls) + Cardinality(Logins) - Cardinality(Calls \cap Logins)
    BY <2>1, FS_Union, Zenon
  <2> QED
    BY <2>1, <2>2, <2>3 DEF Handlers
<1>2. Given \subseteq Handlers
  BY DEF Given
<1> QED
  BY <1>1, <1>2, FS_Subset, FS_CardinalityType

LEMMA MintedOnceStep == Types /\ Unstarted /\ MintedOnce /\ [Next]_vars => MintedOnce'
<1> SUFFICES ASSUME Types, Unstarted, MintedOnce, [Next]_vars PROVE MintedOnce'
  OBVIOUS
<1>1. CASE Kept
  <2>1. Given' = Given
    BY <1>1 DEF Kept, Given
  <2> QED
    BY <1>1, <2>1 DEF MintedOnce, Kept
<1>2. CASE \E h \in Handlers : Issued(h)
  <2>1. PICK h \in Handlers : Issued(h)
    BY <1>2
  <2>2. /\ handler[h].given = 0
        /\ handler'[h].given = minted + 1
        /\ \A g \in Handlers \ {h} : handler'[g] = handler[g]
    BY <2>1 DEF Issued, Unstarted, Types
  <2>3. minted + 1 # 0
    BY DEF Types
  <2>4. h \notin Given /\ Given' = Given \cup {h}
    BY <2>2, <2>3 DEF Given
  <2>5. Cardinality(Given') = Cardinality(Given) + 1
    BY <2>4, GivenFinite, FS_AddElement
  <2>6. minted' = minted + 1
    BY <2>1 DEF Issued
  <2> QED
    BY <2>5, <2>6, GivenFinite DEF MintedOnce
<1> QED
  BY <1>1, <1>2, IssuedOrKept

LEMMA RetiredStep == Types /\ RetiredStaysOut /\ [Next]_vars => RetiredStaysOut'
<1> SUFFICES ASSUME Types, RetiredStaysOut, [Next]_vars PROVE RetiredStaysOut'
  OBVIOUS
<1>1. CASE Kept
  BY <1>1 DEF Kept, RetiredStaysOut, Types
<1>2. CASE \E h \in Handlers : Issued(h)
  <2>1. PICK h \in Handlers : Issued(h)
    BY <1>2
  <2>2. minted + 1 \notin retired /\ minted + 1 # handler[h].shown
    BY Numbers DEF Types
  <2> QED
    BY <2>1, <2>2 DEF Issued, RetiredStaysOut
<1> QED
  BY <1>1, <1>2, IssuedOrKept

LEMMA EffectsStep == Types /\ Effects /\ [Next]_vars => Effects'
<1> SUFFICES ASSUME Types, Effects, [Next]_vars PROVE Effects'
  OBVIOUS
<1> USE DEF Effects, Ended, Types
<1>1. \A c \in Calls : Send(c) \/ Serve(c) \/ Lose(c) => Effects'
  <2> SUFFICES ASSUME NEW c \in Calls, Send(c) \/ Serve(c) \/ Lose(c) PROVE Effects'
    OBVIOUS
  <2>1. \A d \in Calls \ {c} : call'[d] = call[d]
    BY DEF Send, Serve, Lose
  <2>2. /\ call'[c].effects <= 1
        /\ call'[c].step \notin Ended => call'[c].effects = 0
    <3>1. CASE Send(c)
      BY <3>1 DEF Send
    <3>2. CASE Serve(c)
      BY <3>2 DEF Serve
    <3>3. CASE Lose(c)
      BY <3>3 DEF Lose
    <3> QED
      BY <3>1, <3>2, <3>3
  <2> QED
    BY <2>1, <2>2
<1>2. \A c \in Calls : Handle(c) => Effects'
  <2> SUFFICES ASSUME NEW c \in Calls, Handle(c) PROVE Effects'
    OBVIOUS
  <2>1. /\ call[c].step = "unauthorized"
        /\ \E step \in {"waiting", "error"} : call' = [call EXCEPT ![c].step = step]
    BY DEF Handle, Await, GiveUp
  <2> QED
    BY <2>1
<1>3. ASSUME NEW t \in Tabs, NEW pair \in 0..minted, Settle(t, pair)
      PROVE  Effects'
  BY <1>3 DEF Settle
<1>4. \A t \in Tabs : Refreshed(t) => Effects'
  BY <1>3 DEF Refreshed, Handlers
<1>5. \A t \in Tabs : RefreshRefused(t) \/ RefreshLost(t) => Effects'
  BY <1>3, Numbers DEF RefreshRefused, RefreshLost
<1>6. call' = call => Effects'
  OBVIOUS
<1>7. \A h \in Handlers : Issue(h) \/ HandlerFails(h) => call' = call
  BY DEF Issue, HandlerFails
<1>8. \A c \in Calls : CheckRefresh(c) => call' = call
  BY DEF CheckRefresh
<1>9. \A l \in Logins : Login(l) \/ TakeLogin(l) => call' = call
  BY DEF Login, TakeLogin
<1>10. \A to \in {"open", "banned", "deleted"} : SetAccount(to) => call' = call
  BY DEF SetAccount
<1>11. \A pair \in 1..minted : ExpireToken(pair) => call' = call
  BY DEF ExpireToken
<1>12. AdmitLogout \/ Logout \/ Lapse \/ SignOut \/ UNCHANGED vars => call' = call
  BY DEF AdmitLogout, Logout, Lapse, SignOut, vars
<1> HIDE DEF Effects, Types, Ended
<1> QED
  BY <1>1, <1>2, <1>4, <1>5, <1>6, <1>7, <1>8, <1>9, <1>10, <1>11, <1>12, NextCases

-----------------------------------------------------------------------------
(* What every reachable state of the session satisfies: types, one handler for
   each pair, calls that act once, and exchanged secrets that stay out. *)
THEOREM SessionInvariant == Spec => []SafeInv
<1>1. Init => SafeInv
  <2> SUFFICES ASSUME Init PROVE SafeInv
    OBVIOUS
  <2>1. Types
    BY TypesInit
  <2>2. Unstarted
    BY DEF Init, Unstarted, Handlers
  <2>3. Given = {}
    BY DEF Init, Given, Handlers
  <2>4. MintedOnce
    BY <2>3, FS_EmptySet DEF Init, MintedOnce
  <2>5. Effects /\ RetiredStaysOut
    BY DEF Init, Effects, RetiredStaysOut, Ended
  <2> QED
    BY <2>1, <2>2, <2>4, <2>5 DEF SafeInv
<1>2. SafeInv /\ [Next]_vars => SafeInv'
  BY TypesStep, UnstartedStep, MintedOnceStep, EffectsStep, RetiredStep DEF SafeInv
<1> QED
  BY <1>1, <1>2, PTL DEF Spec

(* The users row, the handlers and the browser keep their types, with as many
   pairs minted as calls and logins can ask for. *)
THEOREM SessionTypeCorrect == Spec => []TypeOK
<1>1. SafeInv => TypeOK
  <2> SUFFICES ASSUME SafeInv PROVE TypeOK
    OBVIOUS
  <2> USE DEF SafeInv
  <2>1. 0..minted \subseteq Pairs
    <3>1. Cardinality(Calls) \in Nat /\ Cardinality(Logins) \in Nat
      BY SessionAssumption, FS_CardinalityType
    <3> QED
      BY <3>1, GivenFinite DEF Pairs, MintedOnce
  <2>2. minted \in Pairs /\ stored \in Pairs /\ session \in Pairs
    BY <2>1 DEF Types
  <2>3. handler \in [Handlers -> [step : HandlerSteps, shown : Pairs, given : Pairs]]
    BY <2>1 DEF Types
  <2>4. call \in [Calls -> [step : CallSteps, bearer : Pairs, effects : Nat]]
    BY <2>1 DEF Types
  <2> QED
    BY <2>2, <2>3, <2>4 DEF Types, TypeOK, Handlers, HandlerSteps, CallSteps
<1> QED
  BY <1>1, SessionInvariant, PTL

(* However the handlers of refreshes and logins interleave, the row never holds
   a secret again that a refresh has exchanged. *)
THEOREM RetiredNeverReturns == Spec => []RetiredStaysOut
<1>1. SafeInv => RetiredStaysOut
  BY DEF SafeInv
<1> QED
  BY <1>1, SessionInvariant, PTL

(* The replay after a refresh never repeats an effect of the first attempt. *)
THEOREM OneEffect == Spec => []EffectOnce
<1>1. SafeInv => EffectOnce
  BY DEF SafeInv, Effects, EffectOnce
<1> QED
  BY <1>1, SessionInvariant, PTL

-----------------------------------------------------------------------------
(* What releases a waiting call: a tab's refresh in flight belongs to a call of
   that tab which waits itself and whose request is not over. *)
Runs(r) ==
    call[r].step = "waiting" /\ handler[r].step \in {"received", "issuing", "answered", "refused"}

FlightRuns == \A t \in Tabs : flight[t] # None => TabOf[flight[t]] = t /\ Runs(flight[t])
WaitersAwait == \A c \in Calls : call[c].step = "waiting" => flight[TabOf[c]] # None

LEMMA StrandedStep ==
    ASSUME Types, Unstarted, FlightRuns, WaitersAwait, [Next]_vars
    PROVE  FlightRuns' /\ WaitersAwait'
<1> DEFINE Goal == FlightRuns' /\ WaitersAwait'
<1>a. /\ \A c \in Calls : TabOf[c] \in Tabs /\ c \in Handlers
      /\ \A t \in Tabs : flight[t] # None => flight[t] \in Calls /\ flight[t] \in Handlers
      /\ None \notin Calls
  BY SessionAssumption DEF Types, Handlers
<1>1. ASSUME NEW c \in Calls, call[c].step # "waiting", UNCHANGED <<handler, flight>>,
             NEW new, call' = [call EXCEPT ![c] = new], new.step # "waiting"
      PROVE  Goal
  BY <1>1, <1>a DEF FlightRuns, WaitersAwait, Runs, Types
<1>2. ASSUME NEW h \in Handlers, handler[h].step \notin {"idle", "done"}, UNCHANGED <<call, flight>>,
             NEW step \in {"issuing", "answered", "refused"}, handler'[h].step = step,
             \A g \in Handlers \ {h} : handler'[g] = handler[g]
      PROVE  Goal
  BY <1>2, <1>a DEF FlightRuns, WaitersAwait, Runs
<1>3. ASSUME NEW l \in Logins, UNCHANGED <<call, flight>>,
             \A g \in Handlers \ {l} : handler'[g] = handler[g]
      PROVE  Goal
  BY <1>3, <1>a, SessionAssumption DEF FlightRuns, WaitersAwait, Runs
<1>4. ASSUME UNCHANGED <<handler, flight, call>> PROVE Goal
  BY <1>4 DEF FlightRuns, WaitersAwait, Runs
<1>5. ASSUME NEW t \in Tabs, flight[t] # None, NEW pair \in 0..minted, Settle(t, pair),
             \A g \in Handlers \ {flight[t]} : handler'[g] = handler[g]
      PROVE  Goal
  <2>1. /\ flight'[t] = None
        /\ \A u \in Tabs \ {t} : flight'[u] = flight[u]
        /\ \A c \in Calls : TabOf[c] # t => call'[c] = call[c]
        /\ \A c \in Calls : TabOf[c] = t => call'[c].step # "waiting"
    <3>1. /\ flight' = [flight EXCEPT ![t] = None]
          /\ call' = [c \in Calls |->
                        IF TabOf[c] # t \/ call[c].step # "waiting" THEN call[c]
                        ELSE IF pair = 0 THEN [call[c] EXCEPT !.step = "error"]
                        ELSE [call[c] EXCEPT !.step = "resent", !.bearer = pair]]
      BY <1>5 DEF Settle
    <3>2. /\ flight \in [Tabs -> Calls \cup {None}]
          /\ call \in [Calls -> [step : CallSteps, bearer : 0..minted, effects : Nat]]
      BY DEF Types
    <3>3. \A c \in Calls : TabOf[c] = t => call'[c].step # "waiting"
      BY <3>1, <3>2
    <3>4. \A c \in Calls : TabOf[c] # t => call'[c] = call[c]
      BY <3>1
    <3> QED
      BY <3>1, <3>2, <3>3, <3>4
  <2>2. FlightRuns'
    <3> SUFFICES ASSUME NEW u \in Tabs, flight'[u] # None
                 PROVE  (TabOf[flight[u]] = u /\ Runs(flight[u]))'
      BY DEF FlightRuns
    <3>1. u # t /\ flight'[u] = flight[u] /\ TabOf[flight[u]] = u /\ Runs(flight[u])
      BY <2>1 DEF FlightRuns
    <3>2. /\ flight[u] \in Calls /\ flight[u] \in Handlers /\ flight[u] # flight[t]
          /\ call'[flight[u]] = call[flight[u]]
      BY <1>5, <1>a, <2>1, <3>1 DEF FlightRuns
    <3> QED
      BY <1>5, <3>1, <3>2 DEF Runs
  <2>3. WaitersAwait'
    BY <1>a, <2>1 DEF WaitersAwait
  <2> QED
    BY <2>2, <2>3
<1>6. \A c \in Calls : Send(c) \/ Serve(c) \/ Lose(c) => Goal
  <2> SUFFICES ASSUME NEW c \in Calls, Send(c) \/ Serve(c) \/ Lose(c) PROVE Goal
    OBVIOUS
  <2>1. call[c].step # "waiting" /\ UNCHANGED <<handler, flight>>
    BY DEF Send, Serve, Lose
  <2>2. /\ call' = [call EXCEPT ![c] = call'[c]]
        /\ call'[c].step # "waiting"
    BY DEF Send, Serve, Lose, Types
  <2> QED
    BY <1>1, <2>1, <2>2
<1>7. \A c \in Calls : Handle(c) => Goal
  <2> SUFFICES ASSUME NEW c \in Calls, Handle(c) PROVE Goal
    OBVIOUS
  <2>1. call[c].step = "unauthorized" /\ handler[c].step = "idle"
    BY DEF Handle, Unstarted
  <2>2. CASE GiveUp(c)
    <3>1. /\ UNCHANGED <<handler, flight>>
          /\ call' = [call EXCEPT ![c] = call'[c]] /\ call'[c].step # "waiting"
      BY <2>2 DEF GiveUp, Types
    <3> QED
      BY <1>1, <2>1, <3>1
  <2>3. CASE Await(c, FALSE) /\ flight[TabOf[c]] # None
    <3>1. UNCHANGED <<handler, flight>> /\ \A d \in Calls \ {c} : call'[d] = call[d]
      BY <2>3 DEF Await
    <3> QED
      BY <1>a, <2>1, <2>3, <3>1 DEF FlightRuns, WaitersAwait, Runs
  <2>4. CASE Await(c, TRUE)
    <3>1. /\ \A d \in Calls \ {c} : call'[d] = call[d] /\ handler'[d] = handler[d]
          /\ call'[c].step = "waiting" /\ handler'[c].step = "received"
          /\ flight'[TabOf[c]] = c
          /\ \A t \in Tabs \ {TabOf[c]} : flight'[t] = flight[t]
      BY <1>a, <2>4 DEF Await, Types, Handlers
    <3>2. FlightRuns'
      BY <1>a, <2>1, <3>1 DEF FlightRuns, Runs
    <3>3. WaitersAwait'
      BY <1>a, <3>1 DEF WaitersAwait
    <3> QED
      BY <3>2, <3>3
  <2> QED
    BY <2>2, <2>3, <2>4 DEF Handle
<1>8. \A c \in Calls : CheckRefresh(c) => Goal
  <2> SUFFICES ASSUME NEW c \in Calls, CheckRefresh(c) PROVE Goal
    OBVIOUS
  <2>1. /\ handler'[c].step \in {"issuing", "refused"} /\ handler[c].step = "received"
        /\ \A g \in Handlers \ {c} : handler'[g] = handler[g]
        /\ UNCHANGED <<call, flight>>
    BY <1>a DEF CheckRefresh, Reach, Types
  <2> QED
    BY <1>2, <1>a, <2>1
<1>9. \A h \in Handlers : (Issue(h) => Goal) /\ (HandlerFails(h) => Goal)
  <2> SUFFICES ASSUME NEW h \in Handlers, Issue(h) \/ HandlerFails(h) PROVE Goal
    OBVIOUS
  <2>1. /\ handler'[h].step \in {"answered", "refused"}
        /\ handler[h].step \in {"received", "issuing"}
        /\ \A g \in Handlers \ {h} : handler'[g] = handler[g]
        /\ UNCHANGED <<call, flight>>
    BY DEF Issue, HandlerFails, Reach, Types
  <2> QED
    BY <1>2, <2>1
<1>10. \A t \in Tabs : Refreshed(t) => Goal
  <2> SUFFICES ASSUME NEW t \in Tabs, Refreshed(t) PROVE Goal
    OBVIOUS
  <2>1. /\ flight[t] # None /\ Settle(t, handler[flight[t]].given)
        /\ handler[flight[t]].given \in 0..minted
        /\ \A g \in Handlers \ {flight[t]} : handler'[g] = handler[g]
    BY <1>a DEF Refreshed, Reach, Types
  <2> QED
    BY <1>5, <2>1
<1>11. \A t \in Tabs : RefreshRefused(t) \/ RefreshLost(t) => Goal
  BY <1>5, Numbers DEF RefreshRefused, RefreshLost
<1>12. \A l \in Logins : (Login(l) => Goal) /\ (TakeLogin(l) => Goal)
  <2> SUFFICES ASSUME NEW l \in Logins, Login(l) \/ TakeLogin(l) PROVE Goal
    OBVIOUS
  <2>1. UNCHANGED <<call, flight>> /\ \A g \in Handlers \ {l} : handler'[g] = handler[g]
    BY DEF Login, TakeLogin, Reach, Types
  <2> QED
    BY <1>3, <2>1
<1>13. \A to \in {"open", "banned", "deleted"} : SetAccount(to) => Goal
  BY <1>4 DEF SetAccount
<1>14. \A pair \in 1..minted : ExpireToken(pair) => Goal
  BY <1>4 DEF ExpireToken
<1>15. /\ AdmitLogout => Goal
       /\ Logout => Goal
       /\ Lapse => Goal
       /\ SignOut => Goal
       /\ UNCHANGED vars => Goal
  BY <1>4 DEF AdmitLogout, Logout, Lapse, SignOut, vars
<1> HIDE DEF Goal
<1>16. Goal
  BY <1>6, <1>7, <1>8, <1>9, <1>10, <1>11, <1>12, <1>13, <1>14, <1>15, NextCases
<1> QED
  BY <1>16 DEF Goal

(* A waiting call is never left without a refresh that will settle it. *)
THEOREM NobodyStranded == Spec => []NoneStranded
<1>1. Init => FlightRuns /\ WaitersAwait
  BY DEF Init, FlightRuns, WaitersAwait
<1>2. SafeInv /\ FlightRuns /\ WaitersAwait /\ [Next]_vars => (FlightRuns /\ WaitersAwait)'
  BY StrandedStep DEF SafeInv
<1>3. SafeInv /\ FlightRuns /\ WaitersAwait => NoneStranded
  BY SessionAssumption DEF SafeInv, Types, FlightRuns, WaitersAwait, Runs, NoneStranded
<1> QED
  BY <1>1, <1>2, <1>3, SessionInvariant, PTL DEF Spec

-----------------------------------------------------------------------------
(* What one tab is enough for: localStorage holds a pair that no call has
   shown, or the pair that the tab's refresh in flight shows. *)
SingleTab == \A c, d \in Calls : TabOf[c] = TabOf[d]

ShownOnce ==
    \A c, d \in Calls :
        c # d /\ handler[c].shown # 0 => handler[c].shown # handler[d].shown

SessionUnspent ==
    \A c \in Calls : session # 0 /\ handler[c].shown = session => flight[TabOf[c]] = c

(* A pair on its way to the browser is nowhere else. *)
Fresh(h) ==
    /\ handler[h].given \notin {0, session}
    /\ \A c \in Calls : handler[c].shown # handler[h].given
    /\ \A g \in Handlers \ {h} :
         handler[g].step = "answered" => handler[g].given # handler[h].given
AnswersFresh == \A h \in Handlers : handler[h].step = "answered" => Fresh(h)

RetiredShown ==
    \A p \in retired : \E c \in Calls :
        handler[c].shown = p /\ handler[c].step \in {"answered", "done"}

LoginsShowNothing == \A l \in Logins : handler[l].shown = 0

SingleTabInv ==
    ShownOnce /\ SessionUnspent /\ AnswersFresh /\ RetiredShown /\ LoginsShowNothing

(* A handler that moves on without issuing disturbs none of it. *)
LEMMA StepAside ==
    ASSUME Types, SingleTabInv, NEW h \in Handlers,
           handler[h].step \notin {"answered", "done"}, NEW step \in HandlerSteps \ {"answered"},
           Reach(h, step), UNCHANGED <<session, flight, retired>>
    PROVE  SingleTabInv'
<1>1. /\ \A g \in Handlers : handler'[g].shown = handler[g].shown
                             /\ handler'[g].given = handler[g].given
      /\ \A g \in Handlers \ {h} : handler'[g].step = handler[g].step
      /\ handler'[h].step = step
  BY DEF Reach, Types
<1>2. ShownOnce' /\ SessionUnspent' /\ LoginsShowNothing'
  BY <1>1 DEF SingleTabInv, ShownOnce, SessionUnspent, LoginsShowNothing, Handlers
<1>3. AnswersFresh'
  BY <1>1 DEF SingleTabInv, AnswersFresh, Fresh, Handlers
<1>4. RetiredShown'
  BY <1>1 DEF SingleTabInv, RetiredShown, Handlers
<1> QED
  BY <1>2, <1>3, <1>4 DEF SingleTabInv

(* Nor does the end of a handler that was answered, whether the browser keeps
   the pair it was given, its own, or none. *)
LEMMA Delivered ==
    ASSUME Types, SingleTabInv, NEW h \in Handlers, handler[h].step = "answered",
           Reach(h, "done"), UNCHANGED retired,
           \/ session' = handler[h].given
           \/ session' = session /\ UNCHANGED flight
    PROVE  SingleTabInv'
<1>1. /\ \A g \in Handlers : handler'[g].shown = handler[g].shown
                             /\ handler'[g].given = handler[g].given
      /\ \A g \in Handlers \ {h} : handler'[g].step = handler[g].step
      /\ handler'[h].step = "done"
  BY DEF Reach, Types, HandlerSteps
<1>2. Fresh(h)
  BY DEF SingleTabInv, AnswersFresh
<1>3. ShownOnce' /\ LoginsShowNothing'
  BY <1>1 DEF SingleTabInv, ShownOnce, LoginsShowNothing, Handlers
<1>4. SessionUnspent'
  BY <1>1, <1>2 DEF SingleTabInv, SessionUnspent, Fresh, Handlers
<1>5. AnswersFresh'
  <2> SUFFICES ASSUME NEW g \in Handlers, handler'[g].step = "answered" PROVE Fresh(g)'
    BY DEF AnswersFresh
  <2>1. g # h /\ handler[g].step = "answered" /\ Fresh(g)
    BY <1>1 DEF SingleTabInv, AnswersFresh
  <2> QED
    BY <1>1, <2>1 DEF Fresh, Handlers
<1>6. RetiredShown'
  BY <1>1 DEF SingleTabInv, RetiredShown, Handlers
<1> QED
  BY <1>3, <1>4, <1>5, <1>6 DEF SingleTabInv

LEMMA Emptied ==
    ASSUME SingleTabInv, session' = 0, UNCHANGED <<handler, retired>>
    PROVE  SingleTabInv'
BY DEF SingleTabInv, ShownOnce, SessionUnspent, AnswersFresh, Fresh, RetiredShown,
       LoginsShowNothing

LEMMA Untouched ==
    ASSUME SingleTabInv, UNCHANGED <<handler, session, flight, retired>>
    PROVE  SingleTabInv'
BY DEF SingleTabInv, ShownOnce, SessionUnspent, AnswersFresh, Fresh, RetiredShown,
       LoginsShowNothing

(* The refresh starts with a pair that no call of the only tab has shown. *)
LEMMA Started ==
    ASSUME SingleTab, Types, Unstarted, SingleTabInv,
           NEW c \in Calls, call[c].step = "unauthorized", session # 0,
           flight[TabOf[c]] = None, Await(c, TRUE)
    PROVE  SingleTabInv'
<1>1. /\ c \in Handlers /\ handler[c].step = "idle"
      /\ TabOf[c] \in Tabs
  BY SessionAssumption DEF Unstarted, Handlers
<1>2. /\ handler' = [handler EXCEPT ![c].step = "received", ![c].shown = session]
      /\ flight' = [flight EXCEPT ![TabOf[c]] = c]
      /\ UNCHANGED <<session, retired>>
  BY DEF Await, server
<1>3. /\ handler'[c].step = "received" /\ handler'[c].shown = session
      /\ \A g \in Handlers \ {c} : handler'[g] = handler[g]
      /\ flight'[TabOf[c]] = c
  BY <1>1, <1>2 DEF Types
<1>4. \A d \in Calls : handler[d].shown # session
  BY SessionAssumption DEF SingleTab, SingleTabInv, SessionUnspent
<1>5. ShownOnce'
  BY <1>3, <1>4 DEF SingleTabInv, ShownOnce, Handlers
<1>6. SessionUnspent'
  BY <1>2, <1>3, <1>4 DEF SingleTabInv, SessionUnspent, Handlers
<1>7. AnswersFresh'
  <2> SUFFICES ASSUME NEW g \in Handlers, handler'[g].step = "answered" PROVE Fresh(g)'
    BY DEF AnswersFresh
  <2>1. g # c /\ handler'[g] = handler[g] /\ Fresh(g)
    BY <1>3 DEF SingleTabInv, AnswersFresh
  <2>2. handler'[g].given \notin {0, session'}
    BY <1>2, <2>1 DEF Fresh
  <2>3. ASSUME NEW d \in Calls PROVE handler'[d].shown # handler'[g].given
    <3>1. CASE d = c
      BY <1>3, <2>1, <3>1 DEF Fresh
    <3>2. CASE d # c
      BY <1>3, <2>1, <3>2 DEF Fresh, Handlers
    <3> QED
      BY <3>1, <3>2
  <2>4. ASSUME NEW f \in Handlers \ {g}, handler'[f].step = "answered"
        PROVE  handler'[f].given # handler'[g].given
    <3>1. f # c
      BY <1>3, <2>4
    <3> QED
      BY <1>3, <2>1, <2>4, <3>1 DEF Fresh
  <2> QED
    BY <2>2, <2>3, <2>4 DEF Fresh
<1>8. RetiredShown'
  <2> SUFFICES ASSUME NEW p \in retired
               PROVE  \E d \in Calls : /\ handler'[d].shown = p
                                       /\ handler'[d].step \in {"answered", "done"}
    BY <1>2 DEF RetiredShown
  <2>1. PICK d \in Calls : handler[d].shown = p /\ handler[d].step \in {"answered", "done"}
    BY DEF SingleTabInv, RetiredShown
  <2>2. d # c
    BY <1>1, <2>1
  <2> QED
    BY <1>3, <2>1, <2>2 DEF Handlers
<1>9. LoginsShowNothing'
  BY <1>3, SessionAssumption DEF SingleTabInv, LoginsShowNothing, Handlers
<1> QED
  BY <1>5, <1>6, <1>7, <1>8, <1>9 DEF SingleTabInv

LEMMA IssuedFresh ==
    ASSUME Types, SingleTabInv, NEW h \in Handlers, Issued(h), UNCHANGED <<session, flight>>
    PROVE  SingleTabInv'
<1>1. /\ handler'[h].step = "answered" /\ handler'[h].given = minted + 1
      /\ handler'[h].shown = handler[h].shown
      /\ \A g \in Handlers \ {h} : handler'[g] = handler[g]
  BY DEF Issued, Types
<1>2. /\ minted + 1 \notin {0, session}
      /\ \A g \in Handlers : handler[g].shown # minted + 1 /\ handler[g].given # minted + 1
  BY Numbers DEF Types
<1>3. ShownOnce' /\ SessionUnspent' /\ LoginsShowNothing'
  BY <1>1 DEF SingleTabInv, ShownOnce, SessionUnspent, LoginsShowNothing, Handlers
<1>4. AnswersFresh'
  <2>1. Fresh(h)'
    BY <1>1, <1>2 DEF Fresh, Handlers
  <2>2. ASSUME NEW g \in Handlers \ {h}, handler'[g].step = "answered" PROVE Fresh(g)'
    <3>1. Fresh(g)
      BY <1>1, <2>2 DEF SingleTabInv, AnswersFresh
    <3> QED
      BY <1>1, <1>2, <2>2, <3>1 DEF Fresh, Handlers
  <2> QED
    BY <2>1, <2>2 DEF AnswersFresh
<1>5. RetiredShown'
  <2> SUFFICES ASSUME NEW p \in retired'
               PROVE  \E d \in Calls : /\ handler'[d].shown = p
                                       /\ handler'[d].step \in {"answered", "done"}
    BY DEF RetiredShown
  <2>1. CASE p \in retired
    <3>1. PICK d \in Calls : handler[d].shown = p /\ handler[d].step \in {"answered", "done"}
      BY <2>1 DEF SingleTabInv, RetiredShown
    <3> QED
      BY <1>1, <3>1 DEF Handlers
  <2>2. CASE p \notin retired
    <3>1. p = handler[h].shown /\ p # 0
      BY <2>2 DEF Issued
    <3>2. h \in Calls
      BY <3>1 DEF SingleTabInv, LoginsShowNothing, Handlers
    <3> QED
      BY <1>1, <3>1, <3>2
  <2> QED
    BY <2>1, <2>2
<1> QED
  BY <1>3, <1>4, <1>5 DEF SingleTabInv

LEMMA SingleTabStep ==
    ASSUME SingleTab, Types, Unstarted, SingleTabInv, [Next]_vars
    PROVE  SingleTabInv'
<1>1. \A c \in Calls : Send(c) \/ Serve(c) \/ Lose(c) => SingleTabInv'
  BY Untouched DEF Send, Serve, Lose, server
<1>2. \A c \in Calls : Handle(c) => SingleTabInv'
  <2> SUFFICES ASSUME NEW c \in Calls, Handle(c) PROVE SingleTabInv'
    OBVIOUS
  <2>1. CASE GiveUp(c) \/ Await(c, FALSE)
    BY <2>1, Untouched DEF GiveUp, Await, server
  <2>2. CASE Await(c, TRUE)
    BY <2>2, Started, Untouched DEF Handle, Await, GiveUp, server
  <2> QED
    BY <2>1, <2>2 DEF Handle
<1>3. \A c \in Calls : CheckRefresh(c) => SingleTabInv'
  BY StepAside DEF CheckRefresh, server, Handlers, HandlerSteps
<1>4. \A h \in Handlers : Issue(h) => SingleTabInv'
  BY StepAside, IssuedFresh DEF Issue, Issued, HandlerSteps
<1>5. \A h \in Handlers : HandlerFails(h) => SingleTabInv'
  BY StepAside DEF HandlerFails, server, HandlerSteps
<1>6. \A t \in Tabs : Refreshed(t) => SingleTabInv'
  <2> SUFFICES ASSUME NEW t \in Tabs, Refreshed(t) PROVE SingleTabInv'
    OBVIOUS
  <2>1. /\ flight[t] \in Handlers /\ handler[flight[t]].step = "answered"
        /\ Reach(flight[t], "done") /\ UNCHANGED retired
        /\ session' = handler[flight[t]].given
    BY DEF Refreshed, Settle, server, Types, Handlers
  <2> QED
    BY <2>1, Delivered
<1>7. \A t \in Tabs : RefreshRefused(t) \/ RefreshLost(t) => SingleTabInv'
  BY Emptied DEF RefreshRefused, RefreshLost, Settle, server
<1>8. \A l \in Logins : Login(l) => SingleTabInv'
  BY StepAside DEF Login, server, Handlers, HandlerSteps
<1>9. \A l \in Logins : TakeLogin(l) => SingleTabInv'
  BY Delivered DEF TakeLogin, server, Handlers
<1>10. \A to \in {"open", "banned", "deleted"} : SetAccount(to) => SingleTabInv'
  BY Untouched DEF SetAccount
<1>11. \A pair \in 1..minted : ExpireToken(pair) => SingleTabInv'
  BY Untouched DEF ExpireToken
<1>12. /\ AdmitLogout \/ Logout \/ Lapse \/ UNCHANGED vars => SingleTabInv'
       /\ SignOut => SingleTabInv'
  BY Untouched, Emptied DEF AdmitLogout, Logout, Lapse, SignOut, vars, server
<1> QED
  BY <1>1, <1>2, <1>3, <1>4, <1>5, <1>6, <1>7, <1>8, <1>9, <1>10, <1>11, <1>12, NextCases

(* In a browser with one tab no secret is exchanged twice: the tab never shows
   a pair that one of its calls has shown before. *)
THEOREM SingleTabExchangesOnce ==
    ASSUME SingleTab
    PROVE  Spec => ExchangedOnce
<1>1. Init => SingleTabInv
  BY SessionAssumption DEF Init, SingleTabInv, ShownOnce, SessionUnspent, AnswersFresh,
     RetiredShown, LoginsShowNothing, Handlers
<1>2. SafeInv /\ SingleTabInv /\ [Next]_vars => SingleTabInv'
  BY SingleTabStep DEF SafeInv
<1>3. ASSUME SafeInv, SingleTabInv, NEW c \in Calls, handler[c].step = "issuing"
      PROVE  handler[c].shown \notin retired
  <2> SUFFICES ASSUME handler[c].shown \in retired PROVE FALSE
    OBVIOUS
  <2>1. PICK d \in Calls : /\ handler[d].shown = handler[c].shown
                           /\ handler[d].step \in {"answered", "done"}
    BY <1>3 DEF SingleTabInv, RetiredShown
  <2>2. c # d /\ handler[c].shown # 0
    BY <1>3, <2>1 DEF SafeInv, Types
  <2> QED
    BY <1>3, <2>1, <2>2 DEF SingleTabInv, ShownOnce
<1>4. SafeInv /\ SingleTabInv
        => \A c \in Calls : handler[c].step = "issuing" /\ handler'[c].step = "answered"
                              => handler[c].shown \notin retired
  BY <1>3
<1> QED
  BY <1>1, <1>2, <1>4, SessionInvariant, PTL DEF Spec, ExchangedOnce
=============================================================================
