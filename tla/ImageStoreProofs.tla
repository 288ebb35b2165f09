-------------------------- MODULE ImageStoreProofs ---------------------------
(***************************************************************************)
(* Proofs about ImageStore, for any number of owners and requests.  Keys   *)
(* are told apart by the history of those made: while an owner's uploads   *)
(* fell into different milliseconds, the key a request made is its own.    *)
(***************************************************************************)
EXTENDS ImageStore, TLAPS

(* Types, and what a request knows of its keys. *)
Known(o) == {k \in made : k.owner = o} \cup {NoKey}

Types ==
    /\ exists \subseteq Owners
    /\ imageKey \in [Owners -> Keys \cup {NoKey}]
    /\ \A o \in Owners : imageKey[o] \in Known(o) /\ (imageKey[o] # NoKey => o \in exists)
    /\ objects \subseteq made /\ made \subseteq Keys /\ lost \subseteq made
    /\ now \in 0..MaxTime
    /\ request \in [Requests -> Live \cup {Idle}]
    /\ collided \subseteq Owners /\ broken \subseteq Owners

Holds(r) ==
    LET q == request[r]
    IN  /\ q.old \in Known(q.owner) /\ q.new \in Known(q.owner)
        /\ q.step = "put" => q.new # NoKey
        /\ q.step = "drop" => q.old # NoKey
Requested == \A r \in Requests : Busy(r) => Holds(r)

(* The key a request made is in no row yet and in no other request. *)
Own(r) ==
    LET q == request[r]
    IN  q.new # NoKey /\ q.owner \notin collided =>
            /\ imageKey[q.owner] # q.new
            /\ \A p \in Requests : Busy(p) => /\ request[p].old # q.new
                                              /\ p # r => request[p].new # q.new
OwnKeys == \A r \in Requests : Busy(r) => Own(r)

(* Where the objects of a request's keys are at each of its steps. *)
Placed(r) ==
    LET q == request[r]
    IN  q.owner \notin collided =>
            /\ q.step = "put" => q.new \notin objects
            /\ q.step \in {"drop", "write"} /\ q.new # NoKey => q.new \in objects
            /\ q.step = "write" /\ q.old # NoKey => q.old \notin objects
            /\ q.step \in {"put", "drop"} /\ q.old # NoKey =>
                   imageKey[q.owner] = q.old \/ q.old \notin objects \/ q.old \in lost
PlacedKeys == \A r \in Requests : Busy(r) => Placed(r)

IInv == Types /\ Requested /\ OwnKeys /\ PlacedKeys /\ MissingOnlyInPassing /\ ObjectsAccountedFor

-----------------------------------------------------------------------------
(* What a step does to the requests: one moves on, begins or ends. *)
Others(r) == \A p \in Requests \ {r} : request'[p] = request[p]

LEMMA Stepping ==
    ASSUME Types, NEW r \in Requests, request[r].step \in {"put", "drop", "write"}
    PROVE  Busy(r) /\ request[r] \in Live
BY DEF Types, Busy, Idle, Live

LEMMA Advances ==
    ASSUME Types, NEW r \in Requests, Busy(r), NEW s \in {"put", "drop", "write"},
           request' = [request EXCEPT ![r].step = s]
    PROVE  /\ request' \in [Requests -> Live \cup {Idle}]
           /\ request'[r].step = s /\ request'[r].owner = request[r].owner
           /\ request'[r].old = request[r].old /\ request'[r].new = request[r].new
           /\ Others(r) /\ \A p \in Requests : (Busy(p)' <=> Busy(p))
<1>1. request[r] \in Live
  BY DEF Types, Busy
<1>2. /\ request'[r] = [request[r] EXCEPT !.step = s]
      /\ Others(r)
  BY DEF Types, Others
<1>3. /\ request'[r] \in Live /\ request'[r].step = s /\ request'[r].owner = request[r].owner
      /\ request'[r].old = request[r].old /\ request'[r].new = request[r].new
  BY <1>1, <1>2 DEF Live
<1>4. Busy(r)'
  BY <1>3 DEF Busy, Idle, Live
<1>5. \A p \in Requests \ {r} : (Busy(p)' <=> Busy(p))
  BY <1>2 DEF Others, Busy
<1>6. request' \in [Requests -> Live \cup {Idle}]
  BY <1>2, <1>3 DEF Types, Others
<1>7. \A p \in Requests : (Busy(p)' <=> Busy(p))
  BY <1>4, <1>5
<1> QED
  BY <1>2, <1>3, <1>6, <1>7

LEMMA Begins ==
    ASSUME Types, NEW r \in Requests, NEW q \in Live, request' = [request EXCEPT ![r] = q]
    PROVE  /\ request' \in [Requests -> Live \cup {Idle}]
           /\ request'[r] = q /\ Others(r) /\ Busy(r)'
           /\ \A p \in Requests \ {r} : (Busy(p)' <=> Busy(p))
<1>1. request'[r] = q /\ Others(r) /\ request' \in [Requests -> Live \cup {Idle}]
  BY DEF Types, Others
<1>2. Busy(r)'
  BY <1>1 DEF Busy, Idle, Live
<1>3. \A p \in Requests \ {r} : (Busy(p)' <=> Busy(p))
  BY <1>1 DEF Others, Busy
<1> QED
  BY <1>1, <1>2, <1>3

LEMMA Ends ==
    ASSUME Types, NEW r \in Requests, request' = [request EXCEPT ![r] = Idle]
    PROVE  /\ request' \in [Requests -> Live \cup {Idle}]
           /\ Others(r) /\ ~Busy(r)'
           /\ \A p \in Requests \ {r} : (Busy(p)' <=> Busy(p))
BY DEF Types, Others, Busy

-----------------------------------------------------------------------------
LEMMA PutStep ==
    ASSUME IInv, NEW r \in Requests, Put(r)
    PROVE  IInv'
<1> DEFINE o == request[r].owner
           k == request[r].new
<1>1. /\ Busy(r) /\ request[r] \in Live /\ request[r].step = "put"
      /\ o \in Owners /\ k \in made /\ k.owner = o /\ k # NoKey
      /\ objects' = objects \cup {k}
      /\ UNCHANGED <<exists, imageKey, now, history>>
  BY Stepping DEF IInv, Put, Requested, Holds, Known, Live
<1>2. PICK s \in {"drop", "write"} :
          /\ request' = [request EXCEPT ![r].step = s]
          /\ s = IF request[r].old = NoKey THEN "write" ELSE "drop"
  BY DEF Put
<1>3. /\ request' \in [Requests -> Live \cup {Idle}]
      /\ request'[r].step = s /\ request'[r].owner = o
      /\ request'[r].old = request[r].old /\ request'[r].new = k
      /\ Others(r) /\ \A p \in Requests : (Busy(p)' <=> Busy(p))
  BY <1>1, <1>2, Advances DEF IInv
<1> HIDE DEF o, k
<1>4. Types'
  BY <1>1, <1>3 DEF IInv, Types, Known, history
<1>5. Requested'
  BY <1>1, <1>2, <1>3 DEF IInv, Requested, Holds, Known, Others, history, k, o
<1>6. OwnKeys'
  BY <1>1, <1>3 DEF IInv, OwnKeys, Own, Others, history, k, o
<1>7. PlacedKeys'
  <2> SUFFICES ASSUME NEW p \in Requests, Busy(p) PROVE Placed(p)'
    BY <1>3 DEF PlacedKeys
  <2>1. CASE p = r
    BY <1>1, <1>2, <1>3, <2>1 DEF IInv, PlacedKeys, Placed, OwnKeys, Own, history, k, o
  <2>2. CASE p # r
    <3>1. request'[p] = request[p] /\ Placed(p) /\ Holds(p)
      BY <1>3, <2>2 DEF Others, IInv, PlacedKeys, Requested
    <3>2. request[p].owner \notin collided => request[p].new # k /\ request[p].old # k
      <4>1. o \notin collided => request[p].new # k /\ request[p].old # k
        BY <1>1, <2>2 DEF IInv, OwnKeys, Own, k, o
      <4>2. request[p].owner # o => request[p].new # k /\ request[p].old # k
        BY <1>1, <3>1 DEF Holds, Known
      <4> QED
        BY <4>1, <4>2
    <3> QED
      BY <1>1, <3>1, <3>2 DEF Placed, history
  <2> QED
    BY <2>1, <2>2
<1>8. MissingOnlyInPassing'
  BY <1>1, <1>3 DEF IInv, MissingOnlyInPassing, GetImage, Others, history
<1>9. ObjectsAccountedFor'
  BY <1>1, <1>3 DEF IInv, ObjectsAccountedFor, Others, history, k
<1> QED
  BY <1>4, <1>5, <1>6, <1>7, <1>8, <1>9 DEF IInv

(* A request begins with the row's key, and an upload with one of its own. *)
LEMMA UploadStep ==
    ASSUME IInv, NEW r \in Requests, NEW o \in Owners, Upload(r, o)
    PROVE  IInv'
<1> DEFINE k == [owner |-> o, at |-> now]
           q == [step |-> "put", owner |-> o, old |-> imageKey[o], new |-> k]
<1>1. /\ ~Busy(r) /\ o \in exists
      /\ request' = [request EXCEPT ![r] = q]
      /\ made' = made \cup {k}
      /\ collided' = IF k \in made THEN collided \cup {o} ELSE collided
      /\ UNCHANGED <<exists, imageKey, objects, now, broken, lost>>
  BY DEF Upload
<1>2. /\ k \in Keys /\ k.owner = o /\ k # NoKey
      /\ imageKey[o] \in Known(o) /\ imageKey[o] \in Keys \cup {NoKey}
  BY ImageAssumption DEF IInv, Types, Keys
<1>3. q \in Live /\ q.step = "put" /\ q.owner = o /\ q.old = imageKey[o] /\ q.new = k
  BY <1>2 DEF Live
<1> HIDE DEF k, q
<1>4. /\ request' \in [Requests -> Live \cup {Idle}]
      /\ request'[r] = q /\ Others(r) /\ Busy(r)'
      /\ \A p \in Requests \ {r} : (Busy(p)' <=> Busy(p))
  BY <1>1, <1>3, Begins DEF IInv
<1>5. Types'
  <2>1. \A x \in Owners : Known(x) \subseteq Known(x)'
    BY <1>1 DEF Known
  <2>2. made' \subseteq Keys /\ objects' \subseteq made' /\ lost' \subseteq made' /\ collided' \subseteq Owners
    BY <1>1, <1>2 DEF IInv, Types
  <2>3. \A x \in Owners : imageKey'[x] \in Known(x)' /\ (imageKey'[x] # NoKey => x \in exists')
    BY <1>1, <2>1 DEF IInv, Types
  <2> QED
    BY <1>1, <1>4, <2>2, <2>3 DEF IInv, Types
<1>6. Requested'
  BY <1>1, <1>2, <1>3, <1>4 DEF IInv, Requested, Holds, Known, Others
<1>7. OwnKeys'
  <2> SUFFICES ASSUME NEW p \in Requests, Busy(p)' PROVE Own(p)'
    BY DEF OwnKeys
  <2>1. ASSUME NEW x \in Requests \ {r}, Busy(x), k \notin made
        PROVE  request[x].old # k /\ request[x].new # k
    BY <1>2, <2>1 DEF IInv, Requested, Holds, Known
  <2>2. CASE p = r
    <3>1. ASSUME o \notin collided' PROVE k \notin made /\ imageKey[o] # k
      BY <1>1, <1>2, <3>1 DEF Known
    <3> QED
      BY <1>1, <1>3, <1>4, <2>1, <2>2, <3>1 DEF Own, Others
  <2>3. CASE p # r
    <3>1. /\ Busy(p) /\ Own(p) /\ Holds(p) /\ request'[p] = request[p]
      BY <1>4, <2>3 DEF Others, IInv, OwnKeys, Requested
    <3>2. ASSUME request[p].new # NoKey, request[p].owner \notin collided'
          PROVE  request[p].new # k /\ request[p].new # imageKey[o]
      <4>1. request[p].new \in made /\ request[p].new.owner = request[p].owner
        BY <3>1, <3>2 DEF Holds, Known
      <4>2. request[p].owner \notin collided
        BY <1>1, <3>2
      <4>3. request[p].new # k
        BY <1>1, <1>2, <3>2, <4>1
      <4>4. request[p].new # imageKey[o]
        BY <1>2, <3>1, <3>2, <4>1, <4>2 DEF Own, Known
      <4> QED
        BY <4>3, <4>4
    <3>3. request[p].owner \notin collided' => request[p].owner \notin collided
      BY <1>1
    <3> QED
      BY <1>1, <1>3, <1>4, <3>1, <3>2, <3>3 DEF Own, Others
  <2> QED
    BY <2>2, <2>3
<1>8. PlacedKeys'
  <2> SUFFICES ASSUME NEW p \in Requests, Busy(p)' PROVE Placed(p)'
    BY DEF PlacedKeys
  <2>1. CASE p = r
    <3>1. o \notin collided' => k \notin objects
      BY <1>1 DEF IInv, Types
    <3> QED
      BY <1>1, <1>3, <1>4, <2>1, <3>1 DEF Placed
  <2>2. CASE p # r
    <3>1. Placed(p) /\ request'[p] = request[p]
      BY <1>4, <2>2 DEF Others, IInv, PlacedKeys
    <3>2. request[p].owner \notin collided' => request[p].owner \notin collided
      BY <1>1
    <3> QED
      BY <1>1, <3>1, <3>2 DEF Placed
  <2> QED
    BY <2>1, <2>2
<1>9. \A p \in Requests : Busy(p) => p # r /\ request'[p] = request[p] /\ Busy(p)'
  BY <1>1, <1>4 DEF Others
<1>10. MissingOnlyInPassing'
  <2> SUFFICES ASSUME NEW x \in Owners, GetImage(x)' = "missing", x \notin (broken \cup collided)'
               PROVE  \E p \in Requests : request'[p].step = "write" /\ request'[p].old = imageKey'[x]
    BY DEF MissingOnlyInPassing
  <2>1. GetImage(x) = "missing" /\ x \notin broken \cup collided
    BY <1>1 DEF GetImage
  <2>2. PICK p \in Requests : request[p].step = "write" /\ request[p].old = imageKey[x]
    BY <2>1 DEF IInv, MissingOnlyInPassing
  <2> QED
    BY <1>1, <1>9, <2>2, Stepping DEF IInv
<1>11. ObjectsAccountedFor'
  <2> SUFFICES ASSUME NEW x \in objects' \ lost', x.owner \notin collided', imageKey'[x.owner] # x
               PROVE  \E p \in Requests : Busy(p)' /\ x \in {request'[p].old, request'[p].new}
    BY DEF ObjectsAccountedFor
  <2>1. PICK p \in Requests : Busy(p) /\ x \in {request[p].old, request[p].new}
    BY <1>1 DEF IInv, ObjectsAccountedFor
  <2> QED
    BY <1>9, <2>1
<1> QED
  BY <1>5, <1>6, <1>7, <1>8, <1>10, <1>11 DEF IInv

LEMMA RemoveImageStep ==
    ASSUME IInv, NEW r \in Requests, NEW o \in Owners, RemoveImage(r, o)
    PROVE  IInv'
<1> DEFINE q == [step |-> "drop", owner |-> o, old |-> imageKey[o], new |-> NoKey]
<1>1. /\ ~Busy(r) /\ o \in exists /\ imageKey[o] # NoKey
      /\ request' = [request EXCEPT ![r] = q]
      /\ UNCHANGED <<exists, imageKey, objects, now, history>>
  BY DEF RemoveImage
<1>2. imageKey[o] \in Known(o) /\ imageKey[o] \in Keys \cup {NoKey}
  BY DEF IInv, Types
<1>3. q \in Live /\ q.step = "drop" /\ q.owner = o /\ q.old = imageKey[o] /\ q.new = NoKey
  BY <1>2 DEF Live
<1> HIDE DEF q
<1>4. /\ request' \in [Requests -> Live \cup {Idle}]
      /\ request'[r] = q /\ Others(r) /\ Busy(r)'
      /\ \A p \in Requests \ {r} : (Busy(p)' <=> Busy(p))
  BY <1>1, <1>3, Begins DEF IInv
<1>5. Types'
  BY <1>1, <1>4 DEF IInv, Types, Known, history
<1>6. Requested'
  BY <1>1, <1>2, <1>3, <1>4 DEF IInv, Requested, Holds, Known, Others, history
<1>7. OwnKeys'
  <2> SUFFICES ASSUME NEW p \in Requests, Busy(p)', p # r PROVE Own(p)'
    BY <1>3, <1>4 DEF OwnKeys, Own
  <2>1. Busy(p) /\ Own(p) /\ Holds(p) /\ request'[p] = request[p]
    BY <1>4 DEF Others, IInv, OwnKeys, Requested
  <2>2. ASSUME request[p].new # NoKey, request[p].owner \notin collided
        PROVE  request[p].new # imageKey[o]
    BY <1>1, <1>2, <2>1, <2>2 DEF Own, Known, Holds
  <2> QED
    BY <1>1, <1>3, <1>4, <2>1, <2>2 DEF Own, Others, history
<1>8. PlacedKeys'
  BY <1>1, <1>3, <1>4 DEF IInv, PlacedKeys, Placed, Others, history
<1>9. \A p \in Requests : Busy(p) => p # r /\ request'[p] = request[p] /\ Busy(p)'
  BY <1>1, <1>4 DEF Others
<1>10. MissingOnlyInPassing'
  <2> SUFFICES ASSUME NEW x \in Owners, GetImage(x) = "missing", x \notin (broken \cup collided)
               PROVE  \E p \in Requests : request'[p].step = "write" /\ request'[p].old = imageKey[x]
    BY <1>1 DEF MissingOnlyInPassing, GetImage, history
  <2>1. PICK p \in Requests : request[p].step = "write" /\ request[p].old = imageKey[x]
    BY DEF IInv, MissingOnlyInPassing
  <2> QED
    BY <1>9, <2>1, Stepping DEF IInv
<1>11. ObjectsAccountedFor'
  BY <1>1, <1>9 DEF IInv, ObjectsAccountedFor, history
<1> QED
  BY <1>5, <1>6, <1>7, <1>8, <1>10, <1>11 DEF IInv

(* Removing the old object leaves the request's own. *)
LEMMA DropStep ==
    ASSUME IInv, NEW r \in Requests, Drop(r)
    PROVE  IInv'
<1> DEFINE o == request[r].owner
           k == request[r].old
<1>1. /\ Busy(r) /\ request[r] \in Live /\ request[r].step = "drop"
      /\ o \in Owners /\ k \in made /\ k.owner = o /\ k # NoKey
      /\ request' = [request EXCEPT ![r].step = "write"]
      /\ objects' = objects \ {k}
      /\ UNCHANGED <<exists, imageKey, now, history>>
  BY Stepping DEF IInv, Drop, Requested, Holds, Known, Live
<1>2. /\ request' \in [Requests -> Live \cup {Idle}]
      /\ request'[r].step = "write" /\ request'[r].owner = o
      /\ request'[r].old = k /\ request'[r].new = request[r].new
      /\ Others(r) /\ \A p \in Requests : (Busy(p)' <=> Busy(p))
  BY <1>1, Advances DEF IInv
<1> HIDE DEF o, k
<1>3. Types'
  BY <1>1, <1>2 DEF IInv, Types, Known, history
<1>4. Requested'
  BY <1>1, <1>2 DEF IInv, Requested, Holds, Known, Others, history, k, o
<1>5. OwnKeys'
  BY <1>1, <1>2 DEF IInv, OwnKeys, Own, Others, history, k, o
<1>6. PlacedKeys'
  <2> SUFFICES ASSUME NEW p \in Requests, Busy(p) PROVE Placed(p)'
    BY <1>2 DEF PlacedKeys
  <2>1. /\ Placed(p) /\ Holds(p) /\ Own(p)
        /\ request'[p].owner = request[p].owner
        /\ request'[p].old = request[p].old /\ request'[p].new = request[p].new
    BY <1>2 DEF Others, IInv, PlacedKeys, Requested, OwnKeys, o, k
  <2>2. request[p].owner \notin collided /\ request[p].new # NoKey => request[p].new # k
    BY <1>1, <2>1 DEF Own, k
  <2>3. CASE p = r
    BY <1>1, <1>2, <2>1, <2>2, <2>3 DEF Placed, history
  <2>4. CASE p # r
    BY <1>1, <1>2, <2>1, <2>2, <2>4 DEF Placed, Others, history
  <2> QED
    BY <2>3, <2>4
<1>7. MissingOnlyInPassing'
  <2> SUFFICES ASSUME NEW x \in Owners, GetImage(x)' = "missing", x \notin (broken \cup collided)
               PROVE  \E p \in Requests : request'[p].step = "write" /\ request'[p].old = imageKey[x]
    BY <1>1 DEF MissingOnlyInPassing, history
  <2>1. CASE imageKey[x] = k
    BY <1>2, <2>1
  <2>2. CASE imageKey[x] # k
    <3>1. GetImage(x) = "missing"
      BY <1>1, <2>2 DEF GetImage
    <3>2. PICK p \in Requests : request[p].step = "write" /\ request[p].old = imageKey[x]
      BY <3>1 DEF IInv, MissingOnlyInPassing
    <3> QED
      BY <1>1, <1>2, <3>2 DEF Others
  <2> QED
    BY <2>1, <2>2
<1>8. ObjectsAccountedFor'
  <2>1. \A p \in Requests : request'[p].old = request[p].old /\ request'[p].new = request[p].new
    BY <1>2 DEF Others, k
  <2> QED
    BY <1>1, <1>2, <2>1 DEF IInv, ObjectsAccountedFor, history
<1> QED
  BY <1>3, <1>4, <1>5, <1>6, <1>7, <1>8 DEF IInv

(* A request that ends leaves the others, and the keys they know. *)
LEMMA Finishes ==
    ASSUME IInv, NEW r \in Requests, Busy(r), request' = [request EXCEPT ![r] = Idle], made' = made
    PROVE  /\ request' \in [Requests -> Live \cup {Idle}]
           /\ \A p \in Requests : Busy(p)' =>
                  p # r /\ request'[p] = request[p] /\ Busy(p) /\ Holds(p) /\ Own(p) /\ Placed(p)
           /\ \A p \in Requests \ {r} : Busy(p) => request'[p] = request[p] /\ Busy(p)'
           /\ Requested'
<1>1. /\ request' \in [Requests -> Live \cup {Idle}] /\ Others(r) /\ ~Busy(r)'
      /\ \A p \in Requests \ {r} : (Busy(p)' <=> Busy(p))
  BY Ends DEF IInv
<1>2. \A p \in Requests : Busy(p)' => Holds(p) /\ Own(p) /\ Placed(p)
  BY <1>1 DEF IInv, Requested, OwnKeys, PlacedKeys
<1>3. Requested'
  BY <1>1, <1>2 DEF Requested, Holds, Known, Others
<1> QED
  BY <1>1, <1>2, <1>3 DEF Others

(* What a request about to write, or to fail, knows of its keys. *)
LEMMA Ending ==
    ASSUME IInv, NEW r \in Requests, Busy(r)
    PROVE  /\ request[r] \in Live /\ request[r].owner \in Owners
           /\ request[r].step \in {"put", "drop", "write"}
           /\ \A k \in {request[r].old, request[r].new} :
                  k # NoKey => k \in made /\ k \in Keys /\ k.owner = request[r].owner
           /\ Placed(r)
<1>1. request[r] \in Live /\ Holds(r) /\ Placed(r)
  BY DEF IInv, Types, Requested, PlacedKeys, Busy
<1>2. made \subseteq Keys
  BY DEF IInv, Types
<1> QED
  BY <1>1, <1>2 DEF Holds, Known, Live

(* A row whose object is gone has a key of its own. *)
LEMMA MissingKey ==
    ASSUME IInv, NEW x \in Owners, GetImage(x) = "missing"
    PROVE  imageKey[x] # NoKey /\ imageKey[x].owner = x /\ x \in exists /\ imageKey[x] \notin objects
BY DEF IInv, Types, Known, GetImage

LEMMA WriteStep ==
    ASSUME IInv, NEW r \in Requests, Write(r)
    PROVE  IInv'
<1> DEFINE o == request[r].owner
           old == request[r].old
           new == request[r].new
<1>1. /\ Busy(r) /\ request[r].step = "write"
      /\ request' = [request EXCEPT ![r] = Idle]
      /\ UNCHANGED <<exists, objects, now, made, collided>>
  BY Stepping DEF IInv, Write
<1>2. /\ o \in Owners
      /\ \A k \in {old, new} : k # NoKey => k \in made /\ k \in Keys /\ k.owner = o
      /\ o \notin collided => /\ new # NoKey => new \in objects
                              /\ old # NoKey => old \notin objects
  BY <1>1, Ending DEF Placed
<1>3. /\ request' \in [Requests -> Live \cup {Idle}]
      /\ \A p \in Requests : Busy(p)' =>
             p # r /\ request'[p] = request[p] /\ Busy(p) /\ Holds(p) /\ Own(p) /\ Placed(p)
      /\ \A p \in Requests \ {r} : Busy(p) => request'[p] = request[p] /\ Busy(p)'
      /\ Requested'
  BY <1>1, Finishes
<1>4. /\ imageKey \in [Owners -> Keys \cup {NoKey}]
      /\ \A x \in Owners : imageKey[x] # NoKey =>
             imageKey[x] \in made /\ imageKey[x].owner = x /\ x \in exists
      /\ lost \subseteq made /\ objects \subseteq made /\ made \subseteq Keys
  BY DEF IInv, Types, Known
(* The write, with what it does to a row that is there and to one that is not. *)
<1>5. \/ /\ o \in exists
         /\ imageKey' = [imageKey EXCEPT ![o] = new]
         /\ lost' = lost \cup ({imageKey[o]} \ {NoKey, old, new})
         /\ broken' = broken \ {o}
      \/ /\ o \notin exists
         /\ lost' = lost \cup ({new} \ {NoKey})
         /\ UNCHANGED <<imageKey, broken>>
  BY DEF Write
<1> HIDE DEF o, old, new
<1>6. /\ imageKey' \in [Owners -> Keys \cup {NoKey}]
      /\ \A x \in Owners : x # o => imageKey'[x] = imageKey[x]
      /\ lost \subseteq lost' /\ lost' \subseteq made
      /\ imageKey'[o] = IF o \in exists THEN new ELSE imageKey[o]
      /\ imageKey[o] \in {NoKey, old, imageKey'[o]} \cup lost'
      /\ broken \subseteq broken' \cup {o} /\ broken' \subseteq broken
      /\ new # NoKey => imageKey'[o] = new \/ new \in lost'
  BY <1>2, <1>4, <1>5
<1>7. Types'
  <2>1. \A x \in Owners : imageKey'[x] \in Known(x)' /\ (imageKey'[x] # NoKey => x \in exists')
    BY <1>1, <1>2, <1>4, <1>6 DEF Known
  <2> QED
    BY <1>1, <1>3, <1>6, <2>1 DEF IInv, Types
<1>8. OwnKeys'
  <2> SUFFICES ASSUME NEW p \in Requests, Busy(p)', request'[p].new # NoKey,
                      request'[p].owner \notin collided'
               PROVE  Own(p)'
    BY DEF OwnKeys, Own
  <2>1. p # r /\ request'[p] = request[p] /\ Busy(p) /\ Own(p) /\ request[p].owner \in Owners
    BY <1>3, Ending
  <2>2. /\ imageKey[request[p].owner] # request[p].new
        /\ request[p].new # new
    BY <1>1, <2>1 DEF Own, new
  <2>3. imageKey'[request[p].owner] # request[p].new
    BY <1>6, <2>1, <2>2
  <2>4. \A q \in Requests : Busy(q)' => /\ request'[q].old # request[p].new
                                        /\ q # p => request'[q].new # request[p].new
    BY <1>1, <1>3, <2>1 DEF Own
  <2> QED
    BY <2>1, <2>3, <2>4 DEF Own
<1>9. PlacedKeys'
  <2> SUFFICES ASSUME NEW p \in Requests, Busy(p)', request'[p].owner \notin collided'
               PROVE  Placed(p)'
    BY DEF PlacedKeys, Placed
  <2>1. p # r /\ request'[p] = request[p] /\ Placed(p) /\ request[p].owner \in Owners
    BY <1>3, Ending
  <2>2. ASSUME request[p].old # NoKey, imageKey[request[p].owner] = request[p].old
        PROVE  \/ imageKey'[request[p].owner] = request[p].old
               \/ request[p].old \notin objects
               \/ request[p].old \in lost'
    BY <1>1, <1>2, <1>6, <2>1, <2>2
  <2> QED
    BY <1>1, <1>6, <2>1, <2>2 DEF Placed
<1>10. MissingOnlyInPassing'
  <2> SUFFICES ASSUME NEW x \in Owners, GetImage(x)' = "missing", x \notin (broken' \cup collided)
               PROVE  \E p \in Requests : request'[p].step = "write" /\ request'[p].old = imageKey'[x]
    BY <1>1 DEF MissingOnlyInPassing
  <2>1. x \in exists /\ imageKey'[x] # NoKey /\ imageKey'[x] \notin objects
    BY <1>1 DEF GetImage
  <2>2. x # o
    BY <1>2, <1>6, <2>1
  <2>3. GetImage(x) = "missing" /\ imageKey'[x] = imageKey[x] /\ x \notin broken \cup collided
    BY <1>6, <2>1, <2>2 DEF GetImage
  <2>4. PICK p \in Requests : request[p].step = "write" /\ request[p].old = imageKey[x]
    BY <2>3 DEF IInv, MissingOnlyInPassing
  <2>5. p # r
    BY <1>2, <2>2, <2>3, <2>4, MissingKey DEF old
  <2> QED
    BY <1>3, <2>3, <2>4, <2>5, Stepping DEF IInv
<1>11. ObjectsAccountedFor'
  <2> SUFFICES ASSUME NEW k \in objects \ lost', k.owner \notin collided, imageKey'[k.owner] # k
               PROVE  \E p \in Requests : Busy(p)' /\ k \in {request'[p].old, request'[p].new}
    BY <1>1 DEF ObjectsAccountedFor
  <2>1. k # NoKey /\ k \in Keys /\ k.owner \in Owners
    BY <1>4, ImageAssumption DEF Keys
  <2>2. k \notin {old, new}
    BY <1>2, <1>6, <2>1
  <2>3. imageKey[k.owner] # k
    BY <1>6, <2>1, <2>2
  <2>4. PICK p \in Requests : Busy(p) /\ k \in {request[p].old, request[p].new}
    BY <1>6, <2>3 DEF IInv, ObjectsAccountedFor
  <2> QED
    BY <1>3, <2>2, <2>4 DEF old, new
<1> QED
  BY <1>3, <1>7, <1>8, <1>9, <1>10, <1>11 DEF IInv

(* What a failed request leaves behind is recorded as broken or lost. *)
LEMMA FailStep ==
    ASSUME IInv, NEW r \in Requests, Fail(r)
    PROVE  IInv'
<1> DEFINE q == request[r]
<1>1. /\ Busy(r)
      /\ request' = [request EXCEPT ![r] = Idle]
      /\ broken' = IF q.step = "write" /\ q.old # NoKey THEN broken \cup {q.owner} ELSE broken
      /\ lost' = IF q.step \in {"drop", "write"} THEN lost \cup ({q.new} \ {NoKey}) ELSE lost
      /\ UNCHANGED <<exists, imageKey, objects, now, made, collided>>
  BY DEF Fail
<1>2. /\ q \in Live /\ q.owner \in Owners /\ q.step \in {"put", "drop", "write"}
      /\ \A k \in {q.old, q.new} : k # NoKey => k \in made /\ k \in Keys /\ k.owner = q.owner
      /\ Placed(r)
  BY <1>1, Ending
<1>3. /\ request' \in [Requests -> Live \cup {Idle}]
      /\ \A p \in Requests : Busy(p)' =>
             p # r /\ request'[p] = request[p] /\ Busy(p) /\ Holds(p) /\ Own(p) /\ Placed(p)
      /\ \A p \in Requests \ {r} : Busy(p) => request'[p] = request[p] /\ Busy(p)'
      /\ Requested'
  BY <1>1, Finishes
<1> HIDE DEF q
<1>4. lost \subseteq lost' /\ lost' \subseteq made /\ broken \subseteq broken' /\ broken' \subseteq Owners
  BY <1>1, <1>2 DEF IInv, Types
<1>5. Types'
  BY <1>1, <1>3, <1>4 DEF IInv, Types, Known
<1>6. OwnKeys'
  BY <1>1, <1>3 DEF OwnKeys, Own
<1>7. PlacedKeys'
  BY <1>1, <1>3, <1>4 DEF PlacedKeys, Placed
<1>8. MissingOnlyInPassing'
  <2> SUFFICES ASSUME NEW x \in Owners, GetImage(x) = "missing", x \notin (broken' \cup collided)
               PROVE  \E p \in Requests : request'[p].step = "write" /\ request'[p].old = imageKey[x]
    BY <1>1 DEF MissingOnlyInPassing, GetImage
  <2>1. PICK p \in Requests : request[p].step = "write" /\ request[p].old = imageKey[x]
    BY <1>4 DEF IInv, MissingOnlyInPassing
  <2>2. p # r
    BY <1>1, <1>2, <2>1, MissingKey DEF q
  <2> QED
    BY <1>3, <2>1, <2>2, Stepping DEF IInv
<1>9. ObjectsAccountedFor'
  <2> SUFFICES ASSUME NEW k \in objects \ lost', k.owner \notin collided, imageKey[k.owner] # k
               PROVE  \E p \in Requests : Busy(p)' /\ k \in {request'[p].old, request'[p].new}
    BY <1>1 DEF ObjectsAccountedFor
  <2>1. k # NoKey /\ k \notin lost
    BY <1>4, ImageAssumption DEF IInv, Types
  <2>2. PICK p \in Requests : Busy(p) /\ k \in {request[p].old, request[p].new}
    BY <2>1 DEF IInv, ObjectsAccountedFor
  <2>3. k \notin {q.old, q.new}
    BY <1>1, <1>2, <2>1 DEF Placed, q
  <2> QED
    BY <1>3, <2>2, <2>3 DEF q
<1> QED
  BY <1>3, <1>5, <1>6, <1>7, <1>8, <1>9 DEF IInv

(* The removal of a row loses its object. *)
LEMMA RemoveOwnerStep ==
    ASSUME IInv, NEW o \in Owners, RemoveOwner(o)
    PROVE  IInv'
<1>1. /\ o \in exists /\ exists' = exists \ {o}
      /\ lost' = lost \cup ({imageKey[o]} \ {NoKey})
      /\ imageKey' = [imageKey EXCEPT ![o] = NoKey]
      /\ UNCHANGED <<objects, now, request, made, collided, broken>>
  BY DEF RemoveOwner
<1>2. /\ imageKey \in [Owners -> Keys \cup {NoKey}]
      /\ \A x \in Owners : imageKey[x] # NoKey => imageKey[x] \in made /\ imageKey[x].owner = x
      /\ \A r \in Requests : Busy(r) => request[r].owner \in Owners
  BY Ending DEF IInv, Types, Known
<1>3. Types'
  <2>1. \A x \in Owners : imageKey'[x] \in Known(x)' /\ (imageKey'[x] # NoKey => x \in exists')
    BY <1>1 DEF IInv, Types, Known
  <2> QED
    BY <1>1, <1>2, <2>1 DEF IInv, Types
<1>4. Requested'
  BY <1>1 DEF IInv, Requested, Holds, Known, Busy
<1>5. OwnKeys'
  BY <1>1, <1>2 DEF IInv, OwnKeys, Own, Busy
<1>6. PlacedKeys'
  <2> SUFFICES ASSUME NEW p \in Requests, Busy(p) PROVE Placed(p)'
    BY <1>1 DEF PlacedKeys, Busy
  <2>1. Placed(p) /\ request'[p] = request[p] /\ request[p].owner \in Owners
    BY <1>1, <1>2 DEF IInv, PlacedKeys
  <2>2. request[p].old # NoKey /\ imageKey[request[p].owner] = request[p].old =>
            \/ imageKey'[request[p].owner] = request[p].old
            \/ request[p].old \in lost'
    BY <1>1, <1>2, <2>1
  <2> QED
    BY <1>1, <2>1, <2>2 DEF Placed
<1>7. MissingOnlyInPassing'
  BY <1>1, <1>2 DEF IInv, MissingOnlyInPassing, GetImage
<1>8. ObjectsAccountedFor'
  <2> SUFFICES ASSUME NEW k \in objects \ lost', k.owner \notin collided, imageKey'[k.owner] # k
               PROVE  \E p \in Requests : Busy(p) /\ k \in {request[p].old, request[p].new}
    BY <1>1 DEF ObjectsAccountedFor, Busy
  <2>1. k \in Keys /\ k # NoKey /\ k.owner \in Owners
    BY ImageAssumption DEF IInv, Types, Keys
  <2>2. imageKey[k.owner] # k
    BY <1>1, <1>2, <2>1
  <2> QED
    BY <1>1, <2>2 DEF IInv, ObjectsAccountedFor
<1> QED
  BY <1>3, <1>4, <1>5, <1>6, <1>7, <1>8 DEF IInv

LEMMA TickStep ==
    ASSUME IInv, Tick \/ UNCHANGED vars
    PROVE  IInv'
<1>1. UNCHANGED <<exists, imageKey, objects, request, made, collided, broken, lost>>
  BY DEF Tick, vars, history
<1>2. now' \in 0..MaxTime
  BY ImageAssumption DEF Tick, vars, IInv, Types
<1>3. Types' /\ Requested'
  BY <1>1, <1>2 DEF IInv, Types, Requested, Holds, Known, Busy
<1>4. OwnKeys' /\ PlacedKeys'
  BY <1>1 DEF IInv, OwnKeys, Own, PlacedKeys, Placed, Busy
<1>5. MissingOnlyInPassing' /\ ObjectsAccountedFor'
  BY <1>1 DEF IInv, MissingOnlyInPassing, ObjectsAccountedFor, GetImage, Busy
<1> QED
  BY <1>3, <1>4, <1>5 DEF IInv

LEMMA InitIInv == Init => IInv
<1> SUFFICES ASSUME Init PROVE IInv
  OBVIOUS
<1>1. Types
  BY ImageAssumption DEF Init, Types, Known
<1>2. Requested /\ OwnKeys /\ PlacedKeys
  BY DEF Init, Requested, OwnKeys, PlacedKeys, Busy
<1>3. MissingOnlyInPassing /\ ObjectsAccountedFor
  BY DEF Init, MissingOnlyInPassing, ObjectsAccountedFor, GetImage
<1> QED
  BY <1>1, <1>2, <1>3 DEF IInv

LEMMA InvStep == IInv /\ [Next]_vars => IInv'
<1> SUFFICES ASSUME IInv, [Next]_vars PROVE IInv'
  OBVIOUS
<1>1. CASE Tick \/ UNCHANGED vars
  BY <1>1, TickStep
<1>2. ASSUME NEW r \in Requests, Handle(r) PROVE IInv'
  BY <1>2, UploadStep, RemoveImageStep, PutStep, DropStep, WriteStep, FailStep DEF Handle
<1>3. ASSUME NEW o \in Owners, RemoveOwner(o) PROVE IInv'
  BY <1>3, RemoveOwnerStep
<1> QED
  BY <1>1, <1>2, <1>3 DEF Next

-----------------------------------------------------------------------------
(* Uploads, removals of images and removals of rows, in any order and failing
   anywhere, keep what a request knows of its keys true: its own object is in
   the bucket from the upload on and in nobody else's hands. *)
THEOREM ImageInvariant == Spec => []IInv
BY InitIInv, InvStep, PTL DEF Spec

(* A row always refers to its own owner's object, made by an upload. *)
THEOREM ImageTypeCorrect == Spec => []TypeOK
<1>1. IInv => TypeOK
  BY DEF IInv, Types, Known, TypeOK
<1> QED
  BY <1>1, ImageInvariant, PTL

(* A row is without its object only while the request that removed it is about
   to write, after a failure there, or after two uploads in one millisecond. *)
THEOREM NoDanglingKey == Spec => []MissingOnlyInPassing
<1>1. IInv => MissingOnlyInPassing
  BY DEF IInv
<1> QED
  BY <1>1, ImageInvariant, PTL

(* No upload leaves an object nobody will store or remove, but for the cases
   that are recorded as lost. *)
THEOREM NoForgottenObject == Spec => []ObjectsAccountedFor
<1>1. IInv => ObjectsAccountedFor
  BY DEF IInv
<1> QED
  BY <1>1, ImageInvariant, PTL
=============================================================================
