----------------------------- MODULE ImageStore -----------------------------
(***************************************************************************)
(* Images of items and events: an object per image in a MinIO bucket and   *)
(* its key in the row, kept together by uploadImage and removeImage of     *)
(* backend/src/admin/admin-items.service.ts and admin-events.service.ts,   *)
(* which are the same step for step.  An owner is an item or an event.     *)
(*                                                                         *)
(* Bucket and table share no transaction: each await is a step, any        *)
(* request may fail between two, and nothing is undone.                    *)
(***************************************************************************)
EXTENDS Integers, FiniteSets

CONSTANTS
    Owners,     \* items and events with an image column
    Requests,   \* administrators' requests about images
    MaxTime,    \* bound: milliseconds the clock may advance
    MayFail,    \* whether requests may die between two steps
    NoKey

(* A key is the owner's id and the millisecond.  Files are taken to be of one
   type, so that the extension tells no keys apart. *)
Keys == [owner : Owners, at : 0..MaxTime]

ASSUME ImageAssumption ==
    /\ MaxTime \in Nat /\ MayFail \in BOOLEAN
    /\ NoKey \notin Keys

VARIABLES
    exists,     \* owners that have a row
    imageKey,   \* the image_key column
    objects,    \* keys with an object in the bucket
    now,        \* Date.now()
    request,    \* how far each request is, with what it read and the key it made
    made,       \* history: the keys made so far
    collided,   \* history: owners of whose uploads two made one key, in one millisecond
    broken,     \* history: owners a request left with the key of the object it had removed
    lost        \* history: objects no request will remove

history == <<made, collided, broken, lost>>
vars == <<exists, imageKey, objects, now, request, history>>

Idle == [step |-> "idle"]
Live == [step : {"put", "drop", "write"}, owner : Owners, old : Keys \cup {NoKey},
         new : Keys \cup {NoKey}]

Busy(r) == request[r] # Idle

-----------------------------------------------------------------------------
Init ==
    /\ exists = Owners
    /\ imageKey = [o \in Owners |-> NoKey]
    /\ objects = {}
    /\ now = 0
    /\ request = [r \in Requests |-> Idle]
    /\ made = {} /\ collided = {} /\ broken = {} /\ lost = {}

Tick == now < MaxTime /\ now' = now + 1 /\ UNCHANGED <<exists, imageKey, objects, request, history>>

(* assertExists reads the row, and the key is made from the clock.  A wrong
   type of file ends the request here. *)
Upload(r, o) ==
    /\ ~Busy(r) /\ o \in exists
    /\ LET new == [owner |-> o, at |-> now]
       IN  /\ request' = [request EXCEPT ![r] = [step |-> "put", owner |-> o, old |-> imageKey[o], new |-> new]]
           /\ made' = made \cup {new}
           /\ collided' = IF new \in made THEN collided \cup {o} ELSE collided
    /\ UNCHANGED <<exists, imageKey, objects, now, broken, lost>>

(* Nothing to do without an image. *)
RemoveImage(r, o) ==
    /\ ~Busy(r) /\ o \in exists /\ imageKey[o] # NoKey
    /\ request' = [request EXCEPT ![r] = [step |-> "drop", owner |-> o, old |-> imageKey[o], new |-> NoKey]]
    /\ UNCHANGED <<exists, imageKey, objects, now, history>>

(* storage.upload, over whatever object has the key. *)
Put(r) ==
    /\ request[r].step = "put"
    /\ objects' = objects \cup {request[r].new}
    /\ request' = [request EXCEPT ![r].step = IF request[r].old = NoKey THEN "write" ELSE "drop"]
    /\ UNCHANGED <<exists, imageKey, now, history>>

DropNothing(r) ==  \* mutant: the old object is not removed
    /\ request[r].step = "drop"
    /\ request' = [request EXCEPT ![r].step = "write"]
    /\ UNCHANGED <<exists, imageKey, objects, now, history>>

DropCurrent(r) ==  \* mutant: the key is read again
    /\ request[r].step = "drop"
    /\ objects' = objects \ {imageKey[request[r].owner]}
    /\ request' = [request EXCEPT ![r].step = "write"]
    /\ UNCHANGED <<exists, imageKey, now, history>>

(* storage.remove of the key that was read, gone or not. *)
Drop(r) ==
    /\ request[r].step = "drop"
    /\ objects' = objects \ {request[r].old}
    /\ request' = [request EXCEPT ![r].step = "write"]
    /\ UNCHANGED <<exists, imageKey, now, history>>

WriteUpsert(r) ==  \* mutant: an update taken for an upsert
    /\ request[r].step = "write"
    /\ LET o == request[r].owner
       IN  /\ imageKey' = [imageKey EXCEPT ![o] = request[r].new]
           /\ lost' = lost \cup ({imageKey[o]} \ {NoKey, request[r].old, request[r].new})
           /\ broken' = broken \ {o}
    /\ request' = [request EXCEPT ![r] = Idle]
    /\ UNCHANGED <<exists, objects, now, made, collided>>

(* The row gets the new key, or loses the one it had; without a row the update
   fails and an uploaded object stays.  What another request stored in the row
   in the meantime is overwritten and nobody's to remove.  An item's list is
   then dropped from the cache, which EventItems models. *)
Write(r) ==
    /\ request[r].step = "write"
    /\ LET o == request[r].owner
       IN  IF o \in exists
           THEN /\ imageKey' = [imageKey EXCEPT ![o] = request[r].new]
                /\ lost' = lost \cup ({imageKey[o]} \ {NoKey, request[r].old, request[r].new})
                /\ broken' = broken \ {o}
           ELSE /\ lost' = lost \cup ({request[r].new} \ {NoKey})
                /\ UNCHANGED <<imageKey, broken>>
    /\ request' = [request EXCEPT ![r] = Idle]
    /\ UNCHANGED <<exists, objects, now, made, collided>>

(* The row of an item or event is removed, its object is not. *)
RemoveOwner(o) ==
    /\ o \in exists
    /\ exists' = exists \ {o}
    /\ lost' = lost \cup ({imageKey[o]} \ {NoKey})
    /\ imageKey' = [imageKey EXCEPT ![o] = NoKey]
    /\ UNCHANGED <<objects, now, request, made, collided, broken>>

(* MinIO, Postgres or the process fails under the request. *)
Fail(r) ==
    /\ MayFail /\ Busy(r)
    /\ LET q == request[r]
       IN  /\ broken' = IF q.step = "write" /\ q.old # NoKey THEN broken \cup {q.owner} ELSE broken
           /\ lost' = IF q.step \in {"drop", "write"} THEN lost \cup ({q.new} \ {NoKey}) ELSE lost
    /\ request' = [request EXCEPT ![r] = Idle]
    /\ UNCHANGED <<exists, imageKey, objects, now, made, collided>>

Handle(r) ==
    \/ \E o \in Owners : Upload(r, o) \/ RemoveImage(r, o)
    \/ Put(r) \/ Drop(r) \/ Write(r) \/ Fail(r)

Next == Tick \/ (\E r \in Requests : Handle(r)) \/ \E o \in Owners : RemoveOwner(o)

Spec == Init /\ [][Next]_vars

-----------------------------------------------------------------------------
(* What GET .../image answers: 404 without a row or a key, an error of MinIO
   when the object is gone, and the object otherwise. *)
GetImage(o) ==
    IF o \notin exists \/ imageKey[o] = NoKey THEN "NotFound"
    ELSE IF imageKey[o] \in objects THEN "object" ELSE "missing"

-----------------------------------------------------------------------------
(* Properties. *)

(* Rows, bucket and requests keep their types, and a row refers to its own
   owner's object. *)
TypeOK ==
    /\ exists \subseteq Owners
    /\ imageKey \in [Owners -> Keys \cup {NoKey}]
    /\ \A o \in Owners : imageKey[o] # NoKey => o \in exists /\ imageKey[o].owner = o
    /\ objects \subseteq made /\ made \subseteq Keys /\ lost \subseteq made
    /\ now \in 0..MaxTime
    /\ request \in [Requests -> Live \cup {Idle}]
    /\ collided \subseteq Owners /\ broken \subseteq Owners

(* A row whose object is gone is about to be given another key by the request
   that removed the object; it is left so only by a request that failed there
   or by two uploads in one millisecond.  Uploads and removals that merely
   overlap never leave a row without its object. *)
MissingOnlyInPassing ==
    \A o \in Owners : GetImage(o) = "missing" =>
        \/ o \in broken \cup collided
        \/ \E r \in Requests : request[r].step = "write" /\ request[r].old = imageKey[o]

(* Every object is some row's image, or in the hands of a request that will
   store or remove it, unless it was lost: a request failed, its row was
   removed, another request overwrote its key, or two uploads shared it. *)
ObjectsAccountedFor ==
    \A k \in objects \ lost :
        \/ k.owner \in collided
        \/ imageKey[k.owner] = k
        \/ \E r \in Requests : Busy(r) /\ k \in {request[r].old, request[r].new}
=============================================================================
