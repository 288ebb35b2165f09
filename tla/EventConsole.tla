---------------------------- MODULE EventConsole ----------------------------
(***************************************************************************)
(* The administrator's page of events: frontend-admin/src/app/events/      *)
(* page.tsx with features/events/hooks/useEvents.ts, its dialogs           *)
(* EventFormDialog.tsx, EventItemsDialog.tsx and ConfirmDialog.tsx, and    *)
(* the effect of their requests on the events and items of the server.     *)
(*                                                                         *)
(* Every click runs an async handler that goes on after its dialog was     *)
(* closed.  A form is saved by several requests in a row, and the page     *)
(* shows a copy of the server's list that each handler asks for anew,      *)
(* while older requests for it may still be on their way.  An open dialog  *)
(* covers the page: only its own controls can be clicked.                  *)
(*                                                                         *)
(* Names, dates, rarities, rates and images of an event and its items are  *)
(* one value, its look, which an edit of any of them may change.           *)
(***************************************************************************)
EXTENDS Integers, Sequences, FiniteSets, SequencesExt

CONSTANTS
    Events, Items,  \* ids of events and items
    Drafts,         \* what an administrator types into a form for something new
    Looks,          \* what the list shows of an event besides its status and which items it has
    Handlers,       \* bound: handlers running at once
    MaxLoads,       \* bound: unanswered requests for the list
    MaxClicks,      \* bound: handlers started in all
    None

Rows == [active : BOOLEAN, items : SUBSET Items, look : Looks]

ASSUME ConsoleAssumption ==
    /\ IsFiniteSet(Events) /\ IsFiniteSet(Items)
    /\ MaxLoads \in Nat \ {0} /\ MaxClicks \in Nat
    /\ None \notin Events \cup Items \cup Drafts \cup Handlers \cup Rows

VARIABLES
    db,         \* the server's events with their items; None for an id without a row
    ids,        \* ids given out, never again
    list,       \* the list displayed
    loads,      \* load()s not ended, oldest first: the list each was answered, and whether
                \* it is the newest and was answered after every change no handler told of
    form,       \* the event form: None, or its event (None for a new one) and its draft
    itemsOf,    \* itemsEventId
    itemDraft,  \* what the form for a new item holds
    editing,    \* editingItemId
    handler,    \* the handlers running
    clicks,     \* handlers started so far
    confirming, \* the handler whose confirmation is asked for
    typed,      \* drafts typed so far
    made,       \* history: rows created from each draft
    cutShort,   \* history: drafts whose handler failed after their row was created
    accepted,   \* history: ids the administrator agreed to delete
    behind      \* history: the list was left old by a failure or an overtaken answer

forms == <<form, itemsOf, itemDraft, editing>>
history == <<typed, made, cutShort, accepted, behind>>
vars == <<db, ids, list, loads, forms, handler, clicks, confirming, history>>

Tables == [Events -> Rows \cup {None}]
NewEvent(look) == [active |-> FALSE, items |-> {}, look |-> look]
Idle == [kind |-> "idle"]
Kinds == {"toggle", "deleteEvent", "saveEvent", "addItem", "saveItem", "clearImage", "removeItem"}
Tasks == [kind : Kinds, step : {"ask", "send", "image"}, event : Events \cup {None},
          item : Items \cup {None}, draft : Drafts \cup {None}, to : BOOLEAN, image : BOOLEAN,
          place : {"dialog", "row closed", "gone"}]

-----------------------------------------------------------------------------
(* At most one event, without items; the page is loading. *)
Init ==
    \E old \in {{}} \cup {{e} : e \in Events}, look \in Looks :
        /\ db = [e \in Events |-> IF e \in old THEN NewEvent(look) ELSE None]
        /\ ids = old
        /\ list = [f \in Events |-> None]
        /\ loads = <<[got |-> None, newest |-> TRUE]>>
        /\ form = None /\ itemsOf = None /\ itemDraft = None /\ editing = None
        /\ handler = [h \in Handlers |-> Idle] /\ clicks = 0
        /\ confirming = None
        /\ typed = {} /\ made = [d \in Drafts |-> 0] /\ cutShort = {} /\ accepted = {} /\ behind = FALSE

-----------------------------------------------------------------------------
(* load(): no request is cancelled, and each answer is displayed. *)

Load ==
    /\ Len(loads) < MaxLoads
    /\ loads' = Append([i \in DOMAIN loads |-> [loads[i] EXCEPT !.newest = FALSE]],
                       [got |-> None, newest |-> TRUE])

LoadServed(i) ==
    /\ loads[i].got = None
    /\ loads' = [loads EXCEPT ![i].got = db]
    /\ UNCHANGED <<db, ids, list, forms, handler, confirming, history, clicks>>

(* The handlers of a dialog, or of a row in it, that closes go on. *)
Leave(kinds, place) ==
    [h \in Handlers |-> IF handler[h].kind \in kinds /\ handler[h].place # "gone"
                        THEN [handler[h] EXCEPT !.place = place] ELSE handler[h]]

ItemKinds == {"addItem", "saveItem", "clearImage"}

(* The items' dialog of an event that is not in the list is not rendered, nor
   is the row of an item that is not; what they held is gone. *)
Rerender(shown) ==
    IF itemsOf = None THEN UNCHANGED <<itemDraft, editing, handler>>
    ELSE IF shown[itemsOf] = None
         THEN itemDraft' = None /\ editing' = None /\ handler' = Leave(ItemKinds, "gone")
         ELSE /\ UNCHANGED <<itemDraft, editing>>
              /\ handler' = IF editing \in shown[itemsOf].items THEN handler
                            ELSE Leave({"saveItem"}, "row closed")

LoadEnds(i, ok) ==
    /\ ok => loads[i].got # None
    /\ list' = IF ok THEN loads[i].got ELSE list
    /\ behind' = IF ok THEN ~loads[i].newest ELSE behind \/ loads[i].newest
    /\ loads' = RemoveAt(loads, i)
    /\ Rerender(list')
    /\ UNCHANGED <<db, ids, form, itemsOf, confirming, typed, made, cutShort, accepted, clicks>>

-----------------------------------------------------------------------------
(* What can be clicked. *)

ItemsShown == itemsOf # None /\ list[itemsOf] # None
PageOpen == form = None /\ ~ItemsShown /\ confirming = None
ItemsOpen == ItemsShown /\ confirming = None

Start(h, kind, step, e, i, d, to, image) ==
    /\ handler[h] = Idle /\ clicks < MaxClicks
    /\ clicks' = clicks + 1
    /\ handler' = [handler EXCEPT ![h] = [kind |-> kind, step |-> step, event |-> e, item |-> i,
                                          draft |-> d, to |-> to, image |-> image, place |-> "dialog"]]
    /\ UNCHANGED <<db, ids, list, loads, made, cutShort, accepted, behind>>

Running(kind) == \E h \in Handlers : handler[h].kind = kind /\ handler[h].place = "dialog"

(* The table of events. *)
ToggleActive(h, e) ==
    /\ PageOpen /\ list[e] # None
    /\ Start(h, "toggle", "send", e, None, None, ~list[e].active, FALSE)
    /\ UNCHANGED <<forms, confirming, typed>>

DeleteEvent(h, e) ==
    /\ PageOpen /\ list[e] # None
    /\ Start(h, "deleteEvent", "ask", e, None, None, FALSE, FALSE)
    /\ confirming' = h
    /\ UNCHANGED <<forms, typed>>

ManageItems(e) ==
    /\ PageOpen /\ list[e] # None
    /\ itemsOf' = e /\ itemDraft' = None /\ editing' = None
    /\ UNCHANGED <<db, ids, list, loads, form, handler, confirming, history, clicks>>

(* "New event" and "Edit event". *)
OpenForm(e, d) ==
    /\ PageOpen
    /\ IF e = None THEN d \in Drafts \ typed ELSE list[e] # None /\ d = None
    /\ form' = [event |-> e, draft |-> d]
    /\ typed' = typed \cup ({d} \ {None})
    /\ UNCHANGED <<db, ids, list, loads, itemsOf, itemDraft, editing, handler, confirming, made,
                   cutShort, accepted, behind, clicks>>

-----------------------------------------------------------------------------
(* The dialogs. *)

CloseForm ==
    /\ form # None
    /\ form' = None
    /\ handler' = Leave({"saveEvent"}, "gone")
    /\ UNCHANGED <<db, ids, list, loads, itemsOf, itemDraft, editing, confirming, history, clicks>>

SubmitTwice(h, image) ==  \* mutant: Save is not disabled while saving
    /\ form # None
    /\ Start(h, "saveEvent", "send", form.event, None, form.draft, FALSE, image)
    /\ UNCHANGED <<forms, confirming, typed>>

(* Save, disabled while saving; with a banner to upload or remove. *)
SubmitForm(h, image) ==
    /\ form # None /\ ~Running("saveEvent")
    /\ Start(h, "saveEvent", "send", form.event, None, form.draft, FALSE, image)
    /\ UNCHANGED <<forms, confirming, typed>>

CloseItems ==
    /\ ItemsOpen
    /\ itemsOf' = None /\ itemDraft' = None /\ editing' = None
    /\ handler' = Leave(ItemKinds, "gone")
    /\ UNCHANGED <<db, ids, list, loads, form, confirming, history, clicks>>

TypeItem(d) ==
    /\ ItemsOpen /\ itemDraft = None /\ d \notin typed
    /\ itemDraft' = d
    /\ typed' = typed \cup {d}
    /\ UNCHANGED <<db, ids, list, loads, form, itemsOf, editing, handler, confirming, made, cutShort,
                   accepted, behind, clicks>>

AddItem(h, image) ==
    /\ ItemsOpen /\ itemDraft # None /\ ~Running("addItem")
    /\ Start(h, "addItem", "send", itemsOf, None, itemDraft, FALSE, image)
    /\ UNCHANGED <<forms, confirming, typed>>

(* EditItemRow replaces the row of the item being edited. *)
EditItem(i) ==
    /\ ItemsOpen
    /\ i \in list[itemsOf].items \cup {None} /\ i # editing
    /\ editing' = i
    /\ handler' = Leave({"saveItem"}, "row closed")
    /\ UNCHANGED <<db, ids, list, loads, form, itemsOf, itemDraft, confirming, history, clicks>>

EditShown == ItemsOpen /\ editing \in list[itemsOf].items

SaveItem(h, image) ==
    /\ EditShown /\ ~Running("saveItem")
    /\ Start(h, "saveItem", "send", itemsOf, editing, None, FALSE, image)
    /\ UNCHANGED <<forms, confirming, typed>>

ClearImage(h) ==
    /\ EditShown
    /\ Start(h, "clearImage", "send", itemsOf, editing, None, FALSE, FALSE)
    /\ UNCHANGED <<forms, confirming, typed>>

RemoveItem(h, i) ==
    /\ ItemsOpen /\ i \in list[itemsOf].items /\ i # editing
    /\ Start(h, "removeItem", "ask", itemsOf, i, None, FALSE, FALSE)
    /\ confirming' = h
    /\ UNCHANGED <<forms, typed>>

Target(t) == IF t.kind = "removeItem" THEN t.item ELSE t.event

SettleAlways(ok) ==  \* mutant: the answer is not looked at
    /\ confirming # None
    /\ handler' = [handler EXCEPT ![confirming].step = "send"]
    /\ accepted' = accepted \cup (IF ok THEN {Target(handler[confirming])} ELSE {})
    /\ confirming' = None
    /\ UNCHANGED <<db, ids, list, loads, forms, typed, made, cutShort, behind, clicks>>

SettleStaysOpen(ok) ==  \* mutant: setState(null) forgotten
    /\ confirming # None
    /\ handler' = [handler EXCEPT ![confirming] = IF ok THEN [@ EXCEPT !.step = "send"] ELSE Idle]
    /\ accepted' = accepted \cup (IF ok THEN {Target(handler[confirming])} ELSE {})
    /\ UNCHANGED <<db, ids, list, loads, forms, confirming, typed, made, cutShort, behind, clicks>>

(* settle: the promise of confirm() is resolved and the handler goes on, or
   returns. *)
Settle(ok) ==
    /\ confirming # None
    /\ handler' = [handler EXCEPT ![confirming] = IF ok THEN [@ EXCEPT !.step = "send"] ELSE Idle]
    /\ accepted' = accepted \cup (IF ok THEN {Target(handler[confirming])} ELSE {})
    /\ confirming' = None
    /\ UNCHANGED <<db, ids, list, loads, forms, typed, made, cutShort, behind, clicks>>

(* Every open dialog listens for the key, so it closes them all. *)
Escape ==
    /\ confirming # None /\ ItemsShown
    /\ itemsOf' = None /\ itemDraft' = None /\ editing' = None
    /\ handler' = [Leave(ItemKinds, "gone") EXCEPT ![confirming] = Idle]
    /\ confirming' = None
    /\ UNCHANGED <<db, ids, list, loads, form, history, clicks>>

-----------------------------------------------------------------------------
(* The requests of the handlers. *)

(* What the request of a handler does at the server to an event and, if it is
   about one, an item of it; it is refused when the row is gone. *)
CreatesEvent(t) == t.kind = "saveEvent" /\ t.step = "send" /\ t.event = None
CreatesItem(t) == t.kind = "addItem" /\ t.step = "send"

Create(t, id) ==
    /\ id \notin ids /\ ids' = ids \cup {id}
    /\ made' = [made EXCEPT ![t.draft] = @ + 1]

Change(t, e, i) ==
    CASE t.kind = "toggle" -> db' = [db EXCEPT ![e].active = t.to]
      [] t.kind = "deleteEvent" -> db' = [db EXCEPT ![e] = None]
      [] t.kind = "removeItem" -> db' = [db EXCEPT ![e].items = @ \ {i}]
      [] OTHER -> \E v \in Looks : db' = [db EXCEPT ![e].look = v]  \* an edit, or an image

Effect(t, e, i) ==
    \/ /\ CreatesEvent(t) /\ i = None
       /\ Create(t, e)
       /\ \E v \in Looks : db' = [db EXCEPT ![e] = NewEvent(v)]
    \/ /\ CreatesItem(t) /\ e = t.event /\ db[e] # None /\ i # None
       /\ Create(t, i)
       /\ db' = [db EXCEPT ![e].items = @ \cup {i}]
    \/ /\ ~CreatesEvent(t) /\ ~CreatesItem(t)
       /\ e = t.event /\ i = t.item
       /\ db[e] # None /\ (i # None => i \in db[e].items)
       /\ Change(t, e, i)
       /\ UNCHANGED <<ids, made>>

Served(t) == \E e \in Events, i \in Items \cup {None} : Effect(t, e, i)

FinishUnloaded(h) ==  \* mutant: onChanged forgotten after an item is edited
    /\ handler' = [handler EXCEPT ![h] = Idle]
    /\ IF handler[h].kind = "saveItem" THEN UNCHANGED loads ELSE Load
    /\ UNCHANGED forms

(* The end of a handler: its dialog's callbacks, and another load().  A form
   that was closed in the meantime still closes the one open now. *)
Finish(h) ==
    LET t == handler[h]
    IN  /\ Load
        /\ handler' = [CASE t.kind = "saveEvent" -> Leave({"saveEvent"}, "gone")
                         [] t.kind \in {"saveItem", "clearImage"} /\ t.place # "gone" ->
                                Leave({"saveItem"}, "row closed")
                         [] OTHER -> handler EXCEPT ![h] = Idle]
        /\ form' = IF t.kind = "saveEvent" THEN None ELSE form
        /\ itemDraft' = IF t.kind = "addItem" /\ t.place # "gone" THEN None ELSE itemDraft
        /\ editing' = IF t.kind \in {"saveItem", "clearImage"} /\ t.place # "gone" THEN None ELSE editing
        /\ UNCHANGED itemsOf

(* The first request, answered: then the image of the row it was about or has
   created, or the end. *)
Saved(h) ==
    /\ handler[h].kind # "idle" /\ handler[h].step = "send"
    /\ \E e \in Events, i \in Items \cup {None} :
        /\ Effect(handler[h], e, i)
        /\ IF handler[h].image
           THEN /\ handler' = [handler EXCEPT ![h] = [@ EXCEPT !.step = "image", !.event = e, !.item = i]]
                /\ UNCHANGED <<loads, forms>>
           ELSE Finish(h)
    /\ UNCHANGED <<list, confirming, typed, cutShort, accepted, behind, clicks>>

ImageSaved(h) ==
    /\ handler[h].kind # "idle" /\ handler[h].step = "image"
    /\ Served(handler[h])
    /\ Finish(h)
    /\ UNCHANGED <<list, confirming, typed, cutShort, accepted, behind, clicks>>

(* The catch: an error is shown, the form stays as it was, and the list is not
   loaded even when a request before the failing one, or the failing one
   itself with its answer lost, had its effect. *)
Failed(h, effective) ==
    LET t == handler[h]
    IN  /\ t.kind # "idle" /\ t.step # "ask"
        /\ IF effective THEN Served(t) ELSE UNCHANGED <<db, ids, made>>
        /\ handler' = [handler EXCEPT ![h] = Idle]
        /\ cutShort' = IF t.draft # None /\ (t.step = "image" \/ effective)
                       THEN cutShort \cup {t.draft} ELSE cutShort
        /\ IF t.step = "image" \/ effective
           THEN /\ behind' = TRUE
                /\ loads' = [i \in DOMAIN loads |-> [loads[i] EXCEPT !.newest = @ /\ loads[i].got = None]]
           ELSE UNCHANGED <<behind, loads>>
        /\ UNCHANGED <<list, forms, confirming, typed, accepted, clicks>>

-----------------------------------------------------------------------------
(* Whether a second request follows the first: a banner or an item's image was
   picked, or the banner's removal. *)
ImageChoices == BOOLEAN

Click(h) ==
    \/ \E e \in Events : ToggleActive(h, e) \/ DeleteEvent(h, e)
    \/ \E image \in ImageChoices : SubmitForm(h, image) \/ AddItem(h, image) \/ SaveItem(h, image)
    \/ ClearImage(h) \/ \E i \in Items : RemoveItem(h, i)

Continue(h) == Saved(h) \/ ImageSaved(h) \/ \E effective \in BOOLEAN : Failed(h, effective)

LoadStep(i) == LoadServed(i) \/ \E ok \in BOOLEAN : LoadEnds(i, ok)

Next ==
    \/ \E h \in Handlers : Click(h) \/ Continue(h)
    \/ \E i \in DOMAIN loads : LoadStep(i)
    \/ \E e \in Events : ManageItems(e)
    \/ \E e \in Events \cup {None}, d \in Drafts \cup {None} : OpenForm(e, d)
    \/ CloseForm \/ CloseItems \/ Escape
    \/ \E d \in Drafts : TypeItem(d)
    \/ \E i \in Items \cup {None} : EditItem(i)
    \/ \E ok \in BOOLEAN : Settle(ok)

Spec == Init /\ [][Next]_vars

-----------------------------------------------------------------------------
(* Properties. *)

(* Rows, dialogs and handlers keep their types; a confirmation belongs to a
   handler that waits for it, and what is listed once had a row. *)
TypeOK ==
    /\ db \in Tables /\ list \in Tables
    /\ ids \subseteq Events \cup Items
    /\ \A e \in Events : list[e] # None => e \in ids /\ list[e].items \subseteq ids
    /\ Len(loads) <= MaxLoads
    /\ \A i \in DOMAIN loads : loads[i] \in [got : Tables \cup {None}, newest : BOOLEAN]
    /\ form \in [event : Events \cup {None}, draft : Drafts \cup {None}] \cup {None}
    /\ itemsOf \in Events \cup {None} /\ itemDraft \in Drafts \cup {None} /\ editing \in Items \cup {None}
    /\ handler \in [Handlers -> Tasks \cup {Idle}]
    /\ confirming # None => handler[confirming].kind # "idle" /\ handler[confirming].step = "ask"
    /\ clicks \in 0..MaxClicks
    /\ typed \subseteq Drafts /\ cutShort \subseteq Drafts /\ made \in [Drafts -> Nat]
    /\ accepted \subseteq Events \cup Items /\ behind \in BOOLEAN

(* README.md:1105, re-fetching after every change: once nothing is on its way
   the list displayed is the server's, with every creation, edit, image, toggle
   and deletion, unless a request failed or an older answer came last.  No
   handler forgets to load, in whatever order it and its dialog end. *)
ListCurrent ==
    loads = <<>> /\ (\A h \in Handlers : handler[h].kind # "idle" => handler[h].step # "image")
        => list = db \/ behind

(* What was typed once is created once, unless its handler failed after the
   row was there: closing dialogs, double clicks and overlapping saves do not
   duplicate it. *)
DuplicateOnlyIfCutShort == \A d \in Drafts : made[d] > 1 => d \in cutShort

(* Only what the administrator agreed to delete is deleted. *)
DeletedOnlyIfAccepted ==
    [][\A e \in Events : db[e] # None =>
          IF db'[e] = None THEN e \in accepted ELSE db[e].items \ db'[e].items \subseteq accepted]_vars
=============================================================================
