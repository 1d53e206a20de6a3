-------------------------------- MODULE Menu --------------------------------
(***************************************************************************)
(* The menu's categories and items, the two-screen editing of an item's    *)
(* recipe and options, and the pictures of items, which live in an object  *)
(* store outside the database (menu.service.ts, menu-images.service.ts).   *)
(* An operation on the menu is one serializable transaction; an upload and *)
(* a clean-up are several steps with a call to the store in between, and   *)
(* several processes run them at once.                                     *)
(***************************************************************************)
EXTENDS Integers, FiniteSets

CONSTANTS Employees, Categories, MenuItems, Pictures,
          Configurations,  \* recipes, or sets of options, by their content
          MaxProcessing,   \* uploads at once
          MaxRemovals,       \* bound: clean-ups tried for one picture
          None

VARIABLES category,  \* the MenuCategory rows
          menuItem,  \* the MenuItem rows
          screen,    \* the configuration each employee has open
          picture,   \* the MenuImageUpload rows
          uploading, \* the uploads in progress, and where they are
          late,      \* uploads given up whose request may still arrive
          cleaning,  \* the clean-ups in progress
          bucket     \* the objects in the store

vars == <<category, menuItem, screen, picture, uploading, late, cleaning, bucket>>
pictureVars == <<uploading, late, cleaning, bucket>>

Life == {"NONE", "LIVE", "DELETED"}
Kinds == {"recipe", "options"}
Blank == CHOOSE c \in Configurations : TRUE \* no ingredient, no group
NoItem == [life |-> "NONE", in |-> None, url |-> None, config |-> [k \in Kinds |-> Blank]]
NotOpen == [item |-> None, kind |-> "recipe", seen |-> Blank]
\* due: whether expiresAt has passed; claim numbers the leases it held.
NoPicture == [status |-> "NONE", by |-> None, item |-> None, due |-> "never", claim |-> 0]

MenuTypeOK ==
  /\ category \in [Categories -> Life]
  /\ menuItem \in [MenuItems -> [life : Life, in : Categories \cup {None},
                         url : Pictures \cup {None}, config : [Kinds -> Configurations]]]
  /\ screen \in [Employees -> [item : MenuItems \cup {None}, kind : Kinds, seen : Configurations]]
  /\ picture \in [Pictures ->
       [status : {"NONE", "UPLOADING", "READY", "ATTACHED", "DELETING", "GONE"},
        by : Employees \cup {None}, item : MenuItems \cup {None},
        due : {"never", "later", "past"}, claim : 0..MaxRemovals]]
  /\ uploading \in [Pictures -> {"no", "sending", "stored"}]
  /\ late \subseteq Pictures /\ bucket \subseteq Pictures
  /\ cleaning \subseteq [picture : Pictures, lease : 1..MaxRemovals, removed : BOOLEAN]

Init ==
  /\ category = [c \in Categories |-> "NONE"]
  /\ menuItem = [i \in MenuItems |-> NoItem]
  /\ screen = [e \in Employees |-> NotOpen]
  /\ picture = [p \in Pictures |-> NoPicture]
  /\ uploading = [p \in Pictures |-> "no"]
  /\ late = {} /\ cleaning = {} /\ bucket = {}

-----------------------------------------------------------------------------
(* Categories and items *)

CreateCategory(c) ==
  /\ category[c] = "NONE"
  /\ category' = [category EXCEPT ![c] = "LIVE"]
  /\ UNCHANGED <<menuItem, screen, picture, pictureVars>>

DeleteCategory(c) ==
  /\ category[c] = "LIVE"
  /\ \A i \in MenuItems : menuItem[i].in = c => menuItem[i].life # "LIVE"
  /\ category' = [category EXCEPT ![c] = "DELETED"]
  /\ UNCHANGED <<menuItem, screen, picture, pictureVars>>

FindActiveItem(i) == menuItem[i].life = "LIVE" /\ category[menuItem[i].in] = "LIVE"

\* Mutant: any upload can be attached, also one whose deletion has begun.
Uploaded(e, i, p) == picture[p].status # "NONE"
\* syncReference, first half: a draft of this employee that has not expired,
\* or the picture the item has already.  A row that is gone is refused: its
\* address is one of ours.
Attachable(e, i, p) ==
  \/ /\ picture[p].status = "READY" /\ picture[p].by = e
     /\ picture[p].item = None /\ picture[p].due = "later"
  \/ picture[p].status = "ATTACHED" /\ picture[p].item = i

\* syncReference: attaches the picture, and gives the ones it replaces a
\* term after which they are removed.
SyncReference(i, url) ==
  [p \in Pictures |->
     IF p = url
     THEN [picture[p] EXCEPT !.status = "ATTACHED", !.item = i, !.due = "never"]
     ELSE IF picture[p].status = "ATTACHED" /\ picture[p].item = i
          THEN [picture[p] EXCEPT !.status = "DELETING", !.due = "later"]
          ELSE picture[p]]

CreateItem(e, i, c, url) ==
  /\ menuItem[i].life = "NONE" /\ category[c] = "LIVE"
  /\ url # None => Attachable(e, i, url)
  /\ menuItem' = [menuItem EXCEPT ![i] = [NoItem EXCEPT !.life = "LIVE", !.in = c, !.url = url]]
  /\ picture' = IF url # None THEN SyncReference(i, url) ELSE picture
  /\ UNCHANGED <<category, screen, pictureVars>>

\* A url that stays as it is is not synchronised.
UpdateItem(e, i, c, url) ==
  /\ FindActiveItem(i) /\ category[c] = "LIVE"
  /\ url \notin {None, menuItem[i].url} => Attachable(e, i, url)
  /\ menuItem' = [menuItem EXCEPT ![i].in = c, ![i].url = url]
  /\ picture' = IF url # menuItem[i].url THEN SyncReference(i, url) ELSE picture
  /\ UNCHANGED <<category, screen, pictureVars>>

\* Refused while the kitchen has the item in hand, which any call may meet.
\* The recipe goes with the item, its options stay.
DeleteItem(i) ==
  /\ FindActiveItem(i)
  /\ menuItem' = [menuItem EXCEPT ![i].life = "DELETED", ![i].config["recipe"] = Blank]
  /\ picture' = SyncReference(i, None)
  /\ UNCHANGED <<category, screen, pictureVars>>

-----------------------------------------------------------------------------
(* Editing a recipe, or the options, on a screen: getItemRecipe and        *)
(* getItemOptions answer the content with a digest of it, which the save   *)
(* must name.                                                              *)

OpenConfiguration(e, i, k) ==
  /\ FindActiveItem(i)
  /\ screen' = [screen EXCEPT ![e] = [item |-> i, kind |-> k, seen |-> menuItem[i].config[k]]]
  /\ UNCHANGED <<category, menuItem, picture, pictureVars>>

AssertConfigurationRevision(e) ==
  /\ screen[e].item # None
  /\ screen[e].seen = menuItem[screen[e].item].config[screen[e].kind]

\* replaceItemRecipe and replaceItemOptions; the answer has the new digest.
SaveConfiguration(e, content) ==
  LET i == screen[e].item  k == screen[e].kind IN
  /\ AssertConfigurationRevision(e) /\ FindActiveItem(i)
  /\ menuItem' = [menuItem EXCEPT ![i].config[k] = content]
  /\ screen' = [screen EXCEPT ![e].seen = content]
  /\ UNCHANGED <<category, picture, pictureVars>>

-----------------------------------------------------------------------------
(* Uploading a picture *)

\* The row is written before the object.
BeginUpload(e, p) ==
  /\ picture[p].status = "NONE"
  /\ Cardinality({q \in Pictures : uploading[q] # "no"}) < MaxProcessing
  /\ picture' = [picture EXCEPT ![p] = [NoPicture EXCEPT !.status = "UPLOADING",
                                                         !.by = e, !.due = "later"]]
  /\ uploading' = [uploading EXCEPT ![p] = "sending"]
  /\ UNCHANGED <<category, menuItem, screen, late, cleaning, bucket>>

ObjectStored(p) ==
  /\ uploading[p] = "sending"
  /\ bucket' = bucket \cup {p}
  /\ uploading' = [uploading EXCEPT ![p] = "stored"]
  /\ UNCHANGED <<category, menuItem, screen, picture, late, cleaning>>

\* No answer in time, or the process ends: the request may still arrive,
\* before the row's term of a day is over.
UploadGivenUp(p) ==
  /\ uploading[p] # "no"
  /\ late' = IF uploading[p] = "sending" THEN late \cup {p} ELSE late
  /\ uploading' = [uploading EXCEPT ![p] = "no"]
  /\ UNCHANGED <<category, menuItem, screen, picture, cleaning, bucket>>
LateRequest(p, arrives) ==
  /\ p \in late
  /\ bucket' = IF arrives THEN bucket \cup {p} ELSE bucket
  /\ late' = late \ {p}
  /\ UNCHANGED <<category, menuItem, screen, picture, uploading, cleaning>>

MarkReady(p) ==
  /\ uploading[p] = "stored"
  /\ picture' = IF picture[p].status = "UPLOADING" /\ picture[p].due = "later"
                THEN [picture EXCEPT ![p].status = "READY"] ELSE picture
  /\ uploading' = [uploading EXCEPT ![p] = "no"]
  /\ UNCHANGED <<category, menuItem, screen, late, cleaning, bucket>>

-----------------------------------------------------------------------------
(* Removing the pictures nobody attached, and those replaced *)

\* The term of a row ends: a day, or the five minutes of a lease.  A request
\* to the store lives ten seconds.
TermEnds(p) ==
  /\ picture[p].due = "later" /\ p \notin late /\ uploading[p] # "sending"
  /\ picture' = [picture EXCEPT ![p].due = "past"]
  /\ UNCHANGED <<category, menuItem, screen, pictureVars>>

\* cleanupBatch up to the call of the store.
ClaimForRemoval(p) ==
  /\ picture[p].status \in {"UPLOADING", "READY", "DELETING"}
  /\ picture[p].due = "past" /\ picture[p].claim < MaxRemovals
  /\ picture' = [picture EXCEPT ![p].status = "DELETING", ![p].due = "later",
                                ![p].claim = @ + 1]
  /\ cleaning' = cleaning \cup
       {[picture |-> p, lease |-> picture[p].claim + 1, removed |-> FALSE]}
  /\ UNCHANGED <<category, menuItem, screen, uploading, late, bucket>>

RemoveObject(w) ==
  /\ w \in cleaning /\ ~w.removed
  /\ bucket' = bucket \ {w.picture}
  /\ cleaning' = (cleaning \ {w}) \cup {[w EXCEPT !.removed = TRUE]}
  /\ UNCHANGED <<category, menuItem, screen, picture, uploading, late>>

\* The store refuses, the answer is lost, or the process ends: a later batch
\* finds the row again.
RemovalFails(w) ==
  /\ w \in cleaning
  /\ cleaning' = cleaning \ {w}
  /\ UNCHANGED <<category, menuItem, screen, picture, uploading, late, bucket>>

Removed(w) == w \in cleaning /\ w.removed

DeleteRow(w) ==
  /\ Removed(w)
  /\ LET p == w.picture
         held == picture[p].status = "DELETING" /\ picture[p].claim = w.lease
                 /\ picture[p].due # "never"
     IN picture' = IF held THEN [picture EXCEPT ![p] = [NoPicture EXCEPT !.status = "GONE"]]
                           ELSE picture
  /\ cleaning' = cleaning \ {w}
  /\ UNCHANGED <<category, menuItem, screen, uploading, late, bucket>>

-----------------------------------------------------------------------------
Next ==
  \/ \E c \in Categories : CreateCategory(c) \/ DeleteCategory(c)
  \/ \E e \in Employees, i \in MenuItems, c \in Categories, url \in Pictures \cup {None} :
       CreateItem(e, i, c, url) \/ UpdateItem(e, i, c, url)
  \/ \E i \in MenuItems : DeleteItem(i)
  \/ \E e \in Employees, i \in MenuItems, k \in Kinds : OpenConfiguration(e, i, k)
  \/ \E e \in Employees, content \in Configurations : SaveConfiguration(e, content)
  \/ \E e \in Employees, p \in Pictures : BeginUpload(e, p)
  \/ \E p \in Pictures : \/ ObjectStored(p) \/ UploadGivenUp(p) \/ MarkReady(p)
                         \/ TermEnds(p) \/ ClaimForRemoval(p)
  \/ \E p \in Pictures, arrives \in BOOLEAN : LateRequest(p, arrives)
  \/ \E w \in cleaning : RemoveObject(w) \/ RemovalFails(w) \/ DeleteRow(w)

Spec == Init /\ [][Next]_vars

-----------------------------------------------------------------------------
Live(i) == menuItem[i].life = "LIVE"

\* The menu serves what it shows: the picture of a live item is attached to
\* that item alone and is in the store, an attached picture is shown by a
\* live item (nothing else would ever remove it), an object in the store has
\* a row by which it can be removed, and the category of a live item is live.
MenuSound ==
  /\ MenuTypeOK
  /\ \A i \in MenuItems : Live(i) =>
       /\ category[menuItem[i].in] = "LIVE"
       /\ menuItem[i].url # None =>
            /\ picture[menuItem[i].url].status = "ATTACHED"
            /\ picture[menuItem[i].url].item = i
            /\ menuItem[i].url \in bucket
  /\ \A p \in Pictures : picture[p].status = "ATTACHED" =>
       picture[p].item # None /\ Live(picture[p].item) /\ menuItem[picture[p].item].url = p
  /\ \A p \in bucket : picture[p].status \notin {"NONE", "GONE"}

\* A saved recipe or set of options replaces only what the employee who
\* saved it had been shown: no edit of another screen is lost unseen.
EditsSeen ==
  \A i \in MenuItems, k \in Kinds :
    Live(i) /\ Live(i)' /\ menuItem'[i].config[k] # menuItem[i].config[k] =>
      \E e \in Employees :
        /\ screen[e].item = i /\ screen[e].kind = k
        /\ screen[e].seen = menuItem[i].config[k]
=============================================================================
