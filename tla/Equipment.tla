----------------------------- MODULE Equipment ------------------------------
(***************************************************************************)
(* The register of equipment (equipment.service.ts).  update runs in a     *)
(* serializable transaction and is one action; transition reads the row    *)
(* and writes it in a transaction that does not lock what it read, so that *)
(* other requests come in between.  Dates are left out: they refuse calls, *)
(* and any call may be refused.                                            *)
(***************************************************************************)
EXTENDS Integers, Sequences

CONSTANTS Assets, Managers, Amounts, MaxTotal,
          MaxWrites, \* bound: writes of one row
          None

VARIABLES asset,     \* the Equipment rows
          life,      \* the EquipmentLifecycleEvent rows of each
          form,      \* the edit form each manager has open
          moving     \* the transition each manager's request has read a row for

vars == <<asset, life, form, moving>>

EquipmentStatus == {"IN_USE", "MAINTENANCE", "BROKEN", "LIQUIDATED"}
ALLOWED_TRANSITIONS ==
  [IN_USE |-> {"MAINTENANCE", "BROKEN", "LIQUIDATED"},
   MAINTENANCE |-> {"IN_USE", "BROKEN", "LIQUIDATED"},
   BROKEN |-> {"MAINTENANCE", "LIQUIDATED"},
   LIQUIDATED |-> {}]

\* updatedAt counts the writes of a row.
NoAsset == [status |-> None, quantity |-> 0, unitPrice |-> 0, totalAmount |-> 0,
            updatedAt |-> 0, liquidated |-> FALSE]
NoForm == [asset |-> None, updatedAt |-> 0]
NotMoving == [asset |-> None, from |-> None, to |-> None]

AssetTypeOK ==
  /\ asset \in [Assets ->
       [status : EquipmentStatus \cup {None}, quantity : Amounts \cup {0},
        unitPrice : Amounts \cup {0}, totalAmount : 0..MaxTotal,
        updatedAt : 0..MaxWrites, liquidated : BOOLEAN]]
  /\ form \in [Managers -> [asset : Assets \cup {None}, updatedAt : 0..MaxWrites]]
  /\ moving \in [Managers -> [asset : Assets \cup {None}, from : EquipmentStatus \cup {None},
                              to : EquipmentStatus \cup {None}]]

Init ==
  /\ asset = [a \in Assets |-> NoAsset]
  /\ life = [a \in Assets |-> <<>>]
  /\ form = [m \in Managers |-> NoForm]
  /\ moving = [m \in Managers |-> NotMoving]

-----------------------------------------------------------------------------
\* create; calculateTotal refuses a total the column cannot hold.
Create(a, quantity, unitPrice) ==
  /\ asset[a].status = None /\ quantity * unitPrice <= MaxTotal
  /\ asset' = [asset EXCEPT ![a] =
       [NoAsset EXCEPT !.status = "IN_USE", !.quantity = quantity, !.updatedAt = 1,
                       !.unitPrice = unitPrice, !.totalAmount = quantity * unitPrice]]
  /\ life' = [life EXCEPT ![a] = <<[from |-> None, to |-> "IN_USE"]>>]
  /\ UNCHANGED <<form, moving>>

OpenForm(m, a) ==
  /\ asset[a].status # None
  /\ form' = [form EXCEPT ![m] = [asset |-> a, updatedAt |-> asset[a].updatedAt]]
  /\ UNCHANGED <<asset, life, moving>>

\* update: the fields that are sent replace the row's, and the total is
\* computed from both.
Update(m, changes) ==
  LET a == form[m].asset
      new == [f \in {"quantity", "unitPrice"} |->
                IF f \in DOMAIN changes THEN changes[f] ELSE asset[a][f]]
      total == new.quantity * new.unitPrice
  IN
  /\ a # None /\ asset[a].status # "LIQUIDATED"
  /\ asset[a].updatedAt = form[m].updatedAt
  /\ total <= MaxTotal /\ asset[a].updatedAt < MaxWrites
  /\ asset' = [asset EXCEPT ![a].quantity = new.quantity, ![a].unitPrice = new.unitPrice,
                            ![a].totalAmount = total, ![a].updatedAt = @ + 1]
  /\ form' = [form EXCEPT ![m] = NoForm]
  /\ UNCHANGED <<life, moving>>

\* transition up to its update.
ReadForTransition(m, a, to) ==
  /\ moving[m].asset = None /\ asset[a].status # None
  /\ to \in ALLOWED_TRANSITIONS[asset[a].status]
  /\ moving' = [moving EXCEPT ![m] = [asset |-> a, from |-> asset[a].status, to |-> to]]
  /\ UNCHANGED <<asset, life, form>>

\* Mutant: the row is written whatever became of its status.
AnyStatus(m) == TRUE
StatusUnchanged(m) == asset[moving[m].asset].status = moving[m].from
\* The update, the event and the commit.  A status that changed meanwhile
\* refuses the request.
Transition(m) ==
  LET a == moving[m].asset IN
  /\ a # None
  /\ IF StatusUnchanged(m)
     THEN /\ asset[a].updatedAt < MaxWrites
          /\ asset' = [asset EXCEPT ![a].status = moving[m].to, ![a].updatedAt = @ + 1,
                                    ![a].liquidated = moving[m].to = "LIQUIDATED"]
          /\ life' = [life EXCEPT ![a] = Append(@, [from |-> moving[m].from, to |-> moving[m].to])]
     ELSE UNCHANGED <<asset, life>>
  /\ moving' = [moving EXCEPT ![m] = NotMoving]
  /\ UNCHANGED form

Changes == [{"quantity"} -> Amounts] \cup [{"unitPrice"} -> Amounts]

Next ==
  \/ \E a \in Assets, quantity, unitPrice \in Amounts : Create(a, quantity, unitPrice)
  \/ \E m \in Managers, a \in Assets : OpenForm(m, a)
  \/ \E m \in Managers, changes \in Changes : Update(m, changes)
  \/ \E m \in Managers, a \in Assets, to \in EquipmentStatus : ReadForTransition(m, a, to)
  \/ \E m \in Managers : Transition(m)

Spec == Init /\ [][Next]_vars

-----------------------------------------------------------------------------
\* The events of an asset tell its life without a gap: each starts where the
\* one before ended, by a transition that is allowed, and the last ends in the
\* status of the row.  The total is that of the quantity and the price, from
\* whichever forms they came.
LifeIsTold ==
  /\ AssetTypeOK
  /\ \A a \in Assets :
       LET events == life[a] IN
       /\ events = <<>> <=> asset[a].status = None
       /\ events # <<>> => asset[a].status = events[Len(events)].to
       /\ \A n \in 2..Len(events) :
            /\ events[n].from = events[n - 1].to
            /\ events[n].to \in ALLOWED_TRANSITIONS[events[n].from]
       /\ asset[a].totalAmount = asset[a].quantity * asset[a].unitPrice
       /\ asset[a].liquidated <=> asset[a].status = "LIQUIDATED"

\* "Liquidated equipment is immutable", also for a form or a transition that
\* was begun before; and a form is saved only over the row it was filled from.
LiquidatedIsFinal ==
  \A a \in Assets : asset[a].status = "LIQUIDATED" => asset'[a] = asset[a]
=============================================================================
