----------------------------- MODULE Catalogue -----------------------------
(***************************************************************************)
(* What the two tables of the businesses service promise: a meal belongs   *)
(* to a business that exists, a business takes its meals with it, and no   *)
(* id is given twice.                                                      *)
(***************************************************************************)
CONSTANTS BusinessId, MealId, Text, NoRow

VARIABLES
  shop,       \* shop[b]: what is known of business b, or NoRow
  menu,       \* menu[m]: the business meal m belongs to, or NoRow
  used        \* ids that were given so far: [business |-> .., meal |-> ..]

catalogueVars == <<shop, menu, used>>

(* The tables outlive the service: it may find any rows that fit together. *)
CatalogueInit ==
  /\ shop \in [BusinessId -> Text \union {NoRow}]
  /\ menu \in [MealId -> BusinessId \union {NoRow}]
  /\ used \in [business : SUBSET BusinessId, meal : SUBSET MealId]
  /\ \A m \in MealId : menu[m] # NoRow => shop[menu[m]] # NoRow /\ m \in used.meal
  /\ \A b \in BusinessId : shop[b] # NoRow => b \in used.business

Open(b, t) ==
  /\ b \notin used.business
  /\ shop' = [shop EXCEPT ![b] = t]
  /\ used' = [used EXCEPT !.business = @ \union {b}]
  /\ UNCHANGED menu

Change(b, t) ==
  /\ shop[b] # NoRow
  /\ shop' = [shop EXCEPT ![b] = t]
  /\ UNCHANGED <<menu, used>>

Close(b) ==
  /\ shop[b] # NoRow
  /\ shop' = [shop EXCEPT ![b] = NoRow]
  /\ menu' = [m \in MealId |-> IF menu[m] = b THEN NoRow ELSE menu[m]]
  /\ UNCHANGED used

Offer(m, b) ==
  /\ shop[b] # NoRow
  /\ m \notin used.meal
  /\ menu' = [menu EXCEPT ![m] = b]
  /\ used' = [used EXCEPT !.meal = @ \union {m}]
  /\ UNCHANGED shop

(* A refused insert has drawn an id all the same.                          *)
Waste(m) ==
  /\ m \notin used.meal
  /\ used' = [used EXCEPT !.meal = @ \union {m}]
  /\ UNCHANGED <<shop, menu>>

Withdraw(m) ==
  /\ menu[m] # NoRow
  /\ menu' = [menu EXCEPT ![m] = NoRow]
  /\ UNCHANGED <<shop, used>>

CatalogueNext ==
  \/ \E b \in BusinessId :
       Close(b) \/ \E t \in Text : Open(b, t) \/ Change(b, t)
  \/ \E m \in MealId :
       Withdraw(m) \/ Waste(m) \/ \E b \in BusinessId : Offer(m, b)

CatalogueSpec == CatalogueInit /\ [][CatalogueNext]_catalogueVars
=============================================================================
