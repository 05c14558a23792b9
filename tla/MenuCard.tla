------------------------------ MODULE MenuCard ------------------------------
(***************************************************************************)
(* The menu of a tenant: its categories                                    *)
(* (apps/api/src/menu-categories/menu-categories.service.ts) and its items *)
(* (menu-items/menu-items.service.ts).  A request checks what it read in   *)
(* one step and writes in a later one.  Neither table has a unique index   *)
(* on a name (schema.prisma:785-825), so nothing stands behind the checks; *)
(* only the writes of a category look again whether it is deleted.         *)
(*                                                                         *)
(* Names are equal when they differ by case only.  An item without a cost  *)
(* has the cost 0.  Display order, a category's active flag and the other  *)
(* columns play no part in the checks.                                     *)
(***************************************************************************)
EXTENDS Naturals, FiniteSets

CONSTANTS
    Categories, Items,  \* rows that exist or will be created
    Names,              \* names of categories, up to case
    Prices, Costs,
    Edits,              \* what an update of an item may name: some fields, with their values
    Staff,              \* managers, each with one request in flight
    Unborn              \* a row not created yet

ASSUME MenuAssumption ==
    /\ Prices \subseteq Nat /\ Costs \subseteq Nat
    /\ Categories \cap Items = {}
    /\ \A e \in Edits : \E row \in [cat : Categories, active : BOOLEAN, price : Prices, cost : Costs] :
          \A f \in DOMAIN e : f \in DOMAIN row /\ e[f] = row[f]

VARIABLES
    category,       \* MenuCategory
    item,           \* MenuItem
    request         \* of a manager: the request that has passed its checks

menuVars == <<category, item, request>>

-----------------------------------------------------------------------------
Category == [name : Names, deleted : BOOLEAN]

Item == [cat : Categories, active : BOOLEAN, price : Prices, cost : Costs, deleted : BOOLEAN]

ASSUME UnbornAssumption == Unborn \notin Category \cup Item

NoRequest == [kind |-> "none"]

\* since: history, the rows written since the checks.
CategoryRequest == [kind : {"name"}, of : Categories, name : Names,
                    since : SUBSET (Categories \cup Items)]
                   \cup [kind : {"remove"}, of : Categories, since : SUBSET (Categories \cup Items)]

\* What the row is written with.
ItemRequest == [kind : {"write"}, of : Items, with : Item \cup Edits \cup {[deleted |-> TRUE]},
                since : SUBSET (Categories \cup Items)]

MenuTypeOK ==
    /\ category \in [Categories -> Category \cup {Unborn}]
    /\ item \in [Items -> Item \cup {Unborn}]
    /\ request \in [Staff -> CategoryRequest \cup ItemRequest \cup {NoRequest}]
    /\ \A i \in Items : item[i] # Unborn => category[item[i].cat] # Unborn

MenuInit ==
    /\ category = [c \in Categories |-> Unborn]
    /\ item = [i \in Items |-> Unborn]
    /\ request = [m \in Staff |-> NoRequest]

-----------------------------------------------------------------------------
Live(rows, x) == rows[x] # Unborn /\ ~rows[x].deleted

ActiveItems(c) == {i \in Items : Live(item, i) /\ item[i].active /\ item[i].cat = c}

\* An id that no create in flight has taken.
Fresh(x) == \A m \in Staff : request[m] # NoRequest => request[m].of # x

Hold(m, r) ==
    /\ request[m] = NoRequest
    /\ request' = [request EXCEPT ![m] = r]
    /\ UNCHANGED <<category, item>>

\* The request is over, and the others in flight have missed its write.
Wrote(m, x) ==
    request' = [n \in Staff |->
                  IF n = m THEN NoRequest
                  ELSE IF request[n] = NoRequest THEN NoRequest
                  ELSE [request[n] EXCEPT !.since = @ \cup {x}]]

Refuse(m) == request' = [request EXCEPT ![m] = NoRequest]

-----------------------------------------------------------------------------
(* Categories *)

\* assertNameAvailable
NameAvailable(n, c) == ~\E d \in Categories \ {c} : Live(category, d) /\ category[d].name = n

BeginCreateCategory(m, c, n) ==
    /\ category[c] = Unborn /\ Fresh(c)
    /\ NameAvailable(n, c)
    /\ Hold(m, [kind |-> "name", of |-> c, name |-> n, since |-> {}])

BeginRename(m, c, n) ==
    /\ Live(category, c)
    /\ n # category[c].name => NameAvailable(n, c)
    /\ Hold(m, [kind |-> "name", of |-> c, name |-> n, since |-> {}])

\* A create inserts the row; an update writes the row where it is not deleted.
CommitName(m) ==
    /\ request[m].kind = "name"
    /\ LET c == request[m].of
       IN  IF category[c] = Unborn \/ ~category[c].deleted
           THEN /\ category' = [category EXCEPT ![c] = [name |-> request[m].name, deleted |-> FALSE]]
                /\ Wrote(m, c)
           ELSE Refuse(m) /\ UNCHANGED category
    /\ UNCHANGED item

MutRemovable(c) == Live(category, c)

\* remove counts the active items.
Removable(c) == ActiveItems(c) = {}

BeginRemoveCategory(m, c) ==
    /\ Live(category, c)
    /\ Removable(c)
    /\ Hold(m, [kind |-> "remove", of |-> c, since |-> {}])

CommitRemoveCategory(m) ==
    /\ request[m].kind = "remove"
    /\ LET c == request[m].of
       IN  IF category[c].deleted THEN Refuse(m) /\ UNCHANGED category
           ELSE category' = [category EXCEPT ![c].deleted = TRUE] /\ Wrote(m, c)
    /\ UNCHANGED item

-----------------------------------------------------------------------------
(* Items *)

MutWritten(row, with) ==
    [f \in DOMAIN row |-> IF f \in DOMAIN with THEN with[f] ELSE IF f = "cat" THEN Unborn ELSE row[f]]

\* The row once it is written with some fields; a create names them all.
Written(row, with) == [f \in DOMAIN row |-> IF f \in DOMAIN with THEN with[f] ELSE row[f]]

\* The price and the cost that the request names, or that it read, make sense together.
Sound(row, with) == Written(row, with).cost <= Written(row, with).price

\* verifyCategoryOwnership
CategoryOwned(c) == Live(category, c)

BeginCreateItem(m, i, row) ==
    /\ item[i] = Unborn /\ Fresh(i) /\ ~row.deleted
    /\ Sound(row, row)
    /\ CategoryOwned(row.cat)
    /\ Hold(m, [kind |-> "write", of |-> i, with |-> row, since |-> {}])

\* update looks neither at the category it names nor at the one the item is in.
BeginUpdateItem(m, i, with) ==
    /\ Live(item, i)
    /\ "cat" \in DOMAIN with => category[with.cat] # Unborn
    /\ Sound(item[i], with)
    /\ Hold(m, [kind |-> "write", of |-> i, with |-> with, since |-> {}])

BeginRemoveItem(m, i) ==
    /\ Live(item, i)
    /\ Hold(m, [kind |-> "write", of |-> i, with |-> [deleted |-> TRUE], since |-> {}])

\* A create, or an update where { id }: of an item that is deleted, too.
CommitItem(m) ==
    /\ request[m].kind = "write"
    /\ LET i == request[m].of
           row == IF item[i] = Unborn THEN request[m].with ELSE item[i]
       IN  /\ item' = [item EXCEPT ![i] = Written(row, request[m].with)]
           /\ Wrote(m, i)
    /\ UNCHANGED category

\* A manager's request fails before it writes.
AbandonRequest(m) ==
    /\ request[m] # NoRequest
    /\ Refuse(m)
    /\ UNCHANGED <<category, item>>

MenuNext ==
    \E m \in Staff :
        \/ CommitName(m) \/ CommitRemoveCategory(m) \/ CommitItem(m) \/ AbandonRequest(m)
        \/ \E c \in Categories :
              \/ BeginRemoveCategory(m, c)
              \/ \E n \in Names : BeginCreateCategory(m, c, n) \/ BeginRename(m, c, n)
        \/ \E i \in Items :
              \/ BeginRemoveItem(m, i)
              \/ \E row \in Item : BeginCreateItem(m, i, row)
              \/ \E with \in Edits : BeginUpdateItem(m, i, with)

MenuSpec == MenuInit /\ [][MenuNext]_menuVars

-----------------------------------------------------------------------------
(* Correctness *)

\* A request of the manager wrote its row.
Writes(m, x) ==
    request[m] # NoRequest /\ request[m].of = x /\ request'[m] = NoRequest
        /\ (IF x \in Categories THEN category[x] # category'[x] ELSE item[x] # item'[x])

\* menu-categories.service.ts:63-85, 109-132: the P2002 that both catch never comes, for lack of
\* an index.  Two categories in use get one name only by a request that another one, of either
\* category, overlaps.
NamesClashOnlyByRace ==
    [][\A m \in Staff, c \in Categories :
          Writes(m, c) /\ request[m].kind = "name" =>
              \A d \in Categories \ {c} :
                  Live(category, d) /\ category[d].name = category'[c].name
                      /\ (category[c] = Unborn \/ category[c].name # category'[c].name)
                  => request[m].since \cap {c, d} # {}]_menuVars

\* menu-categories.service.ts:172-195, error.menuCategory.hasActiveItems: a category that is
\* removed has no active item left, except one written after they were counted.
RemovedIsEmpty ==
    [][\A m \in Staff, c \in Categories :
          Writes(m, c) /\ request[m].kind = "remove" =>
              ActiveItems(c) \subseteq request[m].since]_menuVars

\* menu-items.service.ts:50-75: a new item joins a category in use, unless that was removed after
\* verifyCategoryOwnership, which create calls before the write and outside any transaction.
NewItemsHaveACategory ==
    [][\A m \in Staff, i \in Items :
          Writes(m, i) /\ item[i] = Unborn =>
              Live(category, item'[i].cat) \/ item'[i].cat \in request[m].since]_menuVars

\* menu-items.service.ts:93-108: an item costs no more than it sells for, whichever of the two is
\* set, unless two updates of it overlap, each checked against what it read.
SoldAboveCost ==
    [][\A m \in Staff, i \in Items :
          Writes(m, i) => item'[i].cost <= item'[i].price \/ i \in request[m].since
                          \/ (item[i] # Unborn /\ item[i].cost > item[i].price)]_menuVars

\* What each of the checks above is good for when requests overlap.
MenuChecksHold ==
    NamesClashOnlyByRace /\ RemovedIsEmpty /\ NewItemsHaveACategory /\ SoldAboveCost
=============================================================================
