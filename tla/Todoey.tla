------------------------------- MODULE Todoey -------------------------------
(***************************************************************************)
(* Todoey: a table of categories and, pushed over it, a table of one       *)
(* category's items with a search bar.  The tables keep the rows they were *)
(* last given; the Results behind them follow the Realm by themselves.     *)
(* Everything runs on the main thread; what interleaves is the user's      *)
(* gestures, failing commits and the death of the process.                 *)
(***************************************************************************)
EXTENDS Realm, Sequences, SequencesExt

CONSTANTS Texts,          \* what may be typed into the search bar
          NoText,         \* the empty text
          TextsIn,       \* TextsIn[title]: the texts the title contains
          MaxRelaunches   \* bound: how often the app is started again

ASSUME TodoeyAssumption == /\ NoText \notin Texts
                           /\ TextsIn \in [Titles -> SUBSET Texts]
                           /\ MaxRelaunches \in Nat

NoCategory == 0

VARIABLES app,               \* "Running", "Raised" (an uncaught exception), "Killed"
          selectedCategory,  \* the category on screen, NoCategory on the first one
          filters, byDate,   \* itemArray: the texts it is filtered by, its order
          searchText,        \* the text in the search bar
          categoryRows,      \* the rows the category table displays
          itemRows,          \* the rows the item table displays
          relaunches         \* bounded by MaxRelaunches

itemVars == <<selectedCategory, filters, byDate, searchText, itemRows>>
vars == <<realmVars, app, itemVars, categoryRows, relaunches>>

TypeOK == /\ RealmTypeOK
          /\ app \in {"Running", "Raised", "Killed"}
          /\ selectedCategory \in Keys \cup {NoCategory}
          /\ filters \subseteq Texts
          /\ byDate \in BOOLEAN
          /\ searchText \in Texts \cup {NoText}
          /\ categoryRows \in Seq(Keys)
          /\ itemRows \in Seq(Items)
          /\ relaunches \in 0..MaxRelaunches

(***************************************************************************)
(* categoryArray and itemArray: Results, evaluated whenever they are read. *)
(* Row n holds the object that n - 1 others come before.  Items are sorted *)
(* by title, the older first among equals, until a search sorts them by    *)
(* date, the newest first.                                                 *)
(***************************************************************************)
Sorted(S, Order) ==
    [n \in 1..Cardinality(S) |->
        CHOOSE x \in S : Cardinality({y \in S : <<y, x>> \in Order}) = n - 1]

ByKey == {p \in Keys \X Keys : p[1] < p[2]}
ByTitle == {p \in Items \X Items :
               \/ p[1].title < p[2].title
               \/ p[1].title = p[2].title /\ p[1].dateCreated < p[2].dateCreated}
ByDate == {p \in Items \X Items : p[1].dateCreated > p[2].dateCreated}

CategoryResults(store) == Sorted(store.categories, ByKey)

ItemResults(store, category, texts, dates) ==
    LET matching == {i \in store.items[category] : texts \subseteq TextsIn[i.title]}
    IN  Sorted(matching, IF dates THEN ByDate ELSE ByTitle)

itemArray == ItemResults(live, selectedCategory, filters, byDate)

OnCategories == app = "Running" /\ selectedCategory = NoCategory
OnItems == app = "Running" /\ selectedCategory # NoCategory

Init == /\ RealmInit
        /\ app = "Running"
        /\ selectedCategory = NoCategory
        /\ filters = {}
        /\ byDate = FALSE
        /\ searchText = NoText
        /\ categoryRows = <<>>
        /\ itemRows = <<>>
        /\ relaunches = 0

(***************************************************************************)
(* loadItems, for a screen just pushed or popped, or on an emptied search. *)
(***************************************************************************)
LoadItems(category) ==
    /\ selectedCategory' = category
    /\ filters' = {}
    /\ byDate' = FALSE
    /\ searchText' = NoText
    /\ itemRows' = IF category = NoCategory THEN <<>>
                   ELSE ItemResults(live, category, {}, FALSE)

Raise == /\ app' = "Raised"
         /\ UNCHANGED <<realmVars, itemVars, categoryRows, relaunches>>

-----------------------------------------------------------------------------
(***************************************************************************)
(* The category screen.                                                    *)
(***************************************************************************)
AddCategory ==
    /\ OnCategories
    /\ clock < MaxObjects
    /\ IF CanWrite
       THEN /\ Write(WithCategory(clock + 1))
            /\ clock' = clock + 1
            /\ categoryRows' = CategoryResults(live')
            /\ UNCHANGED <<app, itemVars, relaunches>>
       ELSE Raise

(***************************************************************************)
(* A swipe deletes the object at that index of the Results, and then the   *)
(* row.  UITableView raises unless exactly one row is gone.                *)
(***************************************************************************)
DeleteCategory(row) ==
    /\ OnCategories
    /\ IF CanWrite /\ row <= Len(CategoryResults(live))
       THEN /\ Write(WithoutCategory(CategoryResults(live)[row]))
            /\ IF Len(CategoryResults(live')) = Len(categoryRows) - 1
               THEN categoryRows' = RemoveAt(categoryRows, row) /\ UNCHANGED app
               ELSE app' = "Raised" /\ UNCHANGED categoryRows
            /\ UNCHANGED <<clock, itemVars, relaunches>>
       ELSE Raise

(***************************************************************************)
(* A tap pushes a new item screen.  Setting selectedCategory loads its     *)
(* items, and viewDidLoad loads them again.                                *)
(***************************************************************************)
SelectCategory(row) ==
    /\ OnCategories
    /\ IF row <= Len(CategoryResults(live))
       THEN /\ LoadItems(CategoryResults(live)[row])
            /\ UNCHANGED <<realmVars, app, categoryRows, relaunches>>
       ELSE Raise

-----------------------------------------------------------------------------
(***************************************************************************)
(* The item screen.                                                        *)
(***************************************************************************)
(* A mistake: the table is not reloaded. *)
AddItemUnseen(title) ==
    /\ OnItems
    /\ clock < MaxObjects
    /\ IF CanWrite
       THEN /\ Write(WithItem(selectedCategory,
                              [title |-> title, dateCreated |-> clock + 1]))
            /\ clock' = clock + 1
            /\ UNCHANGED <<app, itemVars, categoryRows, relaunches>>
       ELSE Raise

AddItem(title) ==
    /\ OnItems
    /\ clock < MaxObjects
    /\ IF CanWrite
       THEN /\ Write(WithItem(selectedCategory,
                              [title |-> title, dateCreated |-> clock + 1]))
            /\ clock' = clock + 1
            /\ itemRows' = ItemResults(live', selectedCategory, filters, byDate)
            /\ UNCHANGED <<app, selectedCategory, filters, byDate, searchText,
                           categoryRows, relaunches>>
       ELSE Raise

DeleteItem(row) ==
    /\ OnItems
    /\ IF CanWrite /\ row <= Len(itemArray)
       THEN /\ Write(WithoutItem(selectedCategory, itemArray[row]))
            /\ IF Len(ItemResults(live', selectedCategory, filters, byDate))
                    = Len(itemRows) - 1
               THEN itemRows' = RemoveAt(itemRows, row) /\ UNCHANGED app
               ELSE app' = "Raised" /\ UNCHANGED itemRows
            /\ UNCHANGED <<clock, selectedCategory, filters, byDate, searchText,
                           categoryRows, relaunches>>
       ELSE Raise

(* A mistake: only the first text filters. *)
SearchOnce(text) ==
    /\ OnItems
    /\ searchText' = text
    /\ filters' = IF filters = {} THEN {text} ELSE filters
    /\ byDate' = TRUE
    /\ itemRows' = ItemResults(live, selectedCategory, filters', byDate')
    /\ UNCHANGED <<realmVars, app, selectedCategory, categoryRows, relaunches>>

(* Another: each text filters the whole list. *)
SearchAfresh(text) ==
    /\ OnItems
    /\ searchText' = text
    /\ filters' = {text}
    /\ byDate' = TRUE
    /\ itemRows' = ItemResults(live, selectedCategory, filters', byDate')
    /\ UNCHANGED <<realmVars, app, selectedCategory, categoryRows, relaunches>>

(***************************************************************************)
(* Every change of the search text.  A text filters what the Results       *)
(* already are; only the empty text starts again from the whole list.      *)
(***************************************************************************)
Search(text) ==
    /\ OnItems
    /\ searchText' = text
    /\ filters' = filters \cup {text}
    /\ byDate' = TRUE
    /\ itemRows' = ItemResults(live, selectedCategory, filters', byDate')
    /\ UNCHANGED <<realmVars, app, selectedCategory, categoryRows, relaunches>>

(* A mistake: an empty text filters like any other. *)
EmptySearchFilters ==
    /\ OnItems
    /\ searchText # NoText
    /\ searchText' = NoText
    /\ filters' = filters \cup {NoText}
    /\ byDate' = TRUE
    /\ itemRows' = ItemResults(live, selectedCategory, filters', byDate')
    /\ UNCHANGED <<realmVars, app, selectedCategory, categoryRows, relaunches>>

(* Another: the Results are loaded again, but not the table. *)
EmptySearchUnseen ==
    /\ OnItems
    /\ searchText # NoText
    /\ searchText' = NoText
    /\ filters' = {}
    /\ byDate' = FALSE
    /\ UNCHANGED <<realmVars, app, selectedCategory, itemRows, categoryRows, relaunches>>

EmptySearch ==
    /\ OnItems
    /\ searchText # NoText
    /\ LoadItems(selectedCategory)
    /\ UNCHANGED <<realmVars, app, categoryRows, relaunches>>

Back == /\ OnItems
        /\ LoadItems(NoCategory)
        /\ UNCHANGED <<realmVars, app, categoryRows, relaunches>>

-----------------------------------------------------------------------------
Kill == /\ app = "Running"
        /\ app' = "Killed"
        /\ UNCHANGED <<realmVars, itemVars, categoryRows, relaunches>>

(***************************************************************************)
(* A new process opens the file and loadCategory fills the first table.    *)
(***************************************************************************)
Relaunch == /\ app # "Running"
            /\ relaunches < MaxRelaunches
            /\ relaunches' = relaunches + 1
            /\ app' = "Running"
            /\ Reopen
            /\ LoadItems(NoCategory)
            /\ categoryRows' = CategoryResults(live')

Next == \/ AddCategory
        \/ \E row \in DOMAIN categoryRows : DeleteCategory(row) \/ SelectCategory(row)
        \/ \E title \in Titles : AddItem(title)
        \/ \E row \in DOMAIN itemRows : DeleteItem(row)
        \/ \E text \in Texts : Search(text)
        \/ EmptySearch
        \/ Back
        \/ Kill
        \/ Relaunch

Spec == Init /\ [][Next]_vars

-----------------------------------------------------------------------------
(* Safety *)

(* Every handler leaves each table with the rows of its Results: the row that
   is swiped or tapped is the object that updateModel or prepare(for:) finds at
   its index, and deleteRows finds exactly one row gone. *)
RowsFollowResults ==
    app = "Running" =>
        /\ categoryRows = CategoryResults(live)
        /\ OnItems => itemRows = itemArray

(* No gesture ends in an exception, except a write that follows a failed commit:
   the do/catch of saveCheckedData, AddItem and updateModel only prints, and the
   next beginWrite finds the transaction still open. *)
RaisesOnlyAfterFailedCommit == app = "Raised" => open

(* While no commit has failed, what the tables show is what a new process would
   find: the categories, and items of the selected category, all of them when
   the search bar is empty. *)
ShownIsSaved ==
    app = "Running" /\ ~open =>
        /\ ToSet(categoryRows) = disk.categories
        /\ OnItems =>
             /\ selectedCategory \in disk.categories
             /\ ToSet(itemRows) \subseteq disk.items[selectedCategory]
             /\ searchText = NoText => ToSet(itemRows) = disk.items[selectedCategory]

(* What the table shows contains the text of the search bar, however the text
   was edited and whatever was added or deleted since. *)
SearchIsSound ==
    OnItems /\ searchText # NoText =>
        \A i \in ToSet(itemRows) : searchText \in TextsIn[i.title]

(* A keystroke filters the list it finds: it never brings a row back, not even
   the backspace that shortens the text.  Only emptying the bar does. *)
TypingOnlyNarrows ==
    [][app' = "Running" /\ selectedCategory' = selectedCategory
         /\ clock' = clock /\ searchText' # NoText
            => ToSet(itemRows') \subseteq ToSet(itemRows)]_vars

(* What was kept off the disk by a failed commit is never saved later, and what
   was deleted from the disk never returns: the only items a step saves are
   the ones it makes. *)
SavedOnlyWhenMade ==
    [][\A c \in Keys : \A i \in disk'.items[c] \ disk.items[c] : i.dateCreated > clock]_vars
=============================================================================
