------------------------------- MODULE Realm -------------------------------
(***************************************************************************)
(* The Realm file of Todoey as its two screens use it: one Realm instance  *)
(* on the main thread, written by realm.write { ... } and read through     *)
(* live Results.  External, but for the way RealmSwift wraps a write.      *)
(*                                                                         *)
(* A store is the set of Category objects and, for each category, its      *)
(* items.  The items of a deleted category stay in the file: realm.delete  *)
(* does not cascade.  Objects are numbered by a clock, which stands for    *)
(* their keys and for dateCreated.                                         *)
(***************************************************************************)
EXTENDS Naturals

CONSTANTS Titles,       \* what an item may be called, ordered as strings are
          MaxObjects    \* bound: objects ever made

ASSUME RealmAssumption == /\ Titles \subseteq Nat
                          /\ Titles # {}
                          /\ MaxObjects \in Nat

Keys == 1..MaxObjects
Items == [title: Titles, dateCreated: Keys]
Stores == [categories: SUBSET Keys, items: [Keys -> SUBSET Items]]

VARIABLES live,    \* the store this process sees
          disk,    \* the store a new process would see
          open,    \* a write transaction was left open by a failed commit
          clock    \* objects made so far

realmVars == <<live, disk, open, clock>>

RealmTypeOK == /\ live \in Stores
               /\ disk \in Stores
               /\ open \in BOOLEAN
               /\ clock \in 0..MaxObjects

RealmInit == /\ live = [categories |-> {}, items |-> [k \in Keys |-> {}]]
             /\ disk = live
             /\ open = FALSE
             /\ clock = 0

(* A mistake: a write joins the transaction it finds open. *)
CanAlwaysWrite == TRUE

(***************************************************************************)
(* beginWrite raises when a transaction is already open.                   *)
(***************************************************************************)
CanWrite == ~open

(***************************************************************************)
(* write: the block changes the live store, then the commit reaches the    *)
(* disk or throws.  The transaction of a commit that throws is neither     *)
(* rolled back nor closed: its changes stay visible to this process.       *)
(***************************************************************************)
Commit(store) == disk' = store /\ open' = FALSE
CommitFails == disk' = disk /\ open' = TRUE

Write(store) == /\ CanWrite
                /\ live' = store
                /\ Commit(store) \/ CommitFails

Reopen == /\ live' = disk
          /\ open' = FALSE
          /\ UNCHANGED <<disk, clock>>

(***************************************************************************)
(* The four blocks that Todoey passes to write.                            *)
(***************************************************************************)
WithCategory(key) == [live EXCEPT !.categories = @ \cup {key}]
WithoutCategory(key) == [live EXCEPT !.categories = @ \ {key}]
WithItem(category, item) == [live EXCEPT !.items[category] = @ \cup {item}]
WithoutItem(category, item) == [live EXCEPT !.items[category] = @ \ {item}]
=============================================================================
