---------------------------------- MODULE Orm ----------------------------------
(***************************************************************************)
(* CrudRepository (db/repository.h) and LazyCollection (db/lazy.h): units  *)
(* of work load, change, save and delete one entity with a @Version, a     *)
(* @OneToMany collection and a @ManyToMany collection, each in one         *)
(* transaction or statement by statement.                                  *)
(*                                                                         *)
(* The database is external, as SQLite has it: a statement is atomic, what *)
(* is not committed is not seen, and one transaction writes at a time.     *)
(* PostgreSQL (READ COMMITTED) agrees for saves: an INSERT or UPDATE waits *)
(* for the transaction that holds the row and then looks at what it left.  *)
(* There delete_by_id could delete join rows while a save holds the row;   *)
(* that is not modelled.                                                   *)
(* The related entities have keys that the application assigns; what save  *)
(* does to the children, or to the related entities, is one step.          *)
(***************************************************************************)
EXTENDS Integers, FiniteSets, TLC

CONSTANTS Workers,        \* units of work
          Children, Tags, \* identifiers of the related entities (not 0)
          Cascades,       \* cascade settings of the associations: sets of "persist", "merge", "remove"
          Ids,            \* "auto" (AutoIncrement), or "assigned" by the application
          MaxSaves        \* bound of the model: units of work over a run

VARIABLES tx,             \* the units of work are transactions
          cascade, orphan, ids,   \* annotations of the entity
          db,             \* the committed rows
          draft, holder,  \* what the transaction that holds the row lock sees
          work,           \* the units of work
          saves,          \* units of work begun
          before,         \* history: the rows a unit of work's writes started from
          lost            \* history: an update overwrote what it had not read

vars == <<tx, cascade, orphan, ids, db, draft, holder, work, saves, before, lost>>
config == <<tx, cascade, orphan, ids>>

None == "none"
Unloaded == {0}           \* a LazyCollection whose get() was never called
(* The rows of the entity: its own, its children's, its join rows (tags)   *)
(* and the rows of related entities (known).                               *)
NoRow == [exists |-> FALSE, version |-> 0, stamp |-> 0, children |-> {}, tags |-> {}, known |-> {}]
NewEntity == [id |-> 0, version |-> 0, stamp |-> 0, children |-> {}, tags |-> {}]
Idle == [pc |-> "idle", entity |-> NewEntity, new |-> FALSE]

Init ==
  /\ tx \in BOOLEAN /\ cascade \in Cascades /\ orphan \in BOOLEAN /\ ids \in Ids
  /\ db \in {NoRow, [exists |-> TRUE, version |-> 1, stamp |-> 1, children |-> Children, tags |-> Tags, known |-> Tags]}
  /\ draft = NoRow /\ holder = None
  /\ work = [w \in Workers |-> Idle] /\ saves = 0
  /\ before = [w \in Workers |-> NoRow] /\ lost = FALSE

-----------------------------------------------------------------------------
(* The database as a unit of work sees and changes it.                     *)
Sees(w) == IF holder = w THEN draft ELSE db
Mine(w) == ~tx \/ holder = w
Writes(w, row) == IF tx THEN draft' = row /\ UNCHANGED db ELSE db' = row /\ UNCHANGED draft
Goto(w, pc) == work' = [work EXCEPT ![w].pc = pc]
Ends(w) ==
  /\ work' = [work EXCEPT ![w] = Idle] /\ before' = [before EXCEPT ![w] = NoRow]
  /\ holder' = IF holder = w THEN None ELSE holder
  /\ draft' = IF holder = w THEN NoRow ELSE draft

(* find_by_id; the collections are lazy.  get() loads once: what it reads  *)
(* is what the database holds then.                                        *)
Find(w) ==
  /\ work[w].pc = "idle" /\ saves < MaxSaves /\ db.exists
  /\ saves' = saves + 1
  /\ work' = [work EXCEPT ![w] = [pc |-> "loaded", new |-> FALSE,
       entity |-> [id |-> 1, version |-> db.version, stamp |-> db.stamp, children |-> Unloaded, tags |-> Unloaded]]]
  /\ UNCHANGED <<config, db, draft, holder, before, lost>>
Load(w) ==
  /\ work[w].pc = "loaded"
  /\ \/ work[w].entity.children = Unloaded /\ work' = [work EXCEPT ![w].entity.children = db.children]
     \/ work[w].entity.tags = Unloaded /\ work' = [work EXCEPT ![w].entity.tags = db.tags]
  /\ UNCHANGED <<config, db, draft, holder, saves, before, lost>>
Change(w) ==
  /\ work[w].pc = "loaded"
  /\ \/ work[w].entity.children # Unloaded /\ \E c \in SUBSET Children : work' = [work EXCEPT ![w].entity.children = c]
     \/ work[w].entity.tags # Unloaded /\ \E t \in SUBSET Tags : work' = [work EXCEPT ![w].entity.tags = t]
  /\ UNCHANGED <<config, db, draft, holder, saves, before, lost>>
(* A new entity.  A generated key is never that of an earlier row.         *)
Create(w) ==
  /\ work[w].pc = "idle" /\ saves < MaxSaves /\ (ids = "auto" => saves = 0 /\ ~db.exists)
  /\ saves' = saves + 1
  /\ \E c \in SUBSET Children :
       work' = [work EXCEPT ![w] = [pc |-> "loaded", new |-> FALSE,
         entity |-> [id |-> IF ids = "auto" THEN 0 ELSE 1, version |-> 0, stamp |-> 0, children |-> c, tags |-> Tags]]]
  /\ UNCHANGED <<config, db, draft, holder, before, lost>>

-----------------------------------------------------------------------------
(* save(), step 1: insert or update?  A generated id tells; otherwise      *)
(* exists_by_id asks the database.                                         *)
IsNew(w) == IF ids = "auto" THEN work[w].entity.id = 0 ELSE ~Sees(w).exists
Save(w) ==
  /\ work[w].pc = "loaded"
  /\ work' = [work EXCEPT ![w].pc = "write", ![w].new = IsNew(w)]
  /\ UNCHANGED <<config, db, draft, holder, saves, before, lost>>

(* Throws: the transaction, if there is one, is rolled back.               *)
Throws(w) == Ends(w) /\ UNCHANGED <<config, db, saves, lost>>

(* Step 2a: INSERT with version 1.  A row with that key is an error.       *)
Insert(w) ==
  /\ work[w].pc = "write" /\ work[w].new /\ holder = None
  /\ IF db.exists THEN Throws(w)
     ELSE /\ before' = [before EXCEPT ![w] = db]
          /\ Writes(w, [db EXCEPT !.exists = TRUE, !.version = 1, !.stamp = @ + 1])
          /\ holder' = IF tx THEN w ELSE None
          /\ work' = [work EXCEPT ![w].pc = "children", ![w].entity.id = 1, ![w].entity.version = 1]
          /\ UNCHANGED <<config, saves, lost>>

(* Mutant: the version is not part of the WHERE clause.                    *)
MatchesId(row, e) == row.exists
(* Step 2b: UPDATE ... WHERE id = ? AND version = ?; no row, no save.      *)
Matches(row, e) == row.exists /\ row.version = e.version
Update(w) ==
  LET e == work[w].entity
  IN /\ work[w].pc = "write" /\ ~work[w].new /\ holder = None
     /\ IF ~Matches(db, e) THEN Throws(w)      \* OptimisticLockException
        ELSE /\ before' = [before EXCEPT ![w] = db]
             /\ Writes(w, [db EXCEPT !.version = e.version + 1, !.stamp = @ + 1])
             /\ holder' = IF tx THEN w ELSE None
             /\ work' = [work EXCEPT ![w].pc = "children", ![w].entity.version = e.version + 1]
             /\ lost' = (lost \/ db.stamp # e.stamp)
             /\ UNCHANGED <<config, saves>>

(* save_one_to_many_association: children are saved when the cascade asks  *)
(* for it, others go when orphan_removal does; nothing happens to a        *)
(* collection that was never loaded.                                       *)
Cascaded(w) == IF work[w].new THEN "persist" \in cascade ELSE "merge" \in cascade
KeptChildren(w, row) ==
  LET c == work[w].entity.children
      saved == IF c # Unloaded /\ Cascaded(w) THEN row.children \cup c ELSE row.children
  IN IF orphan /\ c # Unloaded THEN saved \cap c ELSE saved
SaveChildren(w) ==
  /\ work[w].pc = "children" /\ Mine(w)
  /\ Writes(w, [Sees(w) EXCEPT !.children = KeptChildren(w, Sees(w))])
  /\ Goto(w, "related")
  /\ UNCHANGED <<config, holder, saves, before, lost>>

(* save_many_to_many_association, of a collection that was loaded: the     *)
(* related entities are saved when the cascade asks for it; the join rows  *)
(* are deleted, then inserted.                                             *)
SaveRelated(w) ==
  LET t == work[w].entity.tags
  IN /\ work[w].pc = "related" /\ Mine(w)
     /\ IF t # Unloaded /\ Cascaded(w) THEN Writes(w, [Sees(w) EXCEPT !.known = @ \cup t])
        ELSE UNCHANGED <<db, draft>>
     /\ Goto(w, "unlink")
     /\ UNCHANGED <<config, holder, saves, before, lost>>
Unlink(w) ==
  /\ work[w].pc = "unlink" /\ Mine(w)
  /\ IF work[w].entity.tags = Unloaded THEN UNCHANGED <<db, draft>>
     ELSE Writes(w, [Sees(w) EXCEPT !.tags = {}])
  /\ Goto(w, "link")
  /\ UNCHANGED <<config, holder, saves, before, lost>>
Link(w) ==
  /\ work[w].pc = "link" /\ Mine(w)
  /\ IF work[w].entity.tags = Unloaded THEN UNCHANGED <<db, draft>>
     ELSE Writes(w, [Sees(w) EXCEPT !.tags = @ \cup work[w].entity.tags])
  /\ Goto(w, "saved")
  /\ UNCHANGED <<config, holder, saves, before, lost>>

(* The unit of work ends: commit, or the caller's transaction fails.       *)
Finish(w) ==
  /\ work[w].pc \in {"saved", "deleted"}
  /\ IF tx THEN db' = draft ELSE UNCHANGED db
  /\ Ends(w)
  /\ UNCHANGED <<config, saves, lost>>
Fails(w) == work[w].pc # "idle" /\ Throws(w)

-----------------------------------------------------------------------------
(* delete_by_id: the associations, then the row; the version is not asked. *)
DeleteAssociations(w) ==
  /\ work[w].pc = "loaded" /\ work[w].entity.id = 1 /\ holder = None
  /\ before' = [before EXCEPT ![w] = db]
  /\ Writes(w, [db EXCEPT !.children = IF "remove" \in cascade THEN {} ELSE @, !.tags = {}])
  /\ holder' = IF tx THEN w ELSE None
  /\ Goto(w, "delete")
  /\ UNCHANGED <<config, saves, lost>>
DeleteRow(w) ==
  /\ work[w].pc = "delete" /\ Mine(w)
  /\ Writes(w, [Sees(w) EXCEPT !.exists = FALSE, !.version = 0])
  /\ Goto(w, "deleted")
  /\ UNCHANGED <<config, holder, saves, before, lost>>

Next == \E w \in Workers :
  \/ Find(w) \/ Load(w) \/ Change(w) \/ Create(w) \/ Save(w) \/ Insert(w) \/ Update(w)
  \/ SaveChildren(w) \/ SaveRelated(w) \/ Unlink(w) \/ Link(w) \/ Finish(w) \/ Fails(w)
  \/ DeleteAssociations(w) \/ DeleteRow(w)
Spec == Init /\ [][Next]_vars

-----------------------------------------------------------------------------
(* An update succeeds only on the row its entity was loaded from: what     *)
(* another unit of work stored since then is never overwritten.  (An       *)
(* assigned key may be deleted and inserted again, at version 1.)          *)
NoLostUpdate == ids = "auto" => ~lost

(* What the associations should be after a save.                           *)
Wanted(old, loaded) == IF loaded = Unloaded THEN old ELSE loaded
SavedWhole(w) ==
  LET e == work[w].entity
      old == before[w].children
  IN /\ draft.tags = Wanted(before[w].tags, e.tags)
     /\ e.tags # Unloaded /\ Cascaded(w) => draft.tags \subseteq draft.known
     /\ before[w].known \subseteq draft.known
     /\ e.children = Unloaded => draft.children = old
     /\ e.children # Unloaded /\ orphan => draft.children \subseteq e.children
     /\ e.children # Unloaded /\ Cascaded(w) => e.children \subseteq draft.children
     /\ ~orphan => old \subseteq draft.children

(* In a transaction a save leaves the associations as the entity has them, *)
(* does not touch a collection that was never loaded and, when it          *)
(* cascades, links only related entities that are stored; a deleted entity *)
(* leaves no join rows and, when removal cascades, no children behind.     *)
OrmSound ==
  /\ NoLostUpdate
  /\ tx => \A w \in Workers : work[w].pc = "saved" => holder = w /\ SavedWhole(w)
  /\ tx /\ ~db.exists => db.tags = {} /\ ("remove" \in cascade => db.children = {})
=============================================================================
