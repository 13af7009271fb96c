------------------------------ MODULE JossOrm ------------------------------
(***************************************************************************)
(* Transactions and models of GranDB (src/pkg/core/database.go,            *)
(* database_insert.go, database_update.go, model.go, model_pivot.go).      *)
(*                                                                         *)
(* A runtime keeps the transaction it is in (activeTx), and every statement*)
(* looks it up there.  transaction() always owns the transaction it runs   *)
(* its callback in; insertMany, a large upsert and the changes of a pivot  *)
(* table open one only when there is none.  Failures are panics, which     *)
(* unwind to a try of the script: inside the callback or outside of it.    *)
(* A model instance remembers the values it read or wrote last, and saves  *)
(* only what differs from them.                                            *)
(*                                                                         *)
(* The database holds one row of a model with softDeletes and a table of   *)
(* numbered rows that the operations in batches write.  It is external: a  *)
(* transaction reads its own writes over what is committed, and a statement*)
(* on a row that another transaction has written waits or fails.  Any      *)
(* statement, begin or commit may fail.                                    *)
(***************************************************************************)
EXTENDS Naturals, Sequences, FiniteSets

CONSTANTS
    Runtimes,   \* the runtimes: requests, tasks, commands
    Batches,    \* the rows that insertMany, upsert and sync write
    Vals,       \* values of a column
    Absent,     \* no row
    Unset,      \* a row that a transaction has not written
    MaxSteps    \* bound: operations of the scripts

Columns == {"a", "b"}
Row == [a : Vals, b : Vals, gone : BOOLEAN]

ASSUME OrmAssumption ==
    /\ Batches \subseteq Nat /\ IsFiniteSet(Batches) /\ Vals # {} /\ MaxSteps \in Nat
    /\ Absent # Unset /\ {Absent, Unset} \cap Row = {}

VARIABLES
    committed,  \* what is committed: the model's row and the numbered rows
    active,     \* activeTx of each runtime is set
    tx,         \* the transaction each runtime opened, in the database
    frames,     \* the operations each runtime is inside of, outermost first
    inst,       \* the model instance of each runtime's script
    steps,      \* operations left
    who,        \* who took the last step, and what became of its operation
    issued,     \* history: what was written since the operation that owns began
    mine,       \* history: columns the script assigned since it read or saved
    sure        \* history: nothing happened that an instance cannot see

vars == <<committed, active, tx, frames, inst, steps, who, issued, mine, sure>>

Writes == [row : Row \cup {Absent, Unset}, put : SUBSET Batches, drop : SUBSET Batches]
NoWrites == [row |-> Unset, put |-> {}, drop |-> {}]

(* The rows w leaves of the rows d. *)
Install(d, w) ==
    [row  |-> IF w.row = Unset THEN d.row ELSE w.row,
     many |-> (d.many \cup w.put) \ w.drop]

(* What a runtime reads: databaseExecutor takes activeTx when it is set. *)
View(r) == IF active[r] THEN Install(committed, tx[r].writes) ELSE committed

Owns(r) == \E k \in DOMAIN frames[r] : frames[r][k].owns

NoInstance == [exists |-> FALSE, deleted |-> FALSE, key |-> FALSE, held |-> FALSE,
               orig |-> [a |-> CHOOSE v \in Vals : TRUE, b |-> CHOOSE v \in Vals : TRUE, gone |-> FALSE],
               cur  |-> [a |-> CHOOSE v \in Vals : TRUE, b |-> CHOOSE v \in Vals : TRUE, gone |-> FALSE]]

Init ==
    /\ committed \in [row : {Absent} \cup {[a |-> v, b |-> v, gone |-> FALSE] : v \in Vals}, many : {{}}]
    /\ active = [r \in Runtimes |-> FALSE]
    /\ tx = [r \in Runtimes |-> [open |-> FALSE, writes |-> NoWrites]]
    /\ frames = [r \in Runtimes |-> << >>]
    /\ inst = [r \in Runtimes |-> NoInstance]
    /\ steps = MaxSteps
    /\ who \in [r : Runtimes, did : {"step"}]
    /\ issued = [r \in Runtimes |-> NoWrites]
    /\ mine = [r \in Runtimes |-> {}]
    /\ sure = [r \in Runtimes |-> FALSE]

Did(r, what) == who' = [r |-> r, did |-> what]

-----------------------------------------------------------------------------
(* Statements.  A write w of the runtime r goes to its transaction when it is *)
(* in one, and is committed at once otherwise.                                *)

Merge(old, w) ==
    [row |-> IF w.row = Unset THEN old.row ELSE w.row,
     put |-> (old.put \ w.drop) \cup w.put, drop |-> (old.drop \ w.put) \cup w.drop]

(* No other transaction has written the same row. *)
Writable(r, w) ==
    \A s \in Runtimes \ {r} :
       LET other == tx[s].writes
       IN  /\ w.row = Unset \/ other.row = Unset
           /\ (w.put \cup w.drop) \cap (other.put \cup other.drop) = {}

(* MUTANT: statements always use the connection, not the transaction. *)
ExecOutside(r, w) ==
    /\ Writable(r, w)
    /\ issued' = [issued EXCEPT ![r] = IF Owns(r) THEN Merge(@, w) ELSE NoWrites]
    /\ committed' = Install(committed, w) /\ UNCHANGED tx

Exec(r, w) ==
    /\ Writable(r, w)
    /\ issued' = [issued EXCEPT ![r] = IF Owns(r) THEN Merge(@, w) ELSE NoWrites]
    /\ IF active[r]
       THEN /\ tx' = [tx EXCEPT ![r] = [open |-> @.open, writes |-> Merge(@.writes, w)]]
            /\ UNCHANGED committed
       ELSE committed' = Install(committed, w) /\ UNCHANGED tx

(* The runtimes whose view of the row a step of r changed lose track of it. *)
Noticed(r, own) ==
    sure' = [s \in Runtimes |->
               IF s = r THEN own
               ELSE sure[s] /\ (active[s] => tx[s].writes.row # Unset \/ committed'.row = committed.row)
                            /\ (~active[s] => committed'.row = committed.row)]

(* MUTANT: the frame that owns the transaction leaves activeTx set. *)
UnwindKeepsHandle(r, d) ==
    LET rolled == \E k \in DOMAIN frames[r] : k > d /\ frames[r][k].owns
    IN  /\ frames' = [frames EXCEPT ![r] = SubSeq(@, 1, d)]
        /\ tx' = IF rolled THEN [tx EXCEPT ![r] = [open |-> FALSE, writes |-> NoWrites]] ELSE tx
        /\ issued' = IF rolled THEN [issued EXCEPT ![r] = NoWrites] ELSE issued
        /\ Did(r, "step")
        /\ UNCHANGED <<committed, active, sure>>

(* A panic unwinds to the try that encloses the first d frames.  Each frame it *)
(* leaves that owns the transaction rolls it back and clears activeTx.         *)
Unwind(r, d) ==
    LET rolled == \E k \in DOMAIN frames[r] : k > d /\ frames[r][k].owns
    IN  /\ frames' = [frames EXCEPT ![r] = SubSeq(@, 1, d)]
        /\ active' = [active EXCEPT ![r] = @ /\ ~rolled]
        /\ tx' = IF rolled THEN [tx EXCEPT ![r] = [open |-> FALSE, writes |-> NoWrites]] ELSE tx
        /\ issued' = IF rolled THEN [issued EXCEPT ![r] = NoWrites] ELSE issued
        /\ sure' = [sure EXCEPT ![r] = @ /\ ~(rolled /\ tx[r].writes.row # Unset)]
        /\ Did(r, IF rolled THEN "raised" ELSE "step")
        /\ UNCHANGED committed

Fails(r) ==
    \E d \in {0} \cup {k \in DOMAIN frames[r] : frames[r][k].kind = "transaction"} : Unwind(r, d)

(* The script of a runtime is running, and does one more thing. *)
Script(r) ==
    /\ steps > 0 /\ steps' = steps - 1
    /\ frames[r] # << >> => frames[r][Len(frames[r])].kind = "transaction"

-----------------------------------------------------------------------------
(* Operations that open a transaction. *)

Open(r, frame) ==
    /\ frames' = [frames EXCEPT ![r] = Append(@, frame)]
    /\ IF frame.owns
       THEN /\ active' = [active EXCEPT ![r] = TRUE]
            /\ tx' = [tx EXCEPT ![r] = [open |-> TRUE, writes |-> NoWrites]]
       ELSE UNCHANGED <<active, tx>>
    /\ Did(r, "step")
    /\ UNCHANGED <<committed, issued, sure>>

(* transaction(callback): refused inside another one, or when begin fails. *)
Transaction(r) ==
    /\ Script(r)
    /\ \/ /\ ~active[r]
          /\ Open(r, [kind |-> "transaction", owns |-> TRUE, left |-> << >>])
       \/ Fails(r)
    /\ UNCHANGED <<inst, mine>>

Put(S) == [NoWrites EXCEPT !.put = S]
Drop(S) == [NoWrites EXCEPT !.drop = S]
Each(S) == {s \in [1 .. Cardinality(S) -> S] : \A j, k \in DOMAIN s : j < k => s[j] < s[k]}

(* insertMany and upsert: one statement for each batch.  An upsert that fits *)
(* one batch opens no transaction of its own.                                *)
InsertMany(r) ==
    /\ Script(r)
    /\ \/ \E S \in SUBSET Batches \ {{}}, small \in BOOLEAN :
             \E s \in Each(S) :
                /\ small => Len(s) = 1
                /\ Open(r, [kind |-> "batches", owns |-> ~active[r] /\ ~small,
                         left |-> [k \in DOMAIN s |-> Put({s[k]})]])
       \/ Fails(r)
    /\ UNCHANGED <<inst, mine>>

(* sync: the rows wanted and missing are attached one by one, then those that *)
(* are not wanted are detached together.                                      *)
Sync(r) ==
    /\ Script(r)
    /\ \/ \E wanted \in SUBSET Batches :
             \E s \in Each(wanted \ View(r).many) :
                Open(r, [kind |-> "batches", owns |-> ~active[r],
                         left |-> [k \in DOMAIN s |-> Put({s[k]})]
                                  \o (IF View(r).many \subseteq wanted THEN << >>
                                      ELSE <<Drop(View(r).many \ wanted)>>)])
       \/ Fails(r)
    /\ UNCHANGED <<inst, mine>>

Batch(r) ==
    /\ frames[r] # << >>
    /\ LET top == frames[r][Len(frames[r])]
       IN  /\ top.left # << >>
           /\ \/ /\ Head(top.left).put \cap View(r).many = {}
                 /\ Exec(r, Head(top.left))
                 /\ frames' = [frames EXCEPT ![r] = [@ EXCEPT ![Len(@)] = [top EXCEPT !.left = Tail(@)]]]
                 /\ Did(r, "step")
                 /\ UNCHANGED <<active, sure>>
              \/ Fails(r)
    /\ UNCHANGED <<inst, steps, mine>>

(* The operation on top is over: who owns the transaction commits it and      *)
(* clears activeTx; a commit that fails is a rollback and a panic.            *)
Close(r) ==
    /\ frames[r] # << >>
    /\ LET top == frames[r][Len(frames[r])]
       IN  /\ top.left = << >>
           /\ \/ /\ frames' = [frames EXCEPT ![r] = SubSeq(@, 1, Len(@) - 1)]
                 /\ IF top.owns
                    THEN /\ committed' = Install(committed, tx[r].writes)
                         /\ tx' = [tx EXCEPT ![r] = [open |-> FALSE, writes |-> NoWrites]]
                         /\ active' = [active EXCEPT ![r] = FALSE]
                         /\ issued' = [issued EXCEPT ![r] = NoWrites]
                         /\ Did(r, "returned")
                    ELSE UNCHANGED <<committed, tx, active, issued>> /\ Did(r, "step")
                 /\ Noticed(r, sure[r])
              \/ Fails(r)
    /\ UNCHANGED <<inst, steps, mine>>

(* The script raises, or its execution is cancelled. *)
Raise(r) ==
    /\ frames[r] # << >> /\ Script(r)
    /\ Fails(r)
    /\ UNCHANGED <<inst, mine>>

-----------------------------------------------------------------------------
(* Models. *)

(* An operation of a model: its statement, and then its hooks.  A hook that *)
(* raises after the statement leaves the instance as the statement made it. *)
Does(r, w, i, own, what) ==
    /\ Exec(r, w)
    /\ inst' = [inst EXCEPT ![r] = i]
    /\ Did(r, what)
    /\ Noticed(r, own)
    /\ UNCHANGED <<active, frames>>

(* The statement or a hook before it raised. *)
Gives(r) == Fails(r) /\ UNCHANGED <<inst, mine>>

Visible(r) == View(r).row # Absent /\ ~View(r).row.gone
ToRow(row) == [NoWrites EXCEPT !.row = row]
Dirty(i) == {c \in Columns : i.cur[c] # i.orig[c]}
Synced(i) == [i EXCEPT !.orig = i.cur]

(* find, first, get of the model; with trashed rows too. *)
Load(r, trashed) ==
    /\ Script(r)
    /\ View(r).row # Absent /\ (trashed \/ Visible(r))
    /\ inst' = [inst EXCEPT ![r] = [exists |-> TRUE, deleted |-> FALSE, key |-> TRUE, held |-> TRUE,
                                    orig |-> View(r).row, cur |-> View(r).row]]
    /\ mine' = [mine EXCEPT ![r] = {}]
    /\ sure' = [sure EXCEPT ![r] = TRUE]
    /\ Did(r, "step")
    /\ UNCHANGED <<committed, active, tx, frames, issued>>

New(r) ==
    /\ Script(r) /\ ~inst[r].held
    /\ inst' = [inst EXCEPT ![r] = [NoInstance EXCEPT !.held = TRUE]]
    /\ mine' = [mine EXCEPT ![r] = {}]
    /\ Did(r, "step")
    /\ UNCHANGED <<committed, active, tx, frames, issued, sure>>

Assign(r) ==
    /\ Script(r) /\ inst[r].held
    /\ \E c \in Columns, v \in Vals :
          /\ v # inst[r].cur[c]
          /\ inst' = [inst EXCEPT ![r].cur[c] = v]
          /\ mine' = [mine EXCEPT ![r] = @ \cup {c}]
    /\ Did(r, "step")
    /\ UNCHANGED <<committed, active, tx, frames, issued, sure>>

(* MUTANT: an update writes every column of the instance. *)
UpdatedWhole(i, row) == [i.cur EXCEPT !.gone = row.gone]

(* UPDATE with the changed columns only. *)
Updated(i, row) == [row EXCEPT !.a = IF "a" \in Dirty(i) THEN i.cur.a ELSE @,
                               !.b = IF "b" \in Dirty(i) THEN i.cur.b ELSE @]

(* The instance after its saving and updating hooks, which may assign too. *)
Hooked(i) == {i} \cup {[i EXCEPT !.cur[c] = v] : c \in Columns, v \in Vals}

(* save of an instance that exists.  The changes are taken before the hooks  *)
(* run, the values remembered after them; the update asks for a live row, and *)
(* one that matches no row is a success.  A hook that returns false stops it. *)
SaveExisting(r) ==
    /\ Script(r) /\ inst[r].exists /\ ~inst[r].deleted /\ Dirty(inst[r]) # {}
    /\ \/ /\ \E i \in Hooked(inst[r]) :
                Does(r, IF Visible(r) THEN ToRow(Updated(inst[r], View(r).row)) ELSE NoWrites,
                     Synced(i), sure[r] /\ Visible(r) /\ i = inst[r], "saved")
          /\ mine' = [mine EXCEPT ![r] = {}]
       \/ Gives(r)

(* save of a new instance inserts its row; there is one row in the model. *)
SaveNew(r) ==
    /\ Script(r) /\ inst[r].held /\ ~inst[r].exists /\ ~inst[r].deleted
    /\ \/ /\ View(r).row = Absent
          /\ Does(r, ToRow([inst[r].cur EXCEPT !.gone = FALSE]),
                  [Synced(inst[r]) EXCEPT !.exists = TRUE, !.key = TRUE], TRUE, "step")
          /\ mine' = [mine EXCEPT ![r] = {}]
       \/ Gives(r)

(* delete marks the row, whether it is marked already or not there. *)
DeleteModel(r) ==
    /\ Script(r) /\ inst[r].exists /\ ~inst[r].deleted
    /\ \/ /\ Does(r, IF View(r).row = Absent THEN NoWrites ELSE ToRow([View(r).row EXCEPT !.gone = TRUE]),
                  [Synced([inst[r] EXCEPT !.cur.gone = TRUE]) EXCEPT !.deleted = TRUE],
                  sure[r] /\ Dirty(inst[r]) = {}, "step")
          /\ UNCHANGED mine
       \/ Gives(r)

(* restore takes the mark away, of an instance that is deleted or not. *)
RestoreModel(r) ==
    /\ Script(r) /\ inst[r].exists
    /\ \/ /\ Does(r, IF View(r).row = Absent THEN NoWrites ELSE ToRow([View(r).row EXCEPT !.gone = FALSE]),
                  [Synced([inst[r] EXCEPT !.cur.gone = FALSE]) EXCEPT !.deleted = FALSE],
                  sure[r] /\ Dirty(inst[r]) = {} /\ View(r).row # Absent, "step")
          /\ UNCHANGED mine
       \/ Gives(r)

(* forceDelete removes the row of any instance with a key. *)
ForceDelete(r) ==
    /\ Script(r) /\ inst[r].key
    /\ \/ /\ Does(r, IF View(r).row = Absent THEN NoWrites ELSE ToRow(Absent),
                  [inst[r] EXCEPT !.deleted = TRUE, !.exists = FALSE], FALSE, "step")
          /\ UNCHANGED mine
       \/ Gives(r)

(* MUTANT: refresh takes the row's values without taking them as read. *)
RefreshedPartly(i, row) == [i EXCEPT !.cur = row]

Refreshed(i, row) == [i EXCEPT !.cur = row, !.orig = row]

(* refresh reads the live row again; ModelNotFound when there is none. *)
Refresh(r) ==
    /\ Script(r) /\ inst[r].exists
    /\ \/ /\ Visible(r)
          /\ inst' = [inst EXCEPT ![r] = Refreshed(@, View(r).row)]
          /\ mine' = [mine EXCEPT ![r] = {}]
          /\ sure' = [sure EXCEPT ![r] = TRUE]
          /\ Did(r, "step")
          /\ UNCHANGED <<committed, active, tx, frames, issued>>
       \/ Gives(r)

Next ==
    \E r \in Runtimes :
       \/ Transaction(r) \/ InsertMany(r) \/ Sync(r) \/ Batch(r) \/ Close(r) \/ Raise(r)
       \/ (\E t \in BOOLEAN : Load(r, t)) \/ New(r) \/ Assign(r)
       \/ SaveExisting(r) \/ SaveNew(r)
       \/ DeleteModel(r) \/ RestoreModel(r) \/ ForceDelete(r) \/ Refresh(r)

Spec == Init /\ [][Next]_vars

-----------------------------------------------------------------------------
(* Properties. *)

(* The variables hold values of the expected form. *)
TypeOK ==
    /\ committed \in [row : Row \cup {Absent}, many : SUBSET Batches]
    /\ active \in [Runtimes -> BOOLEAN]
    /\ tx \in [Runtimes -> [open : BOOLEAN, writes : Writes]]
    /\ inst \in [Runtimes -> [exists : BOOLEAN, deleted : BOOLEAN, key : BOOLEAN, held : BOOLEAN,
                              orig : Row, cur : Row]]
    /\ steps \in 0 .. MaxSteps
    /\ \A r \in Runtimes : Len(frames[r]) <= 2

(* activeTx is set exactly while an operation that owns the transaction is    *)
(* running and the transaction is open in the database: however an operation  *)
(* ends, and wherever its failure is caught, no transaction stays open behind *)
(* it and no later statement is sent to one that is over.                     *)
TransactionsAreReleased ==
    \A r \in Runtimes : active[r] = Owns(r) /\ tx[r].open = active[r]

(* An operation that owns its transaction takes effect as a whole when it     *)
(* returns, and not at all when it raises: until then, nothing that it or the *)
(* operations inside it wrote is seen by anyone else.                         *)
AllOrNothing ==
    [][ \A r \in Runtimes : who'.r = r /\ Owns(r) =>
          committed' = IF who'.did = "returned" /\ ~Owns(r)'
                       THEN Install(committed, issued[r]) ELSE committed ]_vars

(* An instance that is clean holds what its row holds, unless somebody else   *)
(* wrote the row, its transaction was rolled back, a save met no live row, a  *)
(* hook of an update assigned a column, or the instance was deleted or        *)
(* restored with changes not yet saved: every failure in between leaves the   *)
(* changes to be saved again.                                                 *)
CleanModelsAreCurrent ==
    \A r \in Runtimes :
       sure[r] /\ inst[r].exists /\ ~inst[r].deleted => inst[r].orig = View(r).row

(* A save changes no column that the script did not assign: values that the   *)
(* instance read earlier are not written back over those of other writers.    *)
SavesOnlyWhatWasAssigned ==
    [][ \A r \in Runtimes : who' = [r |-> r, did |-> "saved"] /\ View(r).row # Absent =>
          \A c \in Columns \ mine[r] : View(r)'.row[c] = View(r).row[c] ]_vars

=============================================================================
