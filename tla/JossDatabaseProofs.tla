-------------------------- MODULE JossDatabaseProofs --------------------------
(***************************************************************************)
(* GranDB's transactions and models, and its query builder, for any number *)
(* of runtimes, rows, values and operations.                               *)
(***************************************************************************)
EXTENDS JossOrm, JossQuery, SequenceTheorems, FiniteSetTheorems, WellFoundedInduction, TLAPS

\* The statements of operations in batches do not write the model's row.
Statements == {w \in Writes : w.row = Unset}
Frame == [kind : {"transaction", "batches"}, owns : BOOLEAN, left : Seq(Statements)]

OrmTypes ==
    /\ TypeOK
    /\ frames \in [Runtimes -> Seq(Frame)]
    /\ issued \in [Runtimes -> Writes]
    /\ mine \in [Runtimes -> SUBSET Columns]
    /\ sure \in [Runtimes -> BOOLEAN]

\* transaction() is outermost and owns; what runs inside it does not own.
Nested(r) ==
    /\ Len(frames[r]) <= 2
    /\ \A k \in DOMAIN frames[r] :
          /\ frames[r][k].kind = "transaction" => frames[r][k].owns
          /\ frames[r][k].owns => k = 1
    /\ Len(frames[r]) = 2 => frames[r][1].kind = "transaction"

\* The transaction, its owner and what was written since it began go together.
Owned(r) ==
    /\ active[r] = Owns(r) /\ tx[r].open = active[r]
    /\ issued[r] = tx[r].writes
    /\ ~active[r] => tx[r].writes = NoWrites

\* What an instance remembers.
Remembered(r) ==
    /\ inst[r].cur.gone = inst[r].orig.gone
    /\ ~inst[r].exists /\ ~inst[r].deleted => ~inst[r].cur.gone
    /\ Dirty(inst[r]) \subseteq mine[r]

\* Deleted instances too.
Current(r) == sure[r] /\ inst[r].exists => inst[r].orig = View(r).row

OrmInv == OrmTypes /\ \A r \in Runtimes : Nested(r) /\ Owned(r) /\ Remembered(r) /\ Current(r)

--------------------------------------------------------------------------------
(* Writes and what they leave.                                             *)

Database == [row : Row \cup {Absent}, many : SUBSET Batches]

LEMMA WritesAreTyped ==
    /\ NoWrites \in Writes
    /\ \A S \in SUBSET Batches : Put(S) \in Statements /\ Drop(S) \in Statements
    /\ \A row \in Row \cup {Absent} : ToRow(row) \in Writes /\ ToRow(row).row = row
    /\ \A row \in Row : row # Unset /\ row # Absent
BY OrmAssumption DEF Statements, Writes, NoWrites, Put, Drop, ToRow, Row

LEMMA InstallIsTyped ==
    ASSUME NEW d \in Database, NEW w \in Writes
    PROVE  /\ Install(d, w) \in Database
           /\ Install(d, w).row = (IF w.row = Unset THEN d.row ELSE w.row)
BY DEF Install, Database, Writes

LEMMA InstallNothing ==
    ASSUME NEW d \in Database
    PROVE  Install(d, NoWrites) = d
BY DEF Install, Database, NoWrites

LEMMA MergeIsTyped ==
    ASSUME NEW old \in Writes, NEW w \in Writes
    PROVE  /\ Merge(old, w) \in Writes
           /\ Merge(old, w).row = (IF w.row = Unset THEN old.row ELSE w.row)
BY DEF Merge, Writes

\* The variables of a runtime.
LEMMA RuntimeTypes ==
    ASSUME OrmTypes, NEW r \in Runtimes
    PROVE  /\ committed \in Database /\ active[r] \in BOOLEAN /\ sure[r] \in BOOLEAN
           /\ tx[r].writes \in Writes /\ tx[r] = [open |-> tx[r].open, writes |-> tx[r].writes]
           /\ inst[r].orig \in Row /\ inst[r].cur \in Row /\ frames[r] \in Seq(Frame)
           /\ View(r) \in Database
<1>1. /\ committed \in Database /\ active[r] \in BOOLEAN /\ sure[r] \in BOOLEAN
      /\ tx[r].writes \in Writes /\ tx[r] = [open |-> tx[r].open, writes |-> tx[r].writes]
      /\ inst[r].orig \in Row /\ inst[r].cur \in Row /\ frames[r] \in Seq(Frame)
  BY DEF OrmTypes, TypeOK, Database
<1>2. QED
  BY <1>1, InstallIsTyped DEF View

LEMMA NoInstanceIsTyped ==
    /\ NoInstance \in [exists : BOOLEAN, deleted : BOOLEAN, key : BOOLEAN, held : BOOLEAN, orig : Row, cur : Row]
    /\ NoInstance.cur = NoInstance.orig /\ ~NoInstance.cur.gone /\ ~NoInstance.exists /\ ~NoInstance.deleted
<1>1. (CHOOSE v \in Vals : TRUE) \in Vals
  BY OrmAssumption
<1>2. [a |-> CHOOSE v \in Vals : TRUE, b |-> CHOOSE v \in Vals : TRUE, gone |-> FALSE] \in Row
  BY <1>1 DEF Row
<1>3. QED
  BY <1>2 DEF NoInstance

LEMMA OrmInvInit == Init => OrmInv
<1> SUFFICES ASSUME Init PROVE OrmInv
  OBVIOUS
<1>1. OrmTypes
  <2>1. committed \in [row : Row \cup {Absent}, many : SUBSET Batches]
    <3> DEFINE live == {[a |-> v, b |-> v, gone |-> FALSE] : v \in Vals}
    <3>a. live \subseteq Row
      <4>1. ASSUME NEW v \in Vals PROVE [a |-> v, b |-> v, gone |-> FALSE] \in Row
        BY DEF Row
      <4>2. QED
        BY <4>1
    <3>b. committed \in [row : {Absent} \cup live, many : {{}}]
      BY DEF Init
    <3> HIDE DEF live
    <3>1. committed.row \in Row \cup {Absent} /\ committed.many = {}
      BY <3>a, <3>b
    <3>2. committed = [row |-> committed.row, many |-> committed.many]
      BY DEF Init
    <3>3. QED
      BY <3>1, <3>2
  <2>2. inst \in [Runtimes -> [exists : BOOLEAN, deleted : BOOLEAN, key : BOOLEAN, held : BOOLEAN,
                               orig : Row, cur : Row]]
    BY NoInstanceIsTyped DEF Init
  <2>3. tx \in [Runtimes -> [open : BOOLEAN, writes : Writes]] /\ issued \in [Runtimes -> Writes]
    BY WritesAreTyped DEF Init
  <2>4. /\ active \in [Runtimes -> BOOLEAN] /\ steps \in 0..MaxSteps /\ frames \in [Runtimes -> Seq(Frame)]
        /\ mine \in [Runtimes -> SUBSET Columns] /\ sure \in [Runtimes -> BOOLEAN]
        /\ \A r \in Runtimes : Len(frames[r]) <= 2
    BY OrmAssumption DEF Init
  <2>5. QED
    BY <2>1, <2>2, <2>3, <2>4 DEF OrmTypes, TypeOK
<1>2. ASSUME NEW r \in Runtimes PROVE Nested(r) /\ Owned(r) /\ Remembered(r) /\ Current(r)
  <2>1. frames[r] = << >> /\ active[r] = FALSE /\ tx[r] = [open |-> FALSE, writes |-> NoWrites]
    BY DEF Init
  <2>2. inst[r] = NoInstance /\ issued[r] = NoWrites /\ mine[r] = {} /\ sure[r] = FALSE
    BY DEF Init
  <2>3. Nested(r) /\ Owned(r)
    <3>1. Len(frames[r]) = 0 /\ DOMAIN frames[r] = {}
      BY <2>1
    <3>2. Owns(r) = FALSE
      BY <3>1 DEF Owns
    <3>3. active[r] = FALSE /\ tx[r].open = FALSE /\ tx[r].writes = NoWrites
      BY <2>1
    <3>4. Nested(r)
      BY <3>1 DEF Nested
    <3>5. QED
      BY <2>2, <3>2, <3>3, <3>4 DEF Owned
  <2>4. Remembered(r) /\ Current(r)
    BY <2>2, NoInstanceIsTyped DEF Remembered, Current, Dirty
  <2>5. QED
    BY <2>3, <2>4
<1>3. QED
  BY <1>1, <1>2 DEF OrmInv

--------------------------------------------------------------------------------
(* What the steps do.                                                      *)

Instances == [exists : BOOLEAN, deleted : BOOLEAN, key : BOOLEAN, held : BOOLEAN, orig : Row, cur : Row]

\* A step of r leaves another runtime as it was, or that runtime has lost track
\* of its row.
Leaves(s) ==
    /\ active'[s] = active[s] /\ tx'[s] = tx[s] /\ frames'[s] = frames[s] /\ issued'[s] = issued[s]
    /\ inst'[s] = inst[s] /\ mine'[s] = mine[s]
    /\ sure'[s] => sure[s] /\ View(s)'.row = View(s).row

LEMMA OneMoves ==
    ASSUME OrmInv, NEW r \in Runtimes, OrmTypes', \A s \in Runtimes \ {r} : Leaves(s),
           Nested(r)', Owned(r)', Remembered(r)', Current(r)'
    PROVE  OrmInv'
<1>1. ASSUME NEW s \in Runtimes, s # r PROVE Nested(s)' /\ Owned(s)' /\ Remembered(s)' /\ Current(s)'
  <2>1. Nested(s) /\ Owned(s) /\ Remembered(s) /\ Current(s) /\ Leaves(s)
    BY <1>1 DEF OrmInv
  <2>2. Nested(s)'
    BY <2>1 DEF Nested, Leaves
  <2>3. Owned(s)'
    BY <2>1, Zenon DEF Owned, Owns, Leaves
  <2>4. Remembered(s)'
    BY <2>1, Zenon DEF Remembered, Dirty, Leaves
  <2>5. Current(s)'
    BY <2>1, Zenon DEF Current, Leaves
  <2>6. QED
    BY <2>2, <2>3, <2>4, <2>5
<1>2. QED
  BY <1>1 DEF OrmInv

\* A write of r, in its transaction or at once.
LEMMA ExecDoes ==
    ASSUME OrmInv, NEW r \in Runtimes, NEW w \in Writes, Exec(r, w), active' = active
    PROVE  /\ committed' \in Database /\ tx' \in [Runtimes -> [open : BOOLEAN, writes : Writes]]
           /\ issued' \in [Runtimes -> Writes]
           /\ \A s \in Runtimes \ {r} : tx'[s] = tx[s] /\ issued'[s] = issued[s]
           /\ active[r] => committed' = committed
           /\ tx'[r].open = tx[r].open /\ issued'[r] = tx'[r].writes
           /\ ~active[r] => tx'[r].writes = NoWrites
           /\ View(r)'.row = (IF w.row = Unset THEN View(r).row ELSE w.row)
<1>a. /\ committed \in Database /\ tx \in [Runtimes -> [open : BOOLEAN, writes : Writes]]
      /\ issued \in [Runtimes -> Writes] /\ active[r] \in BOOLEAN
  BY DEF OrmInv, OrmTypes, TypeOK, Database
<1>b. active[r] = Owns(r) /\ issued[r] = tx[r].writes /\ (~active[r] => tx[r].writes = NoWrites)
  BY DEF OrmInv, Owned
<1>c. issued' = [issued EXCEPT ![r] = IF Owns(r) THEN Merge(issued[r], w) ELSE NoWrites]
  BY DEF Exec
<1>d. tx[r].writes \in Writes /\ Merge(tx[r].writes, w) \in Writes /\ NoWrites \in Writes
  BY <1>a, WritesAreTyped, MergeIsTyped
<1>1. CASE active[r]
  <2>1. committed' = committed /\ tx' = [tx EXCEPT ![r] = [open |-> tx[r].open, writes |-> Merge(tx[r].writes, w)]]
    BY <1>1 DEF Exec
  <2>2. Owns(r)
    BY <1>1, <1>b
  <2>3. issued' = [issued EXCEPT ![r] = Merge(tx[r].writes, w)]
    BY <1>b, <1>c, <2>2
  <2>4. tx'[r] = [open |-> tx[r].open, writes |-> Merge(tx[r].writes, w)]
    BY <1>a, <2>1
  <2>5. View(r)'.row = (IF w.row = Unset THEN View(r).row ELSE w.row)
    <3>1. View(r) = Install(committed, tx[r].writes) /\ View(r)' = Install(committed, Merge(tx[r].writes, w))
      BY <1>1, <2>1, <2>4 DEF View
    <3>2. Merge(tx[r].writes, w).row = (IF w.row = Unset THEN tx[r].writes.row ELSE w.row)
      BY <1>d, MergeIsTyped
    <3>3. ASSUME NEW x \in Writes PROVE Install(committed, x).row = (IF x.row = Unset THEN committed.row ELSE x.row)
      BY <1>a, InstallIsTyped
    <3>4. /\ View(r).row = (IF tx[r].writes.row = Unset THEN committed.row ELSE tx[r].writes.row)
          /\ View(r)'.row = (IF Merge(tx[r].writes, w).row = Unset THEN committed.row ELSE Merge(tx[r].writes, w).row)
      BY <1>d, <3>1, <3>3, Zenon
    <3>5. CASE w.row = Unset
      BY <3>2, <3>4, <3>5
    <3>6. CASE w.row # Unset
      BY <3>2, <3>4, <3>6
    <3>7. QED
      BY <3>5, <3>6
  <2>6. QED
    BY <1>1, <1>a, <1>d, <2>1, <2>3, <2>4, <2>5
<1>2. CASE ~active[r]
  <2>1. committed' = Install(committed, w) /\ tx' = tx
    BY <1>2 DEF Exec
  <2>2. issued' = [issued EXCEPT ![r] = NoWrites]
    BY <1>2, <1>b, <1>c
  <2>3. View(r) = committed /\ View(r)' = Install(committed, w)
    BY <1>2, <2>1 DEF View
  <2>4. committed' \in Database /\ View(r)'.row = (IF w.row = Unset THEN View(r).row ELSE w.row)
    BY <1>a, <2>1, <2>3, InstallIsTyped
  <2>5. QED
    BY <1>2, <1>a, <1>b, <1>d, <2>1, <2>2, <2>4
<1>3. QED
  BY <1>1, <1>2, <1>a

\* Who is not the one to write either sees the same row or has lost track of it.
LEMMA NoticedLeaves ==
    ASSUME OrmInv, committed' \in Database, NEW r \in Runtimes, NEW own, Noticed(r, own),
           NEW s \in Runtimes \ {r}, active'[s] = active[s], tx'[s] = tx[s]
    PROVE  sure'[s] => sure[s] /\ View(s)'.row = View(s).row
<1>1. committed \in Database /\ tx[s].writes \in Writes
  BY RuntimeTypes DEF OrmInv
<1>2. sure'[s] = (sure[s] /\ (active[s] => tx[s].writes.row # Unset \/ committed'.row = committed.row)
                          /\ (~active[s] => committed'.row = committed.row))
  BY DEF Noticed
<1>3. /\ Install(committed, tx[s].writes).row = (IF tx[s].writes.row = Unset THEN committed.row ELSE tx[s].writes.row)
      /\ Install(committed', tx[s].writes).row = (IF tx[s].writes.row = Unset THEN committed'.row ELSE tx[s].writes.row)
  BY <1>1, InstallIsTyped
<1>4. QED
  BY <1>1, <1>2, <1>3 DEF View

LEMMA NoticedIsTyped ==
    ASSUME NEW r \in Runtimes, NEW own \in BOOLEAN, Noticed(r, own), sure \in [Runtimes -> BOOLEAN]
    PROVE  sure' \in [Runtimes -> BOOLEAN] /\ sure'[r] = own
BY DEF Noticed

--------------------------------------------------------------------------------
(* Steps that fail: a panic unwinds to a try.                              *)

\* The transaction of r at an end of it.
Over == [open |-> FALSE, writes |-> NoWrites]

LEMMA TheFirst ==
    ASSUME NEW S, NEW s \in Seq(S), 1 <= Len(s)
    PROVE  SubSeq(s, 1, 1) = <<s[1]>>
<1>1. Len(SubSeq(s, 1, 1)) = 1 /\ SubSeq(s, 1, 1)[1] = s[1] /\ SubSeq(s, 1, 1) \in Seq(S)
  OBVIOUS
<1>2. <<s[1]>> \in Seq(S) /\ Len(<<s[1]>>) = 1
  BY s[1] \in S
<1>3. Len(SubSeq(s, 1, 1)) = Len(<<s[1]>>)
  BY <1>1
<1>4. \A i \in 1 .. Len(SubSeq(s, 1, 1)) : SubSeq(s, 1, 1)[i] = <<s[1]>>[i]
  BY <1>1
<1>5. QED
  BY <1>1, <1>2, <1>3, <1>4, SeqEqual, Zenon

\* Where a panic is caught: outside of everything, or in the callback of the
\* transaction, which goes on.
LEMMA UnwindDoes ==
    ASSUME OrmInv, NEW r \in Runtimes, Fails(r)
    PROVE  /\ committed' = committed
           /\ who' \in [r : {r}, did : {"raised", "step"}]
           /\ \/ /\ frames' = [frames EXCEPT ![r] = << >>]
                 /\ active' = [active EXCEPT ![r] = FALSE]
                 /\ tx' = [tx EXCEPT ![r] = Over]
                 /\ issued' = [issued EXCEPT ![r] = NoWrites]
                 /\ sure' = [sure EXCEPT ![r] = sure[r] /\ ~(active[r] /\ tx[r].writes.row # Unset)]
              \/ /\ frames' = [frames EXCEPT ![r] = <<frames[r][1]>>]
                 /\ frames[r] # << >> /\ frames[r][1].owns /\ frames[r][1].kind = "transaction"
                 /\ active' = active /\ tx' = tx /\ issued' = issued /\ sure' = sure
<1>a. Nested(r) /\ Owned(r) /\ OrmTypes
  BY DEF OrmInv
<1>b. /\ active \in [Runtimes -> BOOLEAN] /\ tx \in [Runtimes -> [open : BOOLEAN, writes : Writes]]
      /\ issued \in [Runtimes -> Writes] /\ sure \in [Runtimes -> BOOLEAN] /\ frames[r] \in Seq(Frame)
  BY <1>a DEF OrmTypes, TypeOK
<1>c. \A k \in DOMAIN frames[r] : /\ frames[r][k].kind = "transaction" => frames[r][k].owns
                                  /\ frames[r][k].owns => k = 1
  BY <1>a DEF Nested
<1>1. PICK d \in {0} \cup {k \in DOMAIN frames[r] : frames[r][k].kind = "transaction"} : Unwind(r, d)
  BY DEF Fails
<1> DEFINE rolled == \E k \in DOMAIN frames[r] : k > d /\ frames[r][k].owns
<1>2. /\ frames' = [frames EXCEPT ![r] = SubSeq(frames[r], 1, d)]
      /\ active' = [active EXCEPT ![r] = active[r] /\ ~rolled]
      /\ tx' = IF rolled THEN [tx EXCEPT ![r] = Over] ELSE tx
      /\ issued' = IF rolled THEN [issued EXCEPT ![r] = NoWrites] ELSE issued
      /\ sure' = [sure EXCEPT ![r] = sure[r] /\ ~(rolled /\ tx[r].writes.row # Unset)]
      /\ who' = [r |-> r, did |-> IF rolled THEN "raised" ELSE "step"]
      /\ committed' = committed
  BY <1>1 DEF Unwind, Did, Over
<1>3. CASE d = 0
  <2>1. SubSeq(frames[r], 1, d) = << >>
    BY <1>3, <1>b
  <2>2. rolled = active[r]
    <3>1. \A k \in DOMAIN frames[r] : k > d
      BY <1>3, <1>b
    <3>2. rolled = Owns(r)
      BY <3>1, Zenon DEF Owns
    <3>3. QED
      BY <3>2, <1>a DEF Owned
  <2>3. CASE active[r]
    <3>1. rolled = TRUE
      BY <2>2, <2>3
    <3> HIDE DEF rolled
    <3>2. active' = [active EXCEPT ![r] = FALSE] /\ tx' = [tx EXCEPT ![r] = Over] /\ issued' = [issued EXCEPT ![r] = NoWrites]
      BY <1>2, <3>1
    <3>3. sure' = [sure EXCEPT ![r] = sure[r] /\ ~(active[r] /\ tx[r].writes.row # Unset)]
      BY <1>2, <2>2, Zenon
    <3>4. QED
      BY <1>2, <2>1, <3>1, <3>2, <3>3
  <2>4. CASE ~active[r]
    <3>1. tx[r] = Over /\ issued[r] = NoWrites /\ active[r] = FALSE
      <4>1. tx[r].open = FALSE /\ tx[r].writes = NoWrites /\ issued[r] = NoWrites /\ active[r] = FALSE
        BY <2>4, <1>a, <1>b DEF Owned
      <4>2. QED
        BY <4>1, <1>b DEF Over
    <3>2. rolled = FALSE
      BY <2>2, <3>1
    <3> HIDE DEF rolled
    <3>3. active' = [active EXCEPT ![r] = FALSE] /\ tx' = [tx EXCEPT ![r] = Over] /\ issued' = [issued EXCEPT ![r] = NoWrites]
      <4>1. active' = [active EXCEPT ![r] = FALSE] /\ tx' = tx /\ issued' = issued
        BY <1>2, <3>1, <3>2
      <4>2. tx = [tx EXCEPT ![r] = Over] /\ issued = [issued EXCEPT ![r] = NoWrites]
        BY <3>1, <1>b
      <4>3. QED
        BY <4>1, <4>2
    <3>4. sure' = [sure EXCEPT ![r] = sure[r] /\ ~(active[r] /\ tx[r].writes.row # Unset)]
      BY <1>2, <2>2
    <3>5. QED
      BY <1>2, <2>1, <3>2, <3>3, <3>4
  <2>5. QED
    BY <2>3, <2>4
<1>4. CASE d \in DOMAIN frames[r] /\ frames[r][d].kind = "transaction"
  <2>1. d = 1 /\ frames[r][1].owns /\ frames[r][1].kind = "transaction" /\ frames[r] # << >>
    BY <1>4, <1>c, <1>b
  <2>2. SubSeq(frames[r], 1, d) = <<frames[r][1]>>
    <3>1. Len(frames[r]) \in Nat /\ 1 <= Len(frames[r])
      BY <2>1, <1>4, <1>b
    <3>2. QED
      BY <2>1, <3>1, <1>b, TheFirst
  <2>3. rolled = FALSE
    BY <2>1, <1>b, <1>c
  <2>4. active' = active /\ tx' = tx /\ issued' = issued /\ sure' = sure
    BY <1>2, <2>3, <1>b
  <2>5. QED
    BY <1>2, <2>1, <2>2, <2>3, <2>4
<1>5. QED
  BY <1>3, <1>4, <1>1

LEMMA SameView ==
    ASSUME NEW s, committed' = committed, active'[s] = active[s], tx'[s] = tx[s]
    PROVE  View(s)' = View(s)
BY DEF View

\* Who owns, of the operations that a runtime is inside of.
LEMMA TheOwner ==
    ASSUME NEW r \in Runtimes, frames[r] \in Seq(Frame), Nested(r)
    PROVE  Owns(r) <=> frames[r] # << >> /\ frames[r][1].owns
<1>1. Owns(r) => frames[r] # << >> /\ frames[r][1].owns
  BY DEF Owns, Nested
<1>2. frames[r] # << >> /\ frames[r][1].owns => Owns(r)
  <2>1. frames[r] # << >> => 1 \in DOMAIN frames[r]
    OBVIOUS
  <2>2. QED
    BY <2>1, Zenon DEF Owns
<1>3. QED
  BY <1>1, <1>2

LEMMA FailsKeepsInv ==
    ASSUME OrmInv, NEW r \in Runtimes, Fails(r), UNCHANGED <<inst, mine>>, steps' \in 0 .. MaxSteps
    PROVE  OrmInv'
<1>a. OrmTypes /\ Nested(r) /\ Owned(r) /\ Remembered(r) /\ Current(r)
  BY DEF OrmInv
<1>b. /\ active \in [Runtimes -> BOOLEAN] /\ tx \in [Runtimes -> [open : BOOLEAN, writes : Writes]]
      /\ issued \in [Runtimes -> Writes] /\ sure \in [Runtimes -> BOOLEAN]
      /\ frames \in [Runtimes -> Seq(Frame)] /\ inst' = inst /\ mine' = mine /\ committed' = committed
  BY <1>a, UnwindDoes DEF OrmTypes, TypeOK
<1>c. ASSUME NEW s \in Runtimes, s # r, active'[s] = active[s], tx'[s] = tx[s], frames'[s] = frames[s],
             issued'[s] = issued[s], sure'[s] = sure[s]
      PROVE  Leaves(s)
  <2>1. View(s)' = View(s)
    BY <1>b, <1>c, SameView
  <2>2. QED
    BY <1>b, <1>c, <2>1 DEF Leaves
<1>d. ASSUME active' \in [Runtimes -> BOOLEAN], tx' \in [Runtimes -> [open : BOOLEAN, writes : Writes]],
             frames' \in [Runtimes -> Seq(Frame)], issued' \in [Runtimes -> Writes], sure' \in [Runtimes -> BOOLEAN],
             \A s \in Runtimes : Len(frames'[s]) <= 2
      PROVE  OrmTypes'
  BY <1>a, <1>b, <1>d DEF OrmTypes, TypeOK
<1>e. Remembered(r)'
  BY <1>a, <1>b, Zenon DEF Remembered, Dirty
<1>f. \A s \in Runtimes : Len(frames[s]) <= 2
  BY DEF OrmInv, Nested
<1>1. CASE /\ frames' = [frames EXCEPT ![r] = << >>]
           /\ active' = [active EXCEPT ![r] = FALSE]
           /\ tx' = [tx EXCEPT ![r] = Over]
           /\ issued' = [issued EXCEPT ![r] = NoWrites]
           /\ sure' = [sure EXCEPT ![r] = sure[r] /\ ~(active[r] /\ tx[r].writes.row # Unset)]
  <2>1. OrmTypes'
    <3>1. Over \in [open : BOOLEAN, writes : Writes] /\ NoWrites \in Writes
      BY WritesAreTyped DEF Over
    <3>2. \A s \in Runtimes : Len(frames'[s]) <= 2
      BY <1>1, <1>b, <1>f
    <3>3. frames' \in [Runtimes -> Seq(Frame)]
      BY <1>1, <1>b
    <3>4. /\ active' \in [Runtimes -> BOOLEAN] /\ tx' \in [Runtimes -> [open : BOOLEAN, writes : Writes]]
          /\ issued' \in [Runtimes -> Writes] /\ sure' \in [Runtimes -> BOOLEAN]
      BY <1>1, <1>b, <3>1
    <3>5. QED
      BY <1>d, <3>2, <3>3, <3>4
  <2>2. \A s \in Runtimes \ {r} : Leaves(s)
    <3> TAKE s \in Runtimes \ {r}
    <3>1. s \in Runtimes /\ s # r
      OBVIOUS
    <3>2. active'[s] = active[s] /\ tx'[s] = tx[s] /\ frames'[s] = frames[s] /\ issued'[s] = issued[s] /\ sure'[s] = sure[s]
      BY <1>1, <1>b, <3>1
    <3>3. QED
      BY <1>c, <3>1, <3>2
  <2>3. frames'[r] = << >> /\ active'[r] = FALSE /\ tx'[r] = Over /\ issued'[r] = NoWrites
    BY <1>1, <1>b
  <2>4. Nested(r)' /\ Owned(r)'
    <3>1. Nested(r)' /\ Owns(r)' = FALSE
      BY <2>3 DEF Nested, Owns
    <3>2. tx'[r].open = FALSE /\ tx'[r].writes = NoWrites
      BY <2>3 DEF Over
    <3>3. QED
      BY <2>3, <3>1, <3>2, Zenon DEF Owned
  <2>5. Current(r)'
    <3>1. sure'[r] = (sure[r] /\ ~(active[r] /\ tx[r].writes.row # Unset)) /\ View(r)' = committed
      BY <1>1, <1>b, <2>3 DEF View
    <3>2. ASSUME sure'[r] PROVE View(r)'.row = View(r).row
      <4>1. active[r] => tx[r].writes.row = Unset
        BY <3>1, <3>2
      <4>2. active[r] => Install(committed, tx[r].writes).row = committed.row
        <5>1. committed \in Database /\ tx[r].writes \in Writes
          BY <1>a, RuntimeTypes
        <5>2. Install(committed, tx[r].writes).row = (IF tx[r].writes.row = Unset THEN committed.row ELSE tx[r].writes.row)
          BY <5>1, InstallIsTyped
        <5>3. QED
          BY <4>1, <5>2
      <4>3. QED
        BY <3>1, <4>2 DEF View
    <3>3. QED
      BY <1>a, <1>b, <3>1, <3>2, Zenon DEF Current
  <2>6. QED
    BY <1>e, <2>1, <2>2, <2>4, <2>5, OneMoves
<1>2. CASE /\ frames' = [frames EXCEPT ![r] = <<frames[r][1]>>]
           /\ frames[r] # << >> /\ frames[r][1].owns /\ frames[r][1].kind = "transaction"
           /\ active' = active /\ tx' = tx /\ issued' = issued /\ sure' = sure
  <2>0. frames[r][1] \in Frame
    BY <1>2, <1>b
  <2>1. OrmTypes'
    <3>1. \A s \in Runtimes : Len(frames'[s]) <= 2
      BY <1>2, <1>b, <1>f
    <3>2. frames' \in [Runtimes -> Seq(Frame)]
      BY <1>2, <1>b, <2>0
    <3>3. QED
      BY <1>b, <1>d, <1>2, <3>1, <3>2
  <2>2. \A s \in Runtimes \ {r} : Leaves(s)
    BY <1>2, <1>b, <1>c
  <2>3. frames'[r] = <<frames[r][1]>>
    BY <1>2, <1>b
  <2>4. Nested(r)'
    BY <2>3, <1>2 DEF Nested
  <2>5. Owned(r)'
    <3>1. Owns(r)
      BY <1>2, <1>a, <1>b, TheOwner
    <3>2. Owns(r)'
      BY <2>3, <1>2 DEF Owns
    <3>3. QED
      BY <3>1, <3>2, <1>a, <1>2, Zenon DEF Owned
  <2>6. Current(r)'
    <3>1. View(r)' = View(r)
      BY <1>b, <1>2, SameView
    <3>2. QED
      BY <3>1, <1>a, <1>b, <1>2, Zenon DEF Current
  <2>7. QED
    BY <1>e, <2>1, <2>2, <2>4, <2>5, <2>6, OneMoves
<1>3. QED
  BY <1>1, <1>2, UnwindDoes

--------------------------------------------------------------------------------
(* Steps that open a transaction, or run in the one there is.              *)

\* The script's own operations start inside of nothing or of a callback.
LEMMA ScriptIsOutermost ==
    ASSUME OrmInv, NEW r \in Runtimes, frames[r] # << >> => frames[r][Len(frames[r])].kind = "transaction"
    PROVE  \/ frames[r] = << >> /\ active[r] = FALSE
           \/ Len(frames[r]) = 1 /\ frames[r][1].owns /\ frames[r][1].kind = "transaction" /\ active[r] = TRUE
<1>a. OrmTypes /\ Nested(r) /\ Owned(r) /\ frames[r] \in Seq(Frame) /\ active[r] \in BOOLEAN
  BY RuntimeTypes DEF OrmInv
<1>b. active[r] = Owns(r)
  BY <1>a DEF Owned
<1>1. CASE frames[r] = << >>
  <2>1. ~Owns(r)
    BY <1>1, <1>a, TheOwner
  <2>2. QED
    BY <1>1, <2>1, <1>b
<1>2. CASE frames[r] # << >>
  <2>1. Len(frames[r]) \in DOMAIN frames[r] /\ frames[r][Len(frames[r])].kind = "transaction"
    BY <1>2, <1>a
  <2>2. frames[r][Len(frames[r])].owns /\ Len(frames[r]) = 1
    BY <2>1, <1>a DEF Nested
  <2>3. Owns(r)
    BY <2>2, <1>2, <1>a, TheOwner
  <2>4. QED
    BY <2>1, <2>2, <2>3, <1>b
<1>3. QED
  BY <1>1, <1>2

LEMMA OpenKeepsInv ==
    ASSUME OrmInv, NEW r \in Runtimes, NEW f \in Frame, Open(r, f),
           frames[r] # << >> => frames[r][Len(frames[r])].kind = "transaction",
           f.owns => ~active[r], f.kind = "transaction" => f.owns,
           UNCHANGED <<inst, mine>>, steps' \in 0 .. MaxSteps
    PROVE  OrmInv'
<1>a. OrmTypes /\ Nested(r) /\ Owned(r) /\ Remembered(r) /\ Current(r)
  BY DEF OrmInv
<1>b. /\ active \in [Runtimes -> BOOLEAN] /\ tx \in [Runtimes -> [open : BOOLEAN, writes : Writes]]
      /\ frames \in [Runtimes -> Seq(Frame)] /\ inst' = inst /\ mine' = mine
      /\ committed' = committed /\ issued' = issued /\ sure' = sure
      /\ frames' = [frames EXCEPT ![r] = Append(frames[r], f)]
  BY <1>a DEF OrmTypes, TypeOK, Open
<1>c. \/ f.owns /\ active' = [active EXCEPT ![r] = TRUE] /\ tx' = [tx EXCEPT ![r] = [open |-> TRUE, writes |-> NoWrites]]
      \/ ~f.owns /\ active' = active /\ tx' = tx
  BY DEF Open
<1>d. \A s \in Runtimes : Len(frames[s]) <= 2
  BY DEF OrmInv, Nested
<1>e. \/ frames[r] = << >> /\ active[r] = FALSE
      \/ Len(frames[r]) = 1 /\ frames[r][1].owns /\ frames[r][1].kind = "transaction" /\ active[r] = TRUE
  BY ScriptIsOutermost
<1>f. frames'[r] = Append(frames[r], f) /\ frames[r] \in Seq(Frame) /\ Append(frames[r], f) \in Seq(Frame)
  BY <1>b
<1>g. /\ Len(frames'[r]) = Len(frames[r]) + 1 /\ frames'[r][Len(frames[r]) + 1] = f
      /\ \A k \in 1 .. Len(frames[r]) : frames'[r][k] = frames[r][k]
  BY <1>f
<1>1. OrmTypes'
  <2>1. \A s \in Runtimes : Len(frames'[s]) <= 2
    <3>1. Len(frames'[r]) <= 2
      BY <1>e, <1>f, <1>g
    <3>2. ASSUME NEW s \in Runtimes, s # r PROVE Len(frames'[s]) <= 2
      BY <1>b, <1>d, <3>2
    <3>3. QED
      BY <3>1, <3>2
  <2>2. frames' \in [Runtimes -> Seq(Frame)]
    BY <1>b, <1>f
  <2>3. active' \in [Runtimes -> BOOLEAN] /\ tx' \in [Runtimes -> [open : BOOLEAN, writes : Writes]]
    <3>1. [open |-> TRUE, writes |-> NoWrites] \in [open : BOOLEAN, writes : Writes]
      BY WritesAreTyped
    <3>2. QED
      BY <1>b, <1>c, <3>1
  <2>4. QED
    BY <1>a, <1>b, <2>1, <2>2, <2>3 DEF OrmTypes, TypeOK
<1>2. \A s \in Runtimes \ {r} : Leaves(s)
  <2> TAKE s \in Runtimes \ {r}
  <2>1. active'[s] = active[s] /\ tx'[s] = tx[s] /\ frames'[s] = frames[s]
    BY <1>b, <1>c
  <2>2. View(s)' = View(s)
    BY <1>b, <2>1, SameView
  <2>3. QED
    BY <1>b, <2>1, <2>2 DEF Leaves
<1>3. Nested(r)'
  <2>1. CASE frames[r] = << >>
    <3>1. Len(frames'[r]) = 1 /\ frames'[r][1] = f /\ DOMAIN frames'[r] = {1}
      BY <2>1, <1>f, <1>g
    <3>2. QED
      BY <3>1 DEF Nested
  <2>2. CASE Len(frames[r]) = 1 /\ frames[r][1].owns /\ frames[r][1].kind = "transaction" /\ active[r] = TRUE
    <3>1. Len(frames'[r]) = 2 /\ frames'[r][1] = frames[r][1] /\ frames'[r][2] = f /\ DOMAIN frames'[r] = {1, 2}
      BY <2>2, <1>f, <1>g
    <3>2. ~f.owns /\ f.kind # "transaction"
      BY <2>2
    <3>3. QED
      BY <2>2, <3>1, <3>2 DEF Nested
  <2>3. QED
    BY <1>e, <2>1, <2>2
<1>4. Owned(r)'
  <2>0. frames'[r] \in Seq(Frame) /\ frames'[r] # << >>
    <3>1. Len(frames[r]) \in Nat /\ Len(frames'[r]) # 0
      BY <1>f, <1>g
    <3>2. QED
      BY <3>1, <1>f
  <2>1. Owns(r)' <=> frames'[r][1].owns
    <3>1. Owns(r)' => frames'[r][1].owns
      BY <1>3 DEF Owns, Nested
    <3>2. 1 \in DOMAIN frames'[r]
      BY <2>0
    <3>3. QED
      BY <3>1, <3>2, Zenon DEF Owns
  <2>2. CASE f.owns
    <3>1. frames[r] = << >> /\ active[r] = FALSE
      BY <1>e, <2>2
    <3>2. frames'[r][1] = f
      BY <3>1, <1>f, <1>g
    <3>3. active'[r] = TRUE /\ tx'[r] = [open |-> TRUE, writes |-> NoWrites]
      BY <2>2, <1>b, <1>c
    <3>4. tx'[r].open = TRUE /\ tx'[r].writes = NoWrites
      BY <3>3
    <3>5. issued'[r] = NoWrites
      BY <1>a, <1>b, <3>1, Zenon DEF Owned
    <3>6. Owns(r)' = TRUE
      BY <2>1, <2>2, <3>2
    <3>7. QED
      BY <3>3, <3>4, <3>5, <3>6, Zenon DEF Owned
  <2>3. CASE ~f.owns
    <3>1. active' = active /\ tx' = tx
      BY <2>3, <1>c
    <3>2. Owns(r)' = active[r]
      <4>1. CASE frames[r] = << >> /\ active[r] = FALSE
        <5>1. Len(frames[r]) = 0
          BY <4>1
        <5>2. frames'[r][1] = f
          BY <5>1, <1>g
        <5>3. ~Owns(r)' /\ Owns(r)' \in BOOLEAN
          BY <5>2, <2>1, <2>3 DEF Owns
        <5>4. QED
          BY <4>1, <5>3
      <4>2. CASE Len(frames[r]) = 1 /\ frames[r][1].owns /\ active[r] = TRUE
        <5>1. frames'[r][1] = frames[r][1]
          BY <4>2, <1>g
        <5>2. QED
          BY <4>2, <5>1, <2>1
      <4>3. QED
        BY <1>e, <4>1, <4>2
    <3>3. QED
      BY <3>1, <3>2, <1>a, <1>b, Zenon DEF Owned
  <2>4. QED
    BY <2>2, <2>3
<1>5. Remembered(r)'
  BY <1>a, <1>b, Zenon DEF Remembered, Dirty
<1>6. Current(r)'
  <2>1. View(r)'.row = View(r).row
    <3>1. CASE f.owns
      <4>1. active[r] = FALSE /\ active'[r] = TRUE /\ tx'[r] = [open |-> TRUE, writes |-> NoWrites]
        BY <3>1, <1>b, <1>c, <1>e
      <4>2. View(r) = committed /\ View(r)' = Install(committed, NoWrites)
        BY <4>1, <1>b DEF View
      <4>3. QED
        BY <4>2, <1>a, RuntimeTypes, InstallNothing
    <3>2. CASE ~f.owns
      BY <3>2, <1>b, <1>c, SameView
    <3>3. QED
      BY <3>1, <3>2
  <2>2. QED
    BY <2>1, <1>a, <1>b, Zenon DEF Current
<1>7. QED
  BY <1>1, <1>2, <1>3, <1>4, <1>5, <1>6, OneMoves

--------------------------------------------------------------------------------
(* Steps that write, and the operations that end.                          *)

\* A batch or an operation on a model: r writes w and its instance is then i.
LEMMA WriteKeepsInv ==
    ASSUME OrmInv, NEW r \in Runtimes, NEW w \in Writes, Exec(r, w), active' = active,
           frames' \in [Runtimes -> Seq(Frame)], Nested(r)', Owns(r)' = Owns(r),
           \A s \in Runtimes \ {r} : frames'[s] = frames[s],
           NEW i \in Instances, inst' = [inst EXCEPT ![r] = i],
           NEW m \in SUBSET Columns, mine' = [mine EXCEPT ![r] = m],
           NEW own \in BOOLEAN, Noticed(r, own), steps' \in 0 .. MaxSteps,
           i.cur.gone = i.orig.gone, ~i.exists /\ ~i.deleted => ~i.cur.gone, Dirty(i) \subseteq m,
           own /\ i.exists => i.orig = (IF w.row = Unset THEN View(r).row ELSE w.row)
    PROVE  OrmInv'
<1>a. OrmTypes /\ Nested(r) /\ Owned(r)
  BY DEF OrmInv
<1>b. /\ active \in [Runtimes -> BOOLEAN] /\ inst \in [Runtimes -> Instances]
      /\ mine \in [Runtimes -> SUBSET Columns] /\ sure \in [Runtimes -> BOOLEAN]
  BY <1>a DEF OrmTypes, TypeOK, Instances
<1>c. /\ committed' \in Database /\ tx' \in [Runtimes -> [open : BOOLEAN, writes : Writes]]
      /\ issued' \in [Runtimes -> Writes]
      /\ \A s \in Runtimes \ {r} : tx'[s] = tx[s] /\ issued'[s] = issued[s]
      /\ tx'[r].open = tx[r].open /\ issued'[r] = tx'[r].writes
      /\ ~active[r] => tx'[r].writes = NoWrites
      /\ View(r)'.row = (IF w.row = Unset THEN View(r).row ELSE w.row)
  BY ExecDoes
<1>d. sure' \in [Runtimes -> BOOLEAN] /\ sure'[r] = own
  BY <1>b, NoticedIsTyped
<1>e. inst'[r] = i /\ mine'[r] = m /\ inst' \in [Runtimes -> Instances] /\ mine' \in [Runtimes -> SUBSET Columns]
  BY <1>b
<1>1. \A s \in Runtimes \ {r} : Leaves(s)
  <2> TAKE s \in Runtimes \ {r}
  <2>1. /\ active'[s] = active[s] /\ tx'[s] = tx[s] /\ frames'[s] = frames[s] /\ issued'[s] = issued[s]
        /\ inst'[s] = inst[s] /\ mine'[s] = mine[s]
    BY <1>b, <1>c
  <2>2. sure'[s] => sure[s] /\ View(s)'.row = View(s).row
    BY <1>c, <2>1, NoticedLeaves
  <2>3. QED
    BY <2>1, <2>2 DEF Leaves
<1>2. OrmTypes'
  <2>1. ASSUME NEW s \in Runtimes PROVE Len(frames'[s]) <= 2
    <3>1. CASE s = r
      BY <3>1 DEF Nested
    <3>2. CASE s # r
      <4>1. Nested(s)
        BY DEF OrmInv
      <4>2. frames'[s] = frames[s]
        BY <3>2
      <4>3. QED
        BY <4>1, <4>2 DEF Nested
    <3>3. QED
      BY <3>1, <3>2
  <2>2. committed' \in [row : Row \cup {Absent}, many : SUBSET Batches]
    BY <1>c DEF Database
  <2>3. QED
    BY <1>b, <1>c, <1>d, <1>e, <2>1, <2>2 DEF OrmTypes, TypeOK, Instances
<1>3. Owned(r)'
  <2>1. active[r] = Owns(r) /\ tx[r].open = active[r] /\ active'[r] = active[r]
    BY <1>a DEF Owned
  <2>2. QED
    BY <1>c, <2>1, Zenon DEF Owned
<1>4. Remembered(r)'
  <2>1. Dirty(inst'[r]) \subseteq mine'[r]
    BY <1>e
  <2>2. QED
    BY <1>e, <2>1 DEF Remembered, Dirty
<1>5. Current(r)'
  BY <1>c, <1>d, <1>e, Zenon DEF Current
<1>6. QED
  BY <1>1, <1>2, <1>3, <1>4, <1>5, OneMoves

\* The operation on top returns: the transaction is committed by its owner.
LEMMA ReturnKeepsInv ==
    ASSUME OrmInv, NEW r \in Runtimes, frames[r] # << >>,
           NEW top, top = frames[r][Len(frames[r])],
           frames' = [frames EXCEPT ![r] = SubSeq(@, 1, Len(@) - 1)],
           \/ /\ top.owns
              /\ committed' = Install(committed, tx[r].writes)
              /\ tx' = [tx EXCEPT ![r] = Over]
              /\ active' = [active EXCEPT ![r] = FALSE]
              /\ issued' = [issued EXCEPT ![r] = NoWrites]
           \/ ~top.owns /\ UNCHANGED <<committed, tx, active, issued>>,
           Noticed(r, sure[r]), UNCHANGED <<inst, steps, mine>>
    PROVE  OrmInv' /\ (top.owns => ~Owns(r)') /\ (Owns(r) /\ ~top.owns => Owns(r)')
<1>a. OrmTypes /\ Nested(r) /\ Owned(r) /\ Remembered(r) /\ Current(r)
  BY DEF OrmInv
<1>b. /\ active \in [Runtimes -> BOOLEAN] /\ tx \in [Runtimes -> [open : BOOLEAN, writes : Writes]]
      /\ issued \in [Runtimes -> Writes] /\ sure \in [Runtimes -> BOOLEAN]
      /\ frames \in [Runtimes -> Seq(Frame)] /\ inst' = inst /\ mine' = mine /\ steps' = steps
      /\ committed \in Database /\ tx[r].writes \in Writes /\ frames[r] \in Seq(Frame)
  BY <1>a, RuntimeTypes DEF OrmTypes, TypeOK
<1>c. frames'[r] = SubSeq(frames[r], 1, Len(frames[r]) - 1)
  BY <1>b
<1>d. Len(frames[r]) \in DOMAIN frames[r] /\ (top.owns => Len(frames[r]) = 1) /\ Len(frames[r]) \in {1, 2}
  <2>1. Len(frames[r]) \in DOMAIN frames[r] /\ Len(frames[r]) \in Nat /\ Len(frames[r]) # 0
    BY <1>b
  <2>2. Len(frames[r]) <= 2
    BY <1>a DEF Nested
  <2>3. top.owns => Len(frames[r]) = 1
    BY <2>1, <1>a DEF Nested
  <2>4. ASSUME NEW n \in Nat, n # 0, n <= 2 PROVE n \in {1, 2}
    BY <2>4
  <2>5. Len(frames[r]) \in {1, 2}
    BY <2>1, <2>2, <2>4
  <2>6. QED
    BY <2>1, <2>3, <2>5
<1>e. \/ Len(frames[r]) = 1 /\ top = frames[r][1] /\ frames'[r] = << >>
      \/ Len(frames[r]) = 2 /\ ~top.owns /\ frames'[r] = <<frames[r][1]>>
  <2>1. CASE Len(frames[r]) = 1
    BY <2>1, <1>c
  <2>2. CASE Len(frames[r]) = 2
    <3>1. Len(frames[r]) - 1 = 1
      BY <2>2
    <3>2. frames'[r] = SubSeq(frames[r], 1, 1)
      BY <3>1, <1>c
    <3>3. SubSeq(frames[r], 1, 1) = <<frames[r][1]>>
      <4>1. 1 <= Len(frames[r])
        BY <2>2
      <4>2. QED
        BY <4>1, <1>b, TheFirst
    <3>4. ~top.owns
      BY <2>2, <1>d
    <3>5. QED
      BY <2>2, <3>2, <3>3, <3>4
  <2>3. QED
    BY <1>d, <2>1, <2>2
<1>f. Owns(r) <=> frames[r][1].owns
  BY <1>a, <1>b, TheOwner
<1>g. Owns(r)' <=> Owns(r) /\ ~top.owns
  <2>1. CASE Len(frames[r]) = 1 /\ top = frames[r][1] /\ frames'[r] = << >>
    <3>1. DOMAIN frames'[r] = {}
      BY <2>1
    <3>2. ~Owns(r)'
      BY <3>1 DEF Owns
    <3>3. QED
      BY <3>2, <2>1, <1>f
  <2>2. CASE Len(frames[r]) = 2 /\ ~top.owns /\ frames'[r] = <<frames[r][1]>>
    <3>1. DOMAIN frames'[r] = {1} /\ frames'[r][1] = frames[r][1]
      BY <2>2
    <3>2. Owns(r)' <=> frames[r][1].owns
      BY <3>1 DEF Owns
    <3>3. QED
      BY <3>2, <2>2, <1>f
  <2>3. QED
    BY <1>e, <2>1, <2>2
<1>h. Over \in [open : BOOLEAN, writes : Writes] /\ NoWrites \in Writes
  BY WritesAreTyped DEF Over
<1>1. OrmTypes'
  <2>1. sure' \in [Runtimes -> BOOLEAN] /\ committed' \in Database
    <3>1. sure' \in [Runtimes -> BOOLEAN]
      BY <1>b, NoticedIsTyped
    <3>2. Install(committed, tx[r].writes) \in Database
      BY <1>b, InstallIsTyped
    <3>3. QED
      BY <1>b, <3>1, <3>2
  <2>2. frames' \in [Runtimes -> Seq(Frame)]
    <3>1. frames[r][1] \in Frame
      BY <1>b, <1>d
    <3>2. frames'[r] \in Seq(Frame)
      BY <1>e, <3>1
    <3>3. QED
      BY <1>b, <1>c, <3>2
  <2>3. ASSUME NEW s \in Runtimes PROVE Len(frames'[s]) <= 2
    <3>1. CASE s = r
      BY <3>1, <1>e
    <3>2. CASE s # r
      <4>1. Nested(s) /\ frames'[s] = frames[s]
        BY <3>2, <1>b DEF OrmInv
      <4>2. QED
        BY <4>1 DEF Nested
    <3>3. QED
      BY <3>1, <3>2
  <2>4. /\ active' \in [Runtimes -> BOOLEAN] /\ tx' \in [Runtimes -> [open : BOOLEAN, writes : Writes]]
        /\ issued' \in [Runtimes -> Writes]
    BY <1>b, <1>h
  <2>5. committed' \in [row : Row \cup {Absent}, many : SUBSET Batches]
    BY <2>1 DEF Database
  <2>6. QED
    BY <1>a, <1>b, <2>1, <2>2, <2>3, <2>4, <2>5 DEF OrmTypes, TypeOK
<1>2. \A s \in Runtimes \ {r} : Leaves(s)
  <2> TAKE s \in Runtimes \ {r}
  <2>1. active'[s] = active[s] /\ tx'[s] = tx[s] /\ issued'[s] = issued[s] /\ frames'[s] = frames[s]
    BY <1>b
  <2>2. committed' \in Database
    BY <1>1 DEF OrmTypes, TypeOK, Database
  <2>3. sure'[s] => sure[s] /\ View(s)'.row = View(s).row
    BY <2>1, <2>2, NoticedLeaves
  <2>4. QED
    BY <1>b, <2>1, <2>3 DEF Leaves
<1>3. Nested(r)'
  <2>1. CASE frames'[r] = << >>
    <3>1. ASSUME NEW s, s = << >> PROVE DOMAIN s = {} /\ Len(s) = 0
      BY ONLY <3>1
    <3>2. DOMAIN frames'[r] = {} /\ Len(frames'[r]) = 0
      BY <2>1, <3>1, Zenon
    <3>3. QED
      BY <3>2 DEF Nested
  <2>2. CASE Len(frames[r]) = 2 /\ frames'[r] = <<frames[r][1]>>
    <3>1. frames[r][1].kind = "transaction" => frames[r][1].owns
      BY <2>2, <1>a, <1>b DEF Nested
    <3>2. DOMAIN frames'[r] = {1} /\ Len(frames'[r]) = 1 /\ frames'[r][1] = frames[r][1]
      BY <2>2
    <3>3. QED
      BY <3>1, <3>2 DEF Nested
  <2>3. QED
    BY <1>e, <2>1, <2>2
<1>4. Owned(r)'
  <2>1. CASE top.owns
    <3>1. active'[r] = FALSE /\ tx'[r] = Over /\ issued'[r] = NoWrites
      BY <2>1, <1>b
    <3>2. tx'[r].open = FALSE /\ tx'[r].writes = NoWrites
      BY <3>1 DEF Over
    <3>3. Owns(r)' = FALSE
      BY <2>1, <1>g DEF Owns
    <3>4. QED
      BY <3>1, <3>2, <3>3, Zenon DEF Owned
  <2>2. CASE ~top.owns
    <3>1. Owns(r)' = Owns(r)
      <4>1. Owns(r)' \in BOOLEAN /\ Owns(r) \in BOOLEAN
        BY DEF Owns
      <4>2. QED
        BY <2>2, <1>g, <4>1
    <3>2. active' = active /\ tx' = tx /\ issued' = issued
      BY <2>2
    <3>3. QED
      BY <3>1, <3>2, <1>a, Zenon DEF Owned
  <2>3. QED
    BY <2>1, <2>2
<1>5. Remembered(r)'
  BY <1>a, <1>b, Zenon DEF Remembered, Dirty
<1>6. Current(r)'
  <2>1. sure'[r] = sure[r]
    BY <1>b, NoticedIsTyped
  <2>2. View(r)' = View(r)
    <3>1. CASE top.owns
      <4>1. Owns(r)
        BY <3>1, <1>e, <1>f
      <4>2. active[r] /\ ~active'[r]
        BY <4>1, <3>1, <1>a, <1>b DEF Owned
      <4>3. committed' = Install(committed, tx[r].writes)
        BY <3>1
      <4>4. QED
        BY <4>2, <4>3 DEF View
    <3>2. CASE ~top.owns
      BY <3>2, SameView
    <3>3. QED
      BY <3>1, <3>2
  <2>3. QED
    BY <2>1, <2>2, <1>a, <1>b, Zenon DEF Current
<1>7. OrmInv'
  BY <1>1, <1>2, <1>3, <1>4, <1>5, <1>6, OneMoves
<1>8. QED
  BY <1>7, <1>g

--------------------------------------------------------------------------------
(* The operations, one by one.                                             *)

LEMMA ScriptCounts ==
    ASSUME OrmInv, NEW r \in Runtimes, Script(r)
    PROVE  /\ steps' \in 0 .. MaxSteps
           /\ frames[r] # << >> => frames[r][Len(frames[r])].kind = "transaction"
<1>1. steps \in 0 .. MaxSteps
  BY DEF OrmInv, OrmTypes, TypeOK
<1>2. QED
  BY <1>1, OrmAssumption DEF Script

\* The batches of a set of rows, one statement for each.
LEMMA BatchesAreTyped ==
    ASSUME NEW S \in SUBSET Batches, NEW s \in Each(S)
    PROVE  /\ [k \in DOMAIN s |-> Put({s[k]})] \in Seq(Statements)
<1>1. Cardinality(S) \in Nat
  <2>1. IsFiniteSet(S)
    BY OrmAssumption, FS_Subset
  <2>2. QED
    BY <2>1, FS_CardinalityType
<1>2. s \in [1 .. Cardinality(S) -> S]
  BY DEF Each
<1>3. \A k \in 1 .. Cardinality(S) : Put({s[k]}) \in Statements
  BY <1>2, WritesAreTyped
<1>4. [k \in 1 .. Cardinality(S) |-> Put({s[k]})] \in Seq(Statements)
  <2>1. [k \in 1 .. Cardinality(S) |-> Put({s[k]})] \in [1 .. Cardinality(S) -> Statements]
    BY <1>3, Zenon
  <2>2. ASSUME NEW n \in Nat, NEW f \in [1 .. n -> Statements] PROVE f \in Seq(Statements)
    OBVIOUS
  <2>3. QED
    BY <1>1, <2>1, <2>2, Zenon
<1>5. DOMAIN s = 1 .. Cardinality(S)
  BY <1>2
<1>6. QED
  BY <1>4, <1>5, Zenon

LEMMA TransactionKeepsInv ==
    ASSUME OrmInv, NEW r \in Runtimes, Transaction(r)
    PROVE  OrmInv'
<1>1. steps' \in 0 .. MaxSteps /\ (frames[r] # << >> => frames[r][Len(frames[r])].kind = "transaction")
  BY ScriptCounts DEF Transaction
<1>2. UNCHANGED <<inst, mine>>
  BY DEF Transaction
<1>3. CASE ~active[r] /\ Open(r, [kind |-> "transaction", owns |-> TRUE, left |-> << >>])
  <2>1. ASSUME NEW f, f = [kind |-> "transaction", owns |-> TRUE, left |-> << >>]
        PROVE  f \in Frame /\ f.owns /\ f.kind = "transaction"
    BY <2>1 DEF Frame
  <2>2. QED
    BY <1>1, <1>2, <1>3, <2>1, OpenKeepsInv
<1>4. CASE Fails(r)
  BY <1>1, <1>2, <1>4, FailsKeepsInv
<1>5. QED
  BY <1>3, <1>4 DEF Transaction

LEMMA InsertManyKeepsInv ==
    ASSUME OrmInv, NEW r \in Runtimes, InsertMany(r)
    PROVE  OrmInv'
<1>1. steps' \in 0 .. MaxSteps /\ (frames[r] # << >> => frames[r][Len(frames[r])].kind = "transaction")
  BY ScriptCounts DEF InsertMany
<1>2. UNCHANGED <<inst, mine>>
  BY DEF InsertMany
<1>3. ASSUME NEW S \in SUBSET Batches, NEW small \in BOOLEAN, NEW s \in Each(S),
             Open(r, [kind |-> "batches", owns |-> ~active[r] /\ ~small, left |-> [k \in DOMAIN s |-> Put({s[k]})]])
      PROVE  OrmInv'
  <2>1. ASSUME NEW x \in Seq(Statements), NEW f, f = [kind |-> "batches", owns |-> ~active[r] /\ ~small, left |-> x]
        PROVE  f \in Frame /\ (f.owns => ~active[r]) /\ f.kind # "transaction"
    BY <2>1 DEF Frame
  <2>2. [k \in DOMAIN s |-> Put({s[k]})] \in Seq(Statements)
    BY BatchesAreTyped
  <2>3. PICK f \in Frame : Open(r, f) /\ (f.owns => ~active[r]) /\ f.kind # "transaction"
    <3>1. PICK x \in Seq(Statements) : x = [k \in DOMAIN s |-> Put({s[k]})]
      BY <2>2, Zenon
    <3>2. PICK f : f = [kind |-> "batches", owns |-> ~active[r] /\ ~small, left |-> x]
      BY Zenon
    <3>3. f \in Frame /\ (f.owns => ~active[r]) /\ f.kind # "transaction"
      BY <3>2, <2>1, Zenon
    <3>4. Open(r, f)
      BY <1>3, <3>1, <3>2, Zenon
    <3>5. QED
      BY <3>3, <3>4, Zenon
  <2>4. QED
    BY <1>1, <1>2, <2>3, OpenKeepsInv
<1>4. CASE Fails(r)
  BY <1>1, <1>2, <1>4, FailsKeepsInv
<1>5. QED
  BY <1>3, <1>4, Zenon DEF InsertMany

LEMMA SyncKeepsInv ==
    ASSUME OrmInv, NEW r \in Runtimes, Sync(r)
    PROVE  OrmInv'
<1>1. steps' \in 0 .. MaxSteps /\ (frames[r] # << >> => frames[r][Len(frames[r])].kind = "transaction")
  BY ScriptCounts DEF Sync
<1>2. UNCHANGED <<inst, mine>>
  BY DEF Sync
<1>3. ASSUME NEW wanted \in SUBSET Batches, NEW s \in Each(wanted \ View(r).many),
             Open(r, [kind |-> "batches", owns |-> ~active[r],
                      left |-> [k \in DOMAIN s |-> Put({s[k]})]
                               \o (IF View(r).many \subseteq wanted THEN << >>
                                   ELSE <<Drop(View(r).many \ wanted)>>)])
      PROVE  OrmInv'
  <2>1. ASSUME NEW x \in Seq(Statements), NEW f, f = [kind |-> "batches", owns |-> ~active[r], left |-> x]
        PROVE  f \in Frame /\ (f.owns => ~active[r]) /\ f.kind # "transaction"
    BY <2>1 DEF Frame
  <2>2. [k \in DOMAIN s |-> Put({s[k]})] \in Seq(Statements)
    <3>1. wanted \ View(r).many \in SUBSET Batches
      OBVIOUS
    <3>2. QED
      BY <3>1, BatchesAreTyped
  <2>3. (IF View(r).many \subseteq wanted THEN << >> ELSE <<Drop(View(r).many \ wanted)>>) \in Seq(Statements)
    <3>1. View(r).many \ wanted \in SUBSET Batches
      BY RuntimeTypes DEF OrmInv, Database
    <3>2. Drop(View(r).many \ wanted) \in Statements
      BY <3>1, WritesAreTyped
    <3>3. << >> \in Seq(Statements) /\ <<Drop(View(r).many \ wanted)>> \in Seq(Statements)
      BY <3>2
    <3>4. QED
      BY <3>3, Zenon
  <2>4. ASSUME NEW x \in Seq(Statements), NEW y \in Seq(Statements) PROVE x \o y \in Seq(Statements)
    OBVIOUS
  <2>5. PICK f \in Frame : Open(r, f) /\ (f.owns => ~active[r]) /\ f.kind # "transaction"
    <3>1. PICK x \in Seq(Statements) : x = [k \in DOMAIN s |-> Put({s[k]})]
                                      \o (IF View(r).many \subseteq wanted THEN << >>
                                          ELSE <<Drop(View(r).many \ wanted)>>)
      BY <2>2, <2>3, <2>4, Zenon
    <3>2. PICK f : f = [kind |-> "batches", owns |-> ~active[r], left |-> x]
      BY Zenon
    <3>3. f \in Frame /\ (f.owns => ~active[r]) /\ f.kind # "transaction"
      BY <3>2, <2>1, Zenon
    <3>4. Open(r, f)
      BY <1>3, <3>1, <3>2, Zenon
    <3>5. QED
      BY <3>3, <3>4, Zenon
  <2>6. QED
    BY <1>1, <1>2, <2>5, OpenKeepsInv
<1>4. CASE Fails(r)
  BY <1>1, <1>2, <1>4, FailsKeepsInv
<1>5. QED
  BY <1>3, <1>4, Zenon DEF Sync

LEMMA RaiseKeepsInv ==
    ASSUME OrmInv, NEW r \in Runtimes, Raise(r)
    PROVE  OrmInv'
BY ScriptCounts, FailsKeepsInv DEF Raise

LEMMA CloseKeepsInv ==
    ASSUME OrmInv, NEW r \in Runtimes, Close(r)
    PROVE  OrmInv'
<1>1. frames[r] # << >> /\ UNCHANGED <<inst, steps, mine>> /\ steps \in 0 .. MaxSteps
  BY DEF Close, OrmInv, OrmTypes, TypeOK
<1>2. CASE Fails(r)
  BY <1>1, <1>2, FailsKeepsInv
<1>3. CASE ~Fails(r)
  <2>1. PICK top : top = frames[r][Len(frames[r])]
    OBVIOUS
  <2>2. /\ frames' = [frames EXCEPT ![r] = SubSeq(@, 1, Len(@) - 1)]
        /\ Noticed(r, sure[r])
        /\ \/ /\ top.owns
              /\ committed' = Install(committed, tx[r].writes)
              /\ tx' = [tx EXCEPT ![r] = Over]
              /\ active' = [active EXCEPT ![r] = FALSE]
              /\ issued' = [issued EXCEPT ![r] = NoWrites]
           \/ ~top.owns /\ UNCHANGED <<committed, tx, active, issued>>
    BY <1>3, <2>1 DEF Close, Over
  <2>3. QED
    BY <1>1, <2>1, <2>2, ReturnKeepsInv
<1>4. QED
  BY <1>2, <1>3

\* One batch of the operation on top.
LEMMA BatchKeepsInv ==
    ASSUME OrmInv, NEW r \in Runtimes, Batch(r)
    PROVE  OrmInv'
<1>a. OrmTypes /\ Nested(r) /\ Remembered(r) /\ Current(r) /\ steps \in 0 .. MaxSteps
  BY DEF OrmInv, OrmTypes, TypeOK
<1>b. frames[r] # << >> /\ UNCHANGED <<inst, steps, mine>>
  BY DEF Batch
<1>1. CASE Fails(r)
  BY <1>1, <1>a, <1>b, FailsKeepsInv
<1>2. CASE ~Fails(r)
  <2>1. PICK n, top : n = Len(frames[r]) /\ top = frames[r][n]
    OBVIOUS
  <2>2. /\ top.left # << >> /\ Exec(r, Head(top.left))
        /\ frames' = [frames EXCEPT ![r] = [frames[r] EXCEPT ![n] = [top EXCEPT !.left = Tail(top.left)]]]
        /\ active' = active /\ sure' = sure
    BY <1>2, <2>1 DEF Batch
  <2>3. frames \in [Runtimes -> Seq(Frame)] /\ frames[r] \in Seq(Frame) /\ n \in DOMAIN frames[r] /\ top \in Frame
    <3>1. frames \in [Runtimes -> Seq(Frame)] /\ frames[r] \in Seq(Frame) /\ n \in DOMAIN frames[r]
      BY <1>a, <1>b, <2>1 DEF OrmTypes
    <3>2. QED
      BY <3>1, <2>1
  <2>4. PICK w \in Statements : w = Head(top.left)
    BY <2>2, <2>3 DEF Frame
  <2>5. w \in Writes /\ w.row = Unset /\ Exec(r, w)
    BY <2>2, <2>4 DEF Statements
  <2>6. PICK f \in Frame : f = [top EXCEPT !.left = Tail(top.left)] /\ f.kind = top.kind /\ f.owns = top.owns
    <3>1. ASSUME NEW l \in Seq(Statements), NEW f, f = [top EXCEPT !.left = l]
          PROVE  f \in Frame /\ f.kind = top.kind /\ f.owns = top.owns
      BY <2>3, <3>1 DEF Frame
    <3>2. Tail(top.left) \in Seq(Statements)
      BY <2>2, <2>3 DEF Frame
    <3>3. QED
      BY <3>1, <3>2, Zenon
  <2>7. frames' = [frames EXCEPT ![r] = [frames[r] EXCEPT ![n] = f]]
    BY <2>2, <2>6, Zenon
  <2>8. PICK g \in Seq(Frame) :
          /\ g = [frames[r] EXCEPT ![n] = f] /\ Len(g) = Len(frames[r]) /\ DOMAIN g = DOMAIN frames[r]
          /\ \A k \in DOMAIN g : g[k].kind = frames[r][k].kind /\ g[k].owns = frames[r][k].owns
    <3>1. [frames[r] EXCEPT ![n] = f] \in Seq(Frame) /\ Len([frames[r] EXCEPT ![n] = f]) = Len(frames[r])
      BY <2>3, ExceptSeq
    <3>2. QED
      BY <3>1, <2>1, <2>3, <2>6
  <2>9. frames' = [frames EXCEPT ![r] = g] /\ frames'[r] = g
    BY <2>3, <2>7, <2>8
  <2>10. Nested(r)' /\ Owns(r)' = Owns(r)
    <3>1. Nested(r)'
      BY <1>a, <2>3, <2>8, <2>9 DEF Nested
    <3>2. \A k \in DOMAIN frames'[r] : frames'[r][k].owns = frames[r][k].owns
      BY <2>8, <2>9
    <3>3. DOMAIN frames'[r] = DOMAIN frames[r]
      BY <2>8, <2>9
    <3>4. Owns(r)' = Owns(r)
      BY <3>2, <3>3, Zenon DEF Owns
    <3>5. QED
      BY <3>1, <3>4
  <2>11. Noticed(r, sure[r])
    <3>1. committed'.row = committed.row
      <4>1. committed \in Database
        BY <1>a, RuntimeTypes
      <4>2. Install(committed, w).row = committed.row
        BY <4>1, <2>5, InstallIsTyped
      <4>3. committed' = committed \/ committed' = Install(committed, w)
        BY <2>5 DEF Exec
      <4>4. QED
        BY <4>2, <4>3
    <3>2. sure \in [Runtimes -> BOOLEAN]
      BY <1>a DEF OrmTypes
    <3>3. QED
      BY <2>2, <3>1, <3>2 DEF Noticed
  <2>12. PICK i, m, own : i = inst[r] /\ m = mine[r] /\ own = sure[r]
    OBVIOUS
  <2>13. /\ i \in Instances /\ inst' = [inst EXCEPT ![r] = i]
         /\ m \in SUBSET Columns /\ mine' = [mine EXCEPT ![r] = m]
         /\ own \in BOOLEAN
    BY <1>a, <1>b, <2>12 DEF OrmTypes, TypeOK, Instances
  <2>14. /\ i.cur.gone = i.orig.gone /\ (~i.exists /\ ~i.deleted => ~i.cur.gone) /\ Dirty(i) \subseteq m
         /\ own /\ i.exists => i.orig = (IF w.row = Unset THEN View(r).row ELSE w.row)
    BY <1>a, <2>5, <2>12, Zenon DEF Remembered, Current
  <2>15. frames' \in [Runtimes -> Seq(Frame)] /\ \A s \in Runtimes \ {r} : frames'[s] = frames[s]
    BY <2>3, <2>9
  <2>16. Noticed(r, own) /\ steps' \in 0 .. MaxSteps
    BY <1>a, <1>b, <2>11, <2>12
  <2>17. QED
    BY <2>2, <2>5, <2>10, <2>13, <2>14, <2>15, <2>16, WriteKeepsInv
<1>3. QED
  BY <1>1, <1>2

--------------------------------------------------------------------------------
(* The operations of models.                                               *)

LEMMA RowsEqual ==
    ASSUME NEW x \in Row, NEW y \in Row, x.a = y.a, x.b = y.b, x.gone = y.gone
    PROVE  x = y
BY DEF Row

\* The changed columns are those that differ from the values remembered.
LEMMA WhatIsDirty ==
    ASSUME NEW i \in Instances
    PROVE  /\ "a" \notin Dirty(i) => i.cur.a = i.orig.a
           /\ "b" \notin Dirty(i) => i.cur.b = i.orig.b
           /\ Dirty(i) = {} /\ i.cur.gone = i.orig.gone => i.cur = i.orig
           /\ i.cur = i.orig => Dirty(i) = {}
           /\ i.cur.gone = i.orig.gone => Updated(i, i.orig) = i.cur
<1>1. i.cur \in Row /\ i.orig \in Row
  BY DEF Instances
<1>2. "a" \notin Dirty(i) => i.cur.a = i.orig.a
  BY DEF Dirty, Columns
<1>3. "b" \notin Dirty(i) => i.cur.b = i.orig.b
  BY DEF Dirty, Columns
<1>4. Dirty(i) = {} /\ i.cur.gone = i.orig.gone => i.cur = i.orig
  BY <1>1, <1>2, <1>3, RowsEqual
<1>5. i.cur = i.orig => Dirty(i) = {}
  BY DEF Dirty
<1>6. ASSUME i.cur.gone = i.orig.gone PROVE Updated(i, i.orig) = i.cur
  <2>1. /\ Updated(i, i.orig) \in Row /\ Updated(i, i.orig).gone = i.orig.gone
        /\ Updated(i, i.orig).a = (IF "a" \in Dirty(i) THEN i.cur.a ELSE i.orig.a)
        /\ Updated(i, i.orig).b = (IF "b" \in Dirty(i) THEN i.cur.b ELSE i.orig.b)
    BY <1>1 DEF Updated, Row
  <2>2. Updated(i, i.orig).a = i.cur.a /\ Updated(i, i.orig).b = i.cur.b
    BY <2>1, <1>2, <1>3
  <2>3. QED
    BY <1>1, <1>6, <2>1, <2>2, RowsEqual
<1>7. QED
  BY <1>2, <1>3, <1>4, <1>5, <1>6

LEMMA SyncedIsClean ==
    ASSUME NEW i \in Instances
    PROVE  /\ Synced(i) \in Instances /\ Dirty(Synced(i)) = {}
           /\ Synced(i).cur = i.cur /\ Synced(i).orig = i.cur
           /\ Synced(i).exists = i.exists /\ Synced(i).deleted = i.deleted
<1>1. /\ Synced(i) \in Instances
      /\ Synced(i).cur = i.cur /\ Synced(i).orig = i.cur
      /\ Synced(i).exists = i.exists /\ Synced(i).deleted = i.deleted
  BY DEF Synced, Instances
<1>2. QED
  BY <1>1, WhatIsDirty

\* A statement of an operation on a model, and what its instance is then.
LEMMA DoesKeepsInv ==
    ASSUME OrmInv, NEW r \in Runtimes, NEW w \in Writes, NEW i \in Instances, NEW own \in BOOLEAN, NEW what,
           Does(r, w, i, own, what), Script(r),
           NEW m \in SUBSET Columns, mine' = [mine EXCEPT ![r] = m],
           i.cur.gone = i.orig.gone, ~i.exists /\ ~i.deleted => ~i.cur.gone, Dirty(i) \subseteq m,
           own /\ i.exists => i.orig = (IF w.row = Unset THEN View(r).row ELSE w.row)
    PROVE  OrmInv'
<1>1. /\ Exec(r, w) /\ active' = active /\ frames' = frames
      /\ inst' = [inst EXCEPT ![r] = i] /\ Noticed(r, own)
  BY DEF Does
<1>2. steps' \in 0 .. MaxSteps
  BY ScriptCounts
<1>3. frames \in [Runtimes -> Seq(Frame)] /\ Nested(r)
  BY DEF OrmInv, OrmTypes
<1>4. Nested(r)' /\ Owns(r)' = Owns(r)
  <2>1. Nested(r)'
    BY <1>1, <1>3, Zenon DEF Nested
  <2>2. Owns(r)' = Owns(r)
    BY <1>1, Zenon DEF Owns
  <2>3. QED
    BY <2>1, <2>2
<1>5. QED
  BY <1>1, <1>2, <1>3, <1>4, WriteKeepsInv

\* The instance of a runtime.
LEMMA InstanceTypes ==
    ASSUME OrmInv, NEW r \in Runtimes
    PROVE  /\ inst \in [Runtimes -> Instances] /\ inst[r] \in Instances /\ inst[r].cur \in Row /\ inst[r].orig \in Row
           /\ inst[r].exists \in BOOLEAN /\ inst[r].deleted \in BOOLEAN
           /\ mine \in [Runtimes -> SUBSET Columns] /\ mine[r] \in SUBSET Columns
           /\ sure \in [Runtimes -> BOOLEAN] /\ sure[r] \in BOOLEAN
           /\ Remembered(r) /\ Current(r)
           /\ View(r).row \in Row \cup {Absent} /\ (View(r).row # Absent => View(r).row \in Row)
<1>1. /\ inst \in [Runtimes -> Instances] /\ mine \in [Runtimes -> SUBSET Columns]
      /\ sure \in [Runtimes -> BOOLEAN] /\ Remembered(r) /\ Current(r)
  BY DEF OrmInv, OrmTypes, TypeOK, Instances
<1>2. inst[r] \in Instances /\ mine[r] \in SUBSET Columns /\ sure[r] \in BOOLEAN
  BY <1>1
<1>3. inst[r].cur \in Row /\ inst[r].orig \in Row /\ inst[r].exists \in BOOLEAN /\ inst[r].deleted \in BOOLEAN
  BY <1>2 DEF Instances
<1>4. View(r) \in Database
  BY RuntimeTypes DEF OrmInv
<1>5. View(r).row \in Row \cup {Absent} /\ (View(r).row # Absent => View(r).row \in Row)
  BY <1>4 DEF Database
<1>6. QED
  BY <1>1, <1>2, <1>3, <1>5

LEMMA GivesKeepsInv ==
    ASSUME OrmInv, NEW r \in Runtimes, Script(r), Gives(r)
    PROVE  OrmInv'
BY ScriptCounts, FailsKeepsInv DEF Gives

LEMMA SaveExistingKeepsInv ==
    ASSUME OrmInv, NEW r \in Runtimes, SaveExisting(r)
    PROVE  OrmInv'
<1>a. /\ Script(r) /\ inst[r].exists /\ ~inst[r].deleted
      /\ inst \in [Runtimes -> Instances] /\ inst[r] \in Instances /\ inst[r].cur \in Row /\ inst[r].orig \in Row
      /\ sure[r] \in BOOLEAN /\ Remembered(r) /\ Current(r)
  BY InstanceTypes DEF SaveExisting
<1>1. CASE Gives(r)
  BY <1>1, <1>a, GivesKeepsInv
<1>2. ASSUME NEW i \in Hooked(inst[r]), mine' = [mine EXCEPT ![r] = {}],
             Does(r, IF Visible(r) THEN ToRow(Updated(inst[r], View(r).row)) ELSE NoWrites,
                  Synced(i), sure[r] /\ Visible(r) /\ i = inst[r], "saved")
      PROVE  OrmInv'
  <2>1. i \in Instances /\ i.exists = inst[r].exists
    <3>1. CASE i = inst[r]
      BY <3>1, <1>a
    <3>2. ASSUME NEW v \in Vals, i = [inst[r] EXCEPT !.cur["a"] = v] PROVE i \in Instances /\ i.exists = inst[r].exists
      BY <1>a, <3>2 DEF Instances, Row
    <3>3. ASSUME NEW v \in Vals, i = [inst[r] EXCEPT !.cur["b"] = v] PROVE i \in Instances /\ i.exists = inst[r].exists
      BY <1>a, <3>3 DEF Instances, Row
    <3>4. QED
      BY <3>1, <3>2, <3>3 DEF Hooked, Columns
  <2>2. PICK w, own : /\ w = (IF Visible(r) THEN ToRow(Updated(inst[r], View(r).row)) ELSE NoWrites)
                      /\ own = (sure[r] /\ Visible(r) /\ i = inst[r])
    OBVIOUS
  <2>3. w \in Writes /\ own \in BOOLEAN
    <3>1. CASE Visible(r)
      <4>1. View(r).row \in Row
        BY <3>1, InstanceTypes DEF Visible
      <4>2. Updated(inst[r], View(r).row) \in Row
        BY <4>1, <1>a DEF Updated, Row
      <4>3. QED
        BY <2>2, <3>1, <4>2, WritesAreTyped, Zenon
    <3>2. CASE ~Visible(r)
      BY <2>2, <3>2, WritesAreTyped, Zenon
    <3>3. QED
      BY <3>1, <3>2
  <2>4. ASSUME own PROVE Synced(i).orig = (IF w.row = Unset THEN View(r).row ELSE w.row)
    <3>1. sure[r] /\ Visible(r) /\ i = inst[r]
      BY <2>2, <2>4
    <3>2. inst[r].orig = View(r).row
      BY <3>1, <1>a DEF Current
    <3>3. Updated(inst[r], View(r).row) = inst[r].cur
      BY <3>2, <1>a, WhatIsDirty DEF Remembered
    <3>4. w = ToRow(inst[r].cur)
      BY <2>2, <3>1, <3>3, Zenon
    <3>5. w.row = inst[r].cur /\ w.row # Unset
      BY <3>4, <1>a, WritesAreTyped
    <3>6. QED
      BY <3>1, <3>5, <2>1, SyncedIsClean
  <2>5. Synced(i) \in Instances /\ Dirty(Synced(i)) = {} /\ Synced(i).cur.gone = Synced(i).orig.gone /\ Synced(i).exists
    BY <2>1, <1>a, SyncedIsClean
  <2>6. Does(r, w, Synced(i), own, "saved")
    BY <1>2, <2>2
  <2>7. QED
    BY <1>2, <1>a, <2>3, <2>4, <2>5, <2>6, DoesKeepsInv
<1>3. QED
  BY <1>1, <1>2 DEF SaveExisting

LEMMA SaveNewKeepsInv ==
    ASSUME OrmInv, NEW r \in Runtimes, SaveNew(r)
    PROVE  OrmInv'
<1>a. /\ Script(r) /\ ~inst[r].exists /\ ~inst[r].deleted
      /\ inst[r] \in Instances /\ inst[r].cur \in Row /\ Remembered(r)
  BY InstanceTypes DEF SaveNew
<1>1. CASE Gives(r)
  BY <1>1, <1>a, GivesKeepsInv
<1>2. CASE ~Gives(r)
  <2>1. PICK w, i : /\ w = ToRow([inst[r].cur EXCEPT !.gone = FALSE])
                    /\ i = [Synced(inst[r]) EXCEPT !.exists = TRUE, !.key = TRUE]
    OBVIOUS
  <2>2. Does(r, w, i, TRUE, "step") /\ mine' = [mine EXCEPT ![r] = {}]
    BY <1>2, <2>1 DEF SaveNew
  <2>3. ~inst[r].cur.gone
    BY <1>a DEF Remembered
  <2>4. [inst[r].cur EXCEPT !.gone = FALSE] = inst[r].cur
    BY <2>3, <1>a DEF Row
  <2>5. w = ToRow(inst[r].cur)
    BY <2>1, <2>4, Zenon
  <2>6. w \in Writes /\ w.row = inst[r].cur /\ w.row # Unset
    BY <2>5, <1>a, WritesAreTyped
  <2>7. i \in Instances /\ i.cur = inst[r].cur /\ i.orig = inst[r].cur /\ i.exists
    BY <2>1, <1>a, SyncedIsClean DEF Instances
  <2>8. Dirty(i) = {}
    BY <2>7, WhatIsDirty
  <2>9. QED
    BY <1>a, <2>2, <2>6, <2>7, <2>8, DoesKeepsInv
<1>3. QED
  BY <1>1, <1>2

\* delete and restore mark the row as the instance is marked.
LEMMA MarkKeepsInv ==
    ASSUME OrmInv, NEW r \in Runtimes, Script(r), inst[r].exists, NEW g \in BOOLEAN,
           NEW w, w = (IF View(r).row = Absent THEN NoWrites ELSE ToRow([View(r).row EXCEPT !.gone = g])),
           NEW i, i = [Synced([inst[r] EXCEPT !.cur.gone = g]) EXCEPT !.deleted = g],
           NEW own, own = (sure[r] /\ Dirty(inst[r]) = {}) \/ own = (sure[r] /\ Dirty(inst[r]) = {} /\ View(r).row # Absent),
           Does(r, w, i, own, "step"), mine' = mine
    PROVE  OrmInv'
<1>a. /\ inst[r] \in Instances /\ inst[r].cur \in Row /\ inst[r].orig \in Row /\ mine \in [Runtimes -> SUBSET Columns]
      /\ mine[r] \in SUBSET Columns /\ sure[r] \in BOOLEAN /\ Remembered(r) /\ Current(r)
      /\ (View(r).row # Absent => View(r).row \in Row)
  BY InstanceTypes
<1>1. own \in BOOLEAN /\ (own => sure[r] /\ Dirty(inst[r]) = {})
  BY <1>a
<1>2. [inst[r].cur EXCEPT !.gone = g] \in Row
  BY <1>a DEF Row
<1>3. PICK j \in Instances : j = [inst[r] EXCEPT !.cur.gone = g] /\ j.cur = [inst[r].cur EXCEPT !.gone = g] /\ j.exists
  <2>1. ASSUME NEW j, j = [inst[r] EXCEPT !.cur.gone = g]
        PROVE  j \in Instances /\ j.cur = [inst[r].cur EXCEPT !.gone = g] /\ j.exists
    BY <1>a, <1>2, <2>1 DEF Instances
  <2>2. QED
    BY <2>1
<1>4. /\ i \in Instances /\ i.cur = j.cur /\ i.orig = j.cur /\ i.exists
      /\ i.cur = [inst[r].cur EXCEPT !.gone = g] /\ i.deleted = g
  <2>1. i = [Synced(j) EXCEPT !.deleted = g]
    BY <1>3
  <2>2. Synced(j) \in Instances /\ Synced(j).cur = j.cur /\ Synced(j).orig = j.cur /\ Synced(j).exists
    BY <1>3, SyncedIsClean
  <2>3. QED
    BY <2>1, <2>2, <1>3 DEF Instances
<1>5. Dirty(i) = {} /\ i.cur.gone = i.orig.gone
  BY <1>4, WhatIsDirty
<1>6. w \in Writes
  <2>1. CASE View(r).row = Absent
    BY <2>1, WritesAreTyped, Zenon
  <2>2. CASE View(r).row # Absent
    <3>1. [View(r).row EXCEPT !.gone = g] \in Row
      BY <1>a, <2>2 DEF Row
    <3>2. QED
      BY <2>2, <3>1, WritesAreTyped, Zenon
  <2>3. QED
    BY <2>1, <2>2
<1>7. ASSUME own PROVE i.orig = (IF w.row = Unset THEN View(r).row ELSE w.row)
  <2>1. sure[r] /\ Dirty(inst[r]) = {} /\ inst[r].cur.gone = inst[r].orig.gone
    BY <1>1, <1>7, <1>a DEF Remembered
  <2>2. inst[r].cur = View(r).row
    BY <2>1, <1>a, WhatIsDirty DEF Current
  <2>3. View(r).row # Absent
    BY <2>2, <1>a, WritesAreTyped
  <2>4. w = ToRow([inst[r].cur EXCEPT !.gone = g])
    BY <2>2, <2>3, Zenon
  <2>5. w.row = [inst[r].cur EXCEPT !.gone = g] /\ w.row # Unset
    BY <2>4, <1>2, WritesAreTyped
  <2>6. QED
    BY <2>5, <1>4
<1>8. mine' = [mine EXCEPT ![r] = mine[r]] /\ Dirty(i) \subseteq mine[r]
  BY <1>a, <1>5
<1>9. ~i.exists /\ ~i.deleted => ~i.cur.gone
  BY <1>4
<1>10. own \in BOOLEAN /\ i \in Instances /\ mine[r] \in SUBSET Columns
  BY <1>1, <1>4, <1>a
<1>11. OrmInv /\ Script(r) /\ Does(r, w, i, own, "step") /\ r \in Runtimes
  OBVIOUS
<1>12. QED
  BY ONLY <1>5, <1>6, <1>7, <1>8, <1>9, <1>10, <1>11, DoesKeepsInv

LEMMA DeleteModelKeepsInv ==
    ASSUME OrmInv, NEW r \in Runtimes, DeleteModel(r)
    PROVE  OrmInv'
<1>1. Script(r) /\ inst[r].exists
  BY DEF DeleteModel
<1>2. CASE Gives(r)
  BY <1>1, <1>2, GivesKeepsInv
<1>3. CASE ~Gives(r)
  <2>1. /\ Does(r, IF View(r).row = Absent THEN NoWrites ELSE ToRow([View(r).row EXCEPT !.gone = TRUE]),
                [Synced([inst[r] EXCEPT !.cur.gone = TRUE]) EXCEPT !.deleted = TRUE],
                sure[r] /\ Dirty(inst[r]) = {}, "step")
        /\ mine' = mine
    BY <1>3 DEF DeleteModel
  <2>2. QED
    BY <1>1, <2>1, MarkKeepsInv
<1>4. QED
  BY <1>2, <1>3

LEMMA RestoreModelKeepsInv ==
    ASSUME OrmInv, NEW r \in Runtimes, RestoreModel(r)
    PROVE  OrmInv'
<1>1. Script(r) /\ inst[r].exists
  BY DEF RestoreModel
<1>2. CASE Gives(r)
  BY <1>1, <1>2, GivesKeepsInv
<1>3. CASE ~Gives(r)
  <2>1. /\ Does(r, IF View(r).row = Absent THEN NoWrites ELSE ToRow([View(r).row EXCEPT !.gone = FALSE]),
                [Synced([inst[r] EXCEPT !.cur.gone = FALSE]) EXCEPT !.deleted = FALSE],
                sure[r] /\ Dirty(inst[r]) = {} /\ View(r).row # Absent, "step")
        /\ mine' = mine
    BY <1>3 DEF RestoreModel
  <2>2. QED
    BY <1>1, <2>1, MarkKeepsInv
<1>4. QED
  BY <1>2, <1>3

LEMMA ForceDeleteKeepsInv ==
    ASSUME OrmInv, NEW r \in Runtimes, ForceDelete(r)
    PROVE  OrmInv'
<1>a. /\ Script(r) /\ inst[r] \in Instances /\ Remembered(r) /\ mine \in [Runtimes -> SUBSET Columns]
      /\ mine[r] \in SUBSET Columns
  BY InstanceTypes DEF ForceDelete
<1>1. CASE Gives(r)
  BY <1>1, <1>a, GivesKeepsInv
<1>2. CASE ~Gives(r)
  <2>1. PICK w, i : /\ w = (IF View(r).row = Absent THEN NoWrites ELSE ToRow(Absent))
                    /\ i = [inst[r] EXCEPT !.deleted = TRUE, !.exists = FALSE]
    OBVIOUS
  <2>2. Does(r, w, i, FALSE, "step") /\ mine' = mine
    BY <1>2, <2>1 DEF ForceDelete
  <2>3. w \in Writes
    BY <2>1, WritesAreTyped, Zenon
  <2>4. i \in Instances /\ i.cur = inst[r].cur /\ i.orig = inst[r].orig /\ i.deleted
    BY <2>1, <1>a DEF Instances
  <2>5. Dirty(i) \subseteq mine[r] /\ i.cur.gone = i.orig.gone
    BY <2>4, <1>a DEF Remembered, Dirty
  <2>6. mine' = [mine EXCEPT ![r] = mine[r]]
    BY <2>2, <1>a
  <2>7. QED
    BY <1>a, <2>2, <2>3, <2>4, <2>5, <2>6, DoesKeepsInv
<1>3. QED
  BY <1>1, <1>2

\* A step that writes nothing.
LEMMA LocalKeepsInv ==
    ASSUME OrmInv, NEW r \in Runtimes, Script(r), UNCHANGED <<committed, active, tx, frames, issued>>,
           NEW i \in Instances, inst' = [inst EXCEPT ![r] = i],
           NEW m \in SUBSET Columns, mine' = [mine EXCEPT ![r] = m],
           NEW own \in BOOLEAN, sure' = [sure EXCEPT ![r] = own],
           i.cur.gone = i.orig.gone, ~i.exists /\ ~i.deleted => ~i.cur.gone, Dirty(i) \subseteq m,
           own /\ i.exists => i.orig = View(r).row
    PROVE  OrmInv'
<1>a. OrmTypes /\ Nested(r) /\ Owned(r) /\ steps' \in 0 .. MaxSteps
  BY ScriptCounts DEF OrmInv
<1>b. /\ inst \in [Runtimes -> Instances] /\ mine \in [Runtimes -> SUBSET Columns] /\ sure \in [Runtimes -> BOOLEAN]
  BY InstanceTypes
<1>c. /\ committed' = committed /\ active' = active /\ tx' = tx /\ frames' = frames /\ issued' = issued
  OBVIOUS
<1>d. inst'[r] = i /\ mine'[r] = m /\ sure'[r] = own
  BY <1>b
<1>1. OrmTypes'
  <2>1. inst' \in [Runtimes -> Instances] /\ mine' \in [Runtimes -> SUBSET Columns] /\ sure' \in [Runtimes -> BOOLEAN]
    BY <1>b
  <2>2. QED
    BY <1>a, <1>c, <2>1 DEF OrmTypes, TypeOK, Instances
<1>2. \A s \in Runtimes \ {r} : Leaves(s)
  <2> TAKE s \in Runtimes \ {r}
  <2>1. inst'[s] = inst[s] /\ mine'[s] = mine[s] /\ sure'[s] = sure[s]
    BY <1>b
  <2>2. View(s)' = View(s)
    BY <1>c, SameView
  <2>3. QED
    BY <1>c, <2>1, <2>2 DEF Leaves
<1>3. Nested(r)' /\ Owned(r)'
  <2>1. Nested(r)'
    BY <1>a, <1>c, Zenon DEF Nested
  <2>2. Owned(r)'
    BY <1>a, <1>c, Zenon DEF Owned, Owns
  <2>3. QED
    BY <2>1, <2>2
<1>4. Remembered(r)'
  <2>1. Dirty(inst'[r]) \subseteq mine'[r]
    BY <1>d
  <2>2. QED
    BY <1>d, <2>1 DEF Remembered, Dirty
<1>5. Current(r)'
  <2>1. View(r)' = View(r)
    BY <1>c, SameView
  <2>2. QED
    BY <1>d, <2>1, Zenon DEF Current
<1>6. QED
  BY <1>1, <1>2, <1>3, <1>4, <1>5, OneMoves

LEMMA LoadKeepsInv ==
    ASSUME OrmInv, NEW r \in Runtimes, NEW t \in BOOLEAN, Load(r, t)
    PROVE  OrmInv'
<1>1. /\ Script(r) /\ View(r).row # Absent /\ UNCHANGED <<committed, active, tx, frames, issued>>
      /\ inst' = [inst EXCEPT ![r] = [exists |-> TRUE, deleted |-> FALSE, key |-> TRUE, held |-> TRUE,
                                      orig |-> View(r).row, cur |-> View(r).row]]
      /\ mine' = [mine EXCEPT ![r] = {}] /\ sure' = [sure EXCEPT ![r] = TRUE]
  BY DEF Load
<1>2. PICK i : i = [exists |-> TRUE, deleted |-> FALSE, key |-> TRUE, held |-> TRUE,
                    orig |-> View(r).row, cur |-> View(r).row]
  OBVIOUS
<1>3. View(r).row \in Row
  BY <1>1, InstanceTypes
<1>4. i \in Instances /\ i.orig = View(r).row /\ i.cur = View(r).row /\ i.exists
  BY <1>2, <1>3 DEF Instances
<1>5. Dirty(i) = {}
  BY <1>4, WhatIsDirty
<1>6. QED
  BY <1>1, <1>2, <1>4, <1>5, LocalKeepsInv

LEMMA NewKeepsInv ==
    ASSUME OrmInv, NEW r \in Runtimes, New(r)
    PROVE  OrmInv'
<1>1. /\ Script(r) /\ UNCHANGED <<committed, active, tx, frames, issued, sure>>
      /\ inst' = [inst EXCEPT ![r] = [NoInstance EXCEPT !.held = TRUE]]
      /\ mine' = [mine EXCEPT ![r] = {}]
  BY DEF New
<1>2. PICK i : i = [NoInstance EXCEPT !.held = TRUE]
  OBVIOUS
<1>3. i \in Instances /\ i.orig = i.cur /\ ~i.cur.gone /\ ~i.exists
  BY <1>2, NoInstanceIsTyped DEF Instances
<1>4. Dirty(i) = {}
  BY <1>3, WhatIsDirty
<1>5. sure[r] \in BOOLEAN /\ sure' = [sure EXCEPT ![r] = sure[r]]
  BY <1>1, InstanceTypes
<1>6. QED
  BY <1>1, <1>2, <1>3, <1>4, <1>5, LocalKeepsInv

LEMMA AssignKeepsInv ==
    ASSUME OrmInv, NEW r \in Runtimes, Assign(r)
    PROVE  OrmInv'
<1>a. /\ Script(r) /\ UNCHANGED <<committed, active, tx, frames, issued, sure>>
      /\ inst[r] \in Instances /\ inst[r].cur \in Row /\ mine[r] \in SUBSET Columns /\ sure[r] \in BOOLEAN
      /\ inst \in [Runtimes -> Instances] /\ sure \in [Runtimes -> BOOLEAN] /\ Remembered(r) /\ Current(r)
  BY InstanceTypes DEF Assign
<1>1. PICK c \in Columns, v \in Vals : /\ inst' = [inst EXCEPT ![r].cur[c] = v]
                                       /\ mine' = [mine EXCEPT ![r] = mine[r] \cup {c}]
  BY DEF Assign
<1>2. PICK i : i = [inst[r] EXCEPT !.cur[c] = v]
  OBVIOUS
<1>3. inst' = [inst EXCEPT ![r] = i]
  BY <1>1, <1>2, <1>a
<1>4. /\ i \in Instances /\ i.orig = inst[r].orig /\ i.exists = inst[r].exists /\ i.deleted = inst[r].deleted
      /\ i.cur.gone = inst[r].cur.gone /\ \A d \in Columns \ {c} : i.cur[d] = inst[r].cur[d]
  <2>1. CASE c = "a"
    BY <1>2, <1>a, <2>1 DEF Instances, Row, Columns
  <2>2. CASE c = "b"
    BY <1>2, <1>a, <2>2 DEF Instances, Row, Columns
  <2>3. QED
    BY <2>1, <2>2 DEF Columns
<1>5. Dirty(i) \subseteq mine[r] \cup {c}
  BY <1>4, <1>a DEF Dirty, Remembered
<1>6. /\ i.cur.gone = i.orig.gone /\ (~i.exists /\ ~i.deleted => ~i.cur.gone)
      /\ (sure[r] /\ i.exists => i.orig = View(r).row)
  BY <1>4, <1>a DEF Remembered, Current
<1>7. sure' = [sure EXCEPT ![r] = sure[r]] /\ mine[r] \cup {c} \in SUBSET Columns
  BY <1>a
<1>8. QED
  BY <1>1, <1>3, <1>4, <1>5, <1>6, <1>7, <1>a, LocalKeepsInv

LEMMA RefreshKeepsInv ==
    ASSUME OrmInv, NEW r \in Runtimes, Refresh(r)
    PROVE  OrmInv'
<1>a. Script(r) /\ inst[r].exists /\ inst[r] \in Instances
  BY InstanceTypes DEF Refresh
<1>1. CASE Gives(r)
  BY <1>1, <1>a, GivesKeepsInv
<1>2. CASE ~Gives(r)
  <2>1. /\ Visible(r) /\ UNCHANGED <<committed, active, tx, frames, issued>>
        /\ inst' = [inst EXCEPT ![r] = Refreshed(inst[r], View(r).row)]
        /\ mine' = [mine EXCEPT ![r] = {}] /\ sure' = [sure EXCEPT ![r] = TRUE]
    BY <1>2 DEF Refresh
  <2>2. View(r).row \in Row
    BY <2>1, InstanceTypes DEF Visible
  <2>3. PICK i : i = Refreshed(inst[r], View(r).row)
    OBVIOUS
  <2>4. i \in Instances /\ i.orig = View(r).row /\ i.cur = View(r).row /\ i.exists
    BY <2>2, <2>3, <1>a DEF Refreshed, Instances
  <2>5. Dirty(i) = {}
    BY <2>4, WhatIsDirty
  <2>6. QED
    BY <1>a, <2>1, <2>3, <2>4, <2>5, LocalKeepsInv
<1>3. QED
  BY <1>1, <1>2

LEMMA OrmInvNext == OrmInv /\ [Next]_vars => OrmInv'
<1> SUFFICES ASSUME OrmInv, [Next]_vars PROVE OrmInv'
  OBVIOUS
<1>1. ASSUME NEW r \in Runtimes,
             \/ Transaction(r) \/ InsertMany(r) \/ Sync(r) \/ Batch(r) \/ Close(r) \/ Raise(r)
             \/ (\E t \in BOOLEAN : Load(r, t)) \/ New(r) \/ Assign(r)
             \/ SaveExisting(r) \/ SaveNew(r)
             \/ DeleteModel(r) \/ RestoreModel(r) \/ ForceDelete(r) \/ Refresh(r)
      PROVE  OrmInv'
  <2>1. CASE Transaction(r) \/ InsertMany(r) \/ Sync(r) \/ Batch(r) \/ Close(r) \/ Raise(r)
    BY <2>1, TransactionKeepsInv, InsertManyKeepsInv, SyncKeepsInv, BatchKeepsInv, CloseKeepsInv, RaiseKeepsInv
  <2>2. CASE (\E t \in BOOLEAN : Load(r, t)) \/ New(r) \/ Assign(r) \/ Refresh(r)
    BY <2>2, LoadKeepsInv, NewKeepsInv, AssignKeepsInv, RefreshKeepsInv
  <2>3. CASE SaveExisting(r) \/ SaveNew(r) \/ DeleteModel(r) \/ RestoreModel(r) \/ ForceDelete(r)
    BY <2>3, SaveExistingKeepsInv, SaveNewKeepsInv, DeleteModelKeepsInv, RestoreModelKeepsInv, ForceDeleteKeepsInv
  <2>4. QED
    BY <1>1, <2>1, <2>2, <2>3
<1>2. CASE UNCHANGED vars
  <2>1. /\ committed' = committed /\ active' = active /\ tx' = tx /\ frames' = frames /\ inst' = inst
        /\ steps' = steps /\ issued' = issued /\ mine' = mine /\ sure' = sure
    BY <1>2 DEF vars
  <2>2. OrmTypes'
    BY <2>1, Zenon DEF OrmInv, OrmTypes, TypeOK
  <2>3. ASSUME NEW r \in Runtimes PROVE Nested(r)' /\ Owned(r)' /\ Remembered(r)' /\ Current(r)'
    <3>1. Nested(r) /\ Owned(r) /\ Remembered(r) /\ Current(r)
      BY DEF OrmInv
    <3>2. QED
      BY <2>1, <3>1, Zenon DEF Nested, Owned, Owns, Remembered, Dirty, Current, View
  <2>4. QED
    BY <2>2, <2>3 DEF OrmInv
<1>3. QED
  BY <1>1, <1>2 DEF Next

LEMMA OrmInvariant == Spec => []OrmInv
BY OrmInvInit, OrmInvNext, PTL DEF Spec

--------------------------------------------------------------------------------
(* The theorems.                                                           *)

(* The variables of transactions and models hold values of the expected form. *)
THEOREM OrmIsTyped == Spec => []TypeOK
<1>1. OrmInv => TypeOK
  BY DEF OrmInv, OrmTypes
<1>2. QED
  BY <1>1, OrmInvariant, PTL

(* However the operations of a runtime end, a transaction is open in the       *)
(* database and set as activeTx exactly while the operation that owns it runs: *)
(* transaction, insertMany, a large upsert or the changes of a pivot table.    *)
THEOREM TransactionsReleased == Spec => []TransactionsAreReleased
<1>1. OrmInv => TransactionsAreReleased
  BY DEF OrmInv, Owned, TransactionsAreReleased
<1>2. QED
  BY <1>1, OrmInvariant, PTL

(* A clean instance of a model holds what its row holds, for any number of     *)
(* runtimes and any sequence of operations, until one of the events happens    *)
(* that save, refresh and the hooks cannot see.                                *)
THEOREM ModelsStayCurrent == Spec => []CleanModelsAreCurrent
<1>1. OrmInv => CleanModelsAreCurrent
  BY DEF OrmInv, Current, CleanModelsAreCurrent
<1>2. QED
  BY <1>1, OrmInvariant, PTL

--------------------------------------------------------------------------------
(* What one step does to what is committed, and to a row that is saved.    *)

\* A step of r: an owner's writes are committed together, when it returns.
Acts(r) ==
    /\ who'.r = r /\ who'.did \in {"step", "raised", "returned", "saved"}
    /\ Owns(r) => committed' = IF who'.did = "returned" /\ ~Owns(r)' THEN Install(committed, issued[r]) ELSE committed

LEMMA FailsActs ==
    ASSUME OrmInv, NEW r \in Runtimes, Fails(r)
    PROVE  Acts(r) /\ who'.did # "saved"
<1>1. committed' = committed /\ who'.r = r /\ who'.did \in {"raised", "step"}
  BY UnwindDoes
<1>2. QED
  BY <1>1 DEF Acts

LEMMA OpenActs ==
    ASSUME NEW r \in Runtimes, NEW f, Open(r, f)
    PROVE  Acts(r) /\ who'.did # "saved"
BY DEF Open, Did, Acts

LEMMA ExecActs ==
    ASSUME OrmInv, NEW r \in Runtimes, NEW w, Exec(r, w), NEW what \in {"step", "saved"}, Did(r, what)
    PROVE  Acts(r) /\ who'.did = what
<1>1. who'.r = r /\ who'.did = what
  BY DEF Did
<1>2. Owns(r) => active[r]
  <2>1. active[r] = Owns(r)
    BY DEF OrmInv, Owned
  <2>2. QED
    BY <2>1
<1>3. active[r] => committed' = committed
  BY DEF Exec
<1>4. QED
  BY <1>1, <1>2, <1>3 DEF Acts

LEMMA CloseActs ==
    ASSUME OrmInv, NEW r \in Runtimes, Close(r)
    PROVE  Acts(r) /\ who'.did # "saved"
<1>1. CASE Fails(r)
  BY <1>1, FailsActs
<1>2. CASE ~Fails(r)
  <2>1. PICK top : top = frames[r][Len(frames[r])]
    OBVIOUS
  <2>2. /\ frames[r] # << >> /\ UNCHANGED <<inst, steps, mine>>
        /\ frames' = [frames EXCEPT ![r] = SubSeq(@, 1, Len(@) - 1)]
        /\ Noticed(r, sure[r])
    BY <1>2 DEF Close
  <2>3. \/ /\ top.owns
           /\ committed' = Install(committed, tx[r].writes)
           /\ tx' = [tx EXCEPT ![r] = Over]
           /\ active' = [active EXCEPT ![r] = FALSE]
           /\ issued' = [issued EXCEPT ![r] = NoWrites]
        \/ ~top.owns /\ UNCHANGED <<committed, tx, active, issued>>
    BY <1>2, <2>1 DEF Close, Over
  <2>4. (top.owns /\ who' = [r |-> r, did |-> "returned"]) \/ (~top.owns /\ who' = [r |-> r, did |-> "step"])
    BY <1>2, <2>1 DEF Close, Did
  <2>5. top.owns => ~Owns(r)'
    BY <2>1, <2>2, <2>3, ReturnKeepsInv
  <2>6. issued[r] = tx[r].writes
    BY DEF OrmInv, Owned
  <2>7. CASE top.owns
    <3>1. who'.r = r /\ who'.did = "returned" /\ committed' = Install(committed, issued[r])
      BY <2>3, <2>4, <2>6, <2>7
    <3>2. QED
      BY <3>1, <2>5, <2>7 DEF Acts
  <2>8. CASE ~top.owns
    <3>1. who'.r = r /\ who'.did = "step" /\ committed' = committed
      BY <2>3, <2>4, <2>8
    <3>2. QED
      BY <3>1 DEF Acts
  <2>9. QED
    BY <2>7, <2>8
<1>3. QED
  BY <1>1, <1>2

LEMMA DoesActs ==
    ASSUME OrmInv, NEW r \in Runtimes, NEW w, NEW i, NEW own, NEW what \in {"step", "saved"}, Does(r, w, i, own, what)
    PROVE  Acts(r) /\ who'.did = what
BY ExecActs DEF Does

LEMMA GivesActs ==
    ASSUME OrmInv, NEW r \in Runtimes, Gives(r)
    PROVE  Acts(r) /\ who'.did # "saved"
BY FailsActs DEF Gives

\* Only save of an instance that exists is a save.
LEMMA OthersAct ==
    ASSUME OrmInv, NEW r \in Runtimes,
           \/ Transaction(r) \/ InsertMany(r) \/ Sync(r) \/ Batch(r) \/ Close(r) \/ Raise(r)
           \/ (\E t \in BOOLEAN : Load(r, t)) \/ New(r) \/ Assign(r) \/ SaveNew(r)
           \/ DeleteModel(r) \/ RestoreModel(r) \/ ForceDelete(r) \/ Refresh(r)
    PROVE  Acts(r) /\ who'.did # "saved"
<1>1. CASE Transaction(r)
  BY <1>1, OpenActs, FailsActs DEF Transaction
<1>2. CASE InsertMany(r)
  <2>1. Fails(r) \/ \E f : Open(r, f)
    BY <1>2, Zenon DEF InsertMany
  <2>2. QED
    BY <2>1, OpenActs, FailsActs
<1>3. CASE Sync(r)
  <2>1. Fails(r) \/ \E f : Open(r, f)
    BY <1>3, Zenon DEF Sync
  <2>2. QED
    BY <2>1, OpenActs, FailsActs
<1>4. CASE Batch(r)
  <2>1. Fails(r) \/ \E w : Exec(r, w) /\ Did(r, "step")
    BY <1>4, Zenon DEF Batch
  <2>2. QED
    BY <2>1, ExecActs, FailsActs
<1>5. CASE Close(r)
  BY <1>5, CloseActs
<1>6. CASE Raise(r)
  BY <1>6, FailsActs DEF Raise
<1>7. CASE (\E t \in BOOLEAN : Load(r, t)) \/ New(r) \/ Assign(r)
  BY <1>7 DEF Load, New, Assign, Did, Acts
<1>8. CASE SaveNew(r)
  <2>1. Gives(r) \/ \E w, i, own : Does(r, w, i, own, "step")
    BY <1>8, Zenon DEF SaveNew
  <2>2. QED
    BY <2>1, DoesActs, GivesActs
<1>9. CASE DeleteModel(r)
  <2>1. Gives(r) \/ \E w, i, own : Does(r, w, i, own, "step")
    BY <1>9, Zenon DEF DeleteModel
  <2>2. QED
    BY <2>1, DoesActs, GivesActs
<1>10. CASE RestoreModel(r)
  <2>1. Gives(r) \/ \E w, i, own : Does(r, w, i, own, "step")
    BY <1>10, Zenon DEF RestoreModel
  <2>2. QED
    BY <2>1, DoesActs, GivesActs
<1>11. CASE ForceDelete(r)
  <2>1. Gives(r) \/ \E w, i, own : Does(r, w, i, own, "step")
    BY <1>11, Zenon DEF ForceDelete
  <2>2. QED
    BY <2>1, DoesActs, GivesActs
<1>12. CASE Refresh(r)
  <2>1. Gives(r) \/ (committed' = committed /\ Did(r, "step"))
    BY <1>12 DEF Refresh
  <2>2. QED
    BY <2>1, GivesActs DEF Did, Acts
<1>13. QED
  BY <1>1, <1>2, <1>3, <1>4, <1>5, <1>6, <1>7, <1>8, <1>9, <1>10, <1>11, <1>12

\* A save updates the changed columns of its row.
LEMMA SaveActs ==
    ASSUME OrmInv, NEW r \in Runtimes, SaveExisting(r)
    PROVE  /\ Acts(r)
           /\ who'.did = "saved" /\ View(r).row # Absent =>
                \A c \in Columns \ mine[r] : View(r)'.row[c] = View(r).row[c]
<1>a. /\ inst[r] \in Instances /\ inst[r].cur \in Row /\ (View(r).row # Absent => View(r).row \in Row)
      /\ Dirty(inst[r]) \subseteq mine[r]
  BY InstanceTypes DEF Remembered
<1>1. CASE Gives(r)
  BY <1>1, GivesActs
<1>2. ASSUME NEW i, NEW own, Does(r, IF Visible(r) THEN ToRow(Updated(inst[r], View(r).row)) ELSE NoWrites, i, own, "saved")
      PROVE  /\ Acts(r)
             /\ View(r).row # Absent => \A c \in Columns \ mine[r] : View(r)'.row[c] = View(r).row[c]
  <2>1. Acts(r)
    BY <1>2, DoesActs
  <2>2. PICK w : w = (IF Visible(r) THEN ToRow(Updated(inst[r], View(r).row)) ELSE NoWrites)
    OBVIOUS
  <2>3. Exec(r, w) /\ active' = active
    BY <1>2, <2>2 DEF Does
  <2>4. ASSUME View(r).row # Absent, NEW c \in Columns \ mine[r]
        PROVE  View(r)'.row[c] = View(r).row[c]
    <3>1. CASE Visible(r)
      <4>1. View(r).row \in Row
        BY <2>4, <1>a
      <4>2. PICK u : u = Updated(inst[r], View(r).row)
        OBVIOUS
      <4>3. c \notin Dirty(inst[r])
        BY <2>4, <1>a
      <4>4. u \in Row /\ u[c] = View(r).row[c]
        <5>1. CASE c = "a"
          BY <4>1, <4>2, <4>3, <1>a, <5>1 DEF Updated, Row
        <5>2. CASE c = "b"
          BY <4>1, <4>2, <4>3, <1>a, <5>2 DEF Updated, Row
        <5>3. QED
          BY <5>1, <5>2 DEF Columns
      <4>5. w = ToRow(u)
        BY <2>2, <3>1, <4>2, Zenon
      <4>6. w \in Writes /\ w.row = u /\ w.row # Unset
        BY <4>4, <4>5, WritesAreTyped
      <4>7. View(r)'.row = u
        BY <2>3, <4>6, ExecDoes
      <4>8. QED
        BY <4>4, <4>7
    <3>2. CASE ~Visible(r)
      <4>1. w = NoWrites
        BY <2>2, <3>2, Zenon
      <4>2. w \in Writes /\ w.row = Unset
        BY <4>1, WritesAreTyped DEF NoWrites
      <4>3. QED
        BY <2>3, <4>2, ExecDoes
    <3>3. QED
      BY <3>1, <3>2
  <2>5. QED
    BY <2>1, <2>4
<1>3. Gives(r) \/ \E i, own : Does(r, IF Visible(r) THEN ToRow(Updated(inst[r], View(r).row)) ELSE NoWrites, i, own, "saved")
  BY Zenon DEF SaveExisting
<1>4. QED
  BY <1>1, <1>2, <1>3

LEMMA SomebodyActs ==
    ASSUME OrmInv, Next
    PROVE  \E r \in Runtimes : /\ Acts(r)
                               /\ who'.did = "saved" /\ View(r).row # Absent =>
                                    \A c \in Columns \ mine[r] : View(r)'.row[c] = View(r).row[c]
<1>1. PICK r \in Runtimes :
         \/ Transaction(r) \/ InsertMany(r) \/ Sync(r) \/ Batch(r) \/ Close(r) \/ Raise(r)
         \/ (\E t \in BOOLEAN : Load(r, t)) \/ New(r) \/ Assign(r)
         \/ SaveExisting(r) \/ SaveNew(r)
         \/ DeleteModel(r) \/ RestoreModel(r) \/ ForceDelete(r) \/ Refresh(r)
  BY DEF Next
<1>2. CASE SaveExisting(r)
  BY <1>2, SaveActs
<1>3. CASE ~SaveExisting(r)
  <2>1. Acts(r) /\ who'.did # "saved"
    BY <1>1, <1>3, OthersAct
  <2>2. QED
    BY <2>1
<1>4. QED
  BY <1>2, <1>3

(* What an operation that owns its transaction wrote, and what the operations  *)
(* inside it wrote, is committed together when it returns, and never otherwise:*)
(* a callback that raises, a batch that fails and a commit that fails leave    *)
(* nothing behind.                                                             *)
THEOREM WholeOrNothing == Spec => AllOrNothing
<1>1. ASSUME OrmInv, [Next]_vars
      PROVE  [\A r \in Runtimes : who'.r = r /\ Owns(r) =>
                 committed' = IF who'.did = "returned" /\ ~Owns(r)'
                              THEN Install(committed, issued[r]) ELSE committed]_vars
  <2>1. CASE Next
    BY <1>1, <2>1, SomebodyActs DEF Acts
  <2>2. CASE UNCHANGED vars
    BY <2>2
  <2>3. QED
    BY <1>1, <2>1, <2>2
<1>2. QED
  BY <1>1, OrmInvariant, PTL DEF Spec, AllOrNothing

(* The update of a save names the columns that the script assigned since the   *)
(* instance was read or saved, and the others keep what others wrote there.    *)
THEOREM SavesAreNarrow == Spec => SavesOnlyWhatWasAssigned
<1>1. ASSUME OrmInv, [Next]_vars
      PROVE  [\A r \in Runtimes : who' = [r |-> r, did |-> "saved"] /\ View(r).row # Absent =>
                 \A c \in Columns \ mine[r] : View(r)'.row[c] = View(r).row[c]]_vars
  <2>1. CASE Next
    <3>1. ASSUME NEW r \in Runtimes, who' = [r |-> r, did |-> "saved"]
          PROVE  who'.r = r /\ who'.did = "saved"
      BY <3>1
    <3>2. QED
      BY <1>1, <2>1, <3>1, SomebodyActs, Zenon DEF Acts
  <2>2. CASE UNCHANGED vars
    BY <2>2
  <2>3. QED
    BY <1>1, <2>1, <2>2
<1>2. QED
  BY <1>1, OrmInvariant, PTL DEF Spec, SavesOnlyWhatWasAssigned


(***************************************************************************)
(* The query builder (JossQuery): while the pages of chunk are read no     *)
(* statement is on record.                                                 *)
(***************************************************************************)
QueryInv == chunk.on = "run" => last.op = "none"

LEMMA QueryStarts == QueryInit => QueryInv
  BY DEF QueryInit, QueryInv, Idle

\* A statement is recorded under its name, or not at all.
LEMMA RecordIsNamed ==
    ASSUME NEW op, NEW a, NEW hit, NEW size, NEW ok
    PROVE  Record(op, a, hit, size, ok).op \in {op, "none"}
  BY DEF Record, NoStatement

\* What every operation outside of a chunk does: none begins one, and only
\* simplePaginate is recorded as such.
Outside == chunk' = Idle /\ last'.op # "simplePaginate"

LEMMA BuildersAreOutside == ASSUME Build PROVE Outside
<1>1. ASSUME Call PROVE Outside
  BY <1>1 DEF Call, Outside, NoStatement
<1>2. CASE AddWhere
  BY <1>1, <1>2 DEF AddWhere
<1>3. CASE AddGroup
  BY <1>1, <1>3 DEF AddGroup
<1>4. CASE AddHaving
  BY <1>1, <1>4 DEF AddHaving
<1>5. CASE SetLimit
  BY <1>1, <1>5 DEF SetLimit
<1>6. CASE SetOffset
  BY <1>1, <1>6 DEF SetOffset
<1>7. CASE SetTrashed
  BY <1>1, <1>7 DEF SetTrashed
<1>8. CASE WithoutGlobalScope
  BY <1>1, <1>8 DEF WithoutGlobalScope
<1>9. CASE FromTable
  BY <1>9 DEF FromTable, Outside, NoStatement
<1>10. QED
  BY <1>2, <1>3, <1>4, <1>5, <1>6, <1>7, <1>8, <1>9 DEF Build

LEMMA WritesAreOutside == ASSUME Write PROVE Outside
<1>1. ASSUME Unreset PROVE last'.op # "simplePaginate"
  BY <1>1 DEF Unreset, NoStatement
<1>2. CASE Update
  <2>1. CASE Compile(b).wheres = << >>
    BY <1>1, <1>2, <2>1 DEF Update, Refused, Outside
  <2>2. CASE Compile(b).wheres # << >>
    <3>1. last'.op \in {"update", "none"}
      BY <1>2, <2>2, RecordIsNamed DEF Update, Written
    <3>2. QED
      BY <1>2, <3>1 DEF Update, Outside
  <2>3. QED
    BY <2>1, <2>2
<1>3. CASE Delete
  <2>1. CASE Compile(b).wheres = << >>
    BY <1>1, <1>3, <2>1 DEF Delete, Refused, Outside
  <2>2. CASE Compile(b).wheres # << >>
    <3>1. last'.op \in {"delete", "none"}
      BY <1>3, <2>2, RecordIsNamed DEF Delete, Written
    <3>2. QED
      BY <1>3, <3>1 DEF Delete, Outside
  <2>3. QED
    BY <2>1, <2>2
<1>4. CASE Increment
  <2>1. last'.op \in {"increment", "none"}
    BY <1>4, RecordIsNamed DEF Increment, Written
  <2>2. QED
    BY <1>4, <2>1 DEF Increment, Outside
<1>5. CASE DeleteAll
  BY <1>5 DEF DeleteAll, Outside, NoStatement
<1>6. QED
  BY <1>2, <1>3, <1>4, <1>5 DEF Write

LEMMA ReadsAreOutside == ASSUME Ask PROVE chunk' = Idle /\ (SimplePaginate \/ Outside)
<1>1. ASSUME NEW op, NEW q, NEW a, Read(op, q, a) PROVE last'.op \in {op, "none"}
  BY <1>1, RecordIsNamed DEF Read
<1>2. CASE Get
  BY <1>1, <1>2 DEF Get, Outside
<1>3. CASE First
  BY <1>1, <1>3 DEF First, Outside
<1>4. ASSUME NEW k \in Ids, Find(k) PROVE Outside
  BY <1>1, <1>4 DEF Find, Outside
<1>5. CASE Count
  <2>1. last'.op \in {"count", "none"}
    BY <1>5, RecordIsNamed DEF Count
  <2>2. QED
    BY <1>5, <2>1 DEF Count, Outside
<1>6. CASE Paginate
  <2>1. last'.op \in {"paginate", "none"}
    BY <1>1, <1>6 DEF Paginate, Unreset, NoStatement
  <2>2. QED
    BY <1>6, <2>1 DEF Paginate, Outside
<1>7. CASE SimplePaginate
  BY <1>7 DEF SimplePaginate
<1>8. QED
  BY <1>2, <1>3, <1>4, <1>5, <1>6, <1>7 DEF Ask, Outside

LEMMA QueryStep == ASSUME QueryInv, [QueryNext]_queryVars PROVE QueryInv'
<1>1. ASSUME chunk' = Idle PROVE QueryInv'
  BY <1>1 DEF QueryInv, Idle
<1>2. CASE Build \/ Write \/ Ask
  BY <1>1, <1>2, BuildersAreOutside, WritesAreOutside, ReadsAreOutside DEF Outside
<1>3. CASE StartChunk
  BY <1>3 DEF StartChunk, QueryInv, NoStatement
<1>4. CASE ChunkByIdPage \/ ChunkPage \/ Elsewhere
  <2>1. chunk.on = "run" /\ UNCHANGED last
    BY <1>4 DEF ChunkByIdPage, ChunkPage, Elsewhere
  <2>2. QED
    BY <2>1 DEF QueryInv
<1>5. CASE UNCHANGED queryVars
  BY <1>5 DEF queryVars, QueryInv
<1>6. QED
  BY <1>2, <1>3, <1>4, <1>5 DEF QueryNext, Chunk

(* chunkById and simplePaginate leave the builder to the caller as it was: they *)
(* work on a clone (cloneGranDBBuilder).                                       *)
THEOREM ClonesProtectTheBuilder == QuerySpec => PagesLeaveTheBuilder
<1>1. ASSUME QueryInv, [QueryNext]_queryVars
      PROVE  [(chunk.on = "run" /\ chunk.by = "id") \/ last'.op = "simplePaginate" => UNCHANGED <<b, asked>>]_queryVars
  <2>2. CASE Build \/ Write
    <3>1. chunk.on # "run"
      BY <2>2 DEF Build, Write, AddWhere, AddGroup, AddHaving, SetLimit, SetOffset, SetTrashed,
                  WithoutGlobalScope, FromTable, Call, Update, Delete, Increment, DeleteAll, Statement
    <3>2. QED
      BY <2>2, <3>1, BuildersAreOutside, WritesAreOutside DEF Outside
  <2>3. CASE Ask
    <3>1. chunk.on # "run"
      BY <2>3 DEF Ask, Get, First, Find, Count, Paginate, SimplePaginate, Statement
    <3>2. CASE SimplePaginate
      BY <3>2 DEF SimplePaginate
    <3>3. CASE Outside
      BY <3>1, <3>3 DEF Outside
    <3>4. QED
      BY <2>3, <3>2, <3>3, ReadsAreOutside
  <2>4. CASE StartChunk \/ ChunkByIdPage \/ Elsewhere
    BY <2>4 DEF StartChunk, ChunkByIdPage, Elsewhere
  <2>5. CASE ChunkPage
    BY <1>1, <2>5 DEF ChunkPage, QueryInv
  <2>6. CASE UNCHANGED queryVars
    BY <2>6
  <2>7. QED
    BY <1>1, <2>2, <2>3, <2>4, <2>5, <2>6 DEF QueryNext, Chunk
<1>2. QuerySpec => []QueryInv
  BY QueryStarts, QueryStep, PTL DEF QuerySpec
<1>3. QED
  BY <1>1, <1>2, PTL DEF QuerySpec, PagesLeaveTheBuilder

--------------------------------------------------------------------------------
(* The query builder: recursion over sequences.                            *)

\* A set of numbers has a least one.
LEMMA LeastNumber ==
    ASSUME NEW T \in SUBSET Nat, T # {}
    PROVE  \E i \in T : \A j \in T : i <= j
<1>1. PICK R : R = {ij \in Nat \X Nat : ij[1] < ij[2]}
  OBVIOUS
<1>2. IsWellFoundedOn(R, Nat)
  BY <1>1, NatLessThanWellFounded DEF OpToRel
<1>3. PICK i \in T : \A j \in T : ~(<<j, i>> \in R)
  BY ONLY WFMin, <1>2, T \in SUBSET Nat, T # {}
<1>4. \A j \in T : i \in Nat /\ j \in Nat /\ ~(j < i)
  BY <1>1, <1>3
<1> QED BY <1>4

\* Induction, over the numbers in a set and the sequences in a set.
LEMMA NatSetInduction ==
    ASSUME NEW G, 0 \in G, \A n \in Nat : n \in G => n + 1 \in G
    PROVE  Nat \subseteq G
<1>1. SUFFICES ASSUME NEW x \in Nat, x \notin G PROVE FALSE
  OBVIOUS
<1>2. PICK i \in Nat \ G : \A j \in Nat \ G : i <= j
  BY <1>1, LeastNumber
<1>3. i - 1 \in Nat \ G
  <2>1. i # 0 /\ i \in Nat
    BY <1>2
  <2>2. i - 1 \in Nat /\ (i - 1) + 1 = i
    BY <2>1
  <2>3. QED
    BY <1>2, <2>2
<1>4. QED
  BY <1>2, <1>3

\* Induction over the sequences of a set.
LEMMA SeqSetInduction ==
    ASSUME NEW S, NEW G, << >> \in G, \A s \in Seq(S), e \in S : s \in G => Append(s, e) \in G
    PROVE  Seq(S) \subseteq G
<1> DEFINE H == {n \in Nat : \A s \in Seq(S) : Len(s) = n => s \in G}
<1>1. 0 \in H
  BY EmptySeq
<1>2. ASSUME NEW n \in Nat, n \in H PROVE n + 1 \in H
  <2>1. SUFFICES ASSUME NEW s \in Seq(S), Len(s) = n + 1 PROVE s \in G
    OBVIOUS
  <2>2. s # << >>
    BY <2>1, EmptySeq
  <2>3. PICK t \in Seq(S), e \in S : s = Append(t, e)
    BY <2>2, SequenceEmptyOrAppend
  <2>4. Len(t) = n
    BY <2>1, <2>3, AppendProperties, LenProperties
  <2> QED BY <1>2, <2>3, <2>4
<1>3. Nat \subseteq H
  <2> HIDE DEF H
  <2> QED BY <1>1, <1>2, NatSetInduction
<1> QED BY <1>3, LenProperties

\* The front and the last of a sequence that was appended to.
LEMMA FrontOfAppend ==
    ASSUME NEW S, NEW s \in Seq(S), NEW e \in S
    PROVE  Front(Append(s, e)) = s /\ Last(Append(s, e)) = e /\ Append(s, e) # << >>
<1>1. Len(Append(s, e)) = Len(s) + 1 /\ Append(s, e) = s \o <<e>> /\ Len(s) \in Nat
  BY AppendProperties, AppendIsConcat, LenProperties
<1>2. SubSeq(Append(s, e), 1, Len(s)) = s
  <2>1. \A i \in 1 .. Len(s) : Append(s, e)[i] = s[i] /\ s[i] \in S
    BY AppendProperties, ElementOfSeq
  <2>2. SubSeq(Append(s, e), 1, Len(s)) \in Seq(S) /\ Len(SubSeq(Append(s, e), 1, Len(s))) = Len(s)
        /\ \A i \in 1 .. Len(s) : SubSeq(Append(s, e), 1, Len(s))[i] = Append(s, e)[i]
    <3>1. /\ SubSeq(Append(s, e), 1, Len(s)) \in Seq(S)
          /\ Len(SubSeq(Append(s, e), 1, Len(s))) = IF 1 <= Len(s) THEN Len(s) - 1 + 1 ELSE 0
          /\ \A i \in 1 .. Len(s) - 1 + 1 : SubSeq(Append(s, e), 1, Len(s))[i] = Append(s, e)[1 + i - 1]
      BY <1>1, <2>1, SubSeqProperties
    <3>2. Len(s) - 1 + 1 = Len(s) /\ \A i \in 1 .. Len(s) : 1 + i - 1 = i
      BY <1>1
    <3> QED BY <1>1, <3>1, <3>2
  <2> QED BY <2>1, <2>2, SeqEqual
<1> QED BY <1>1, <1>2, AppendProperties DEF Front, Last

\* Recursion over a sequence: the values along it, from base by step.
Along(s, g, T, base, step) ==
    /\ g \in [0 .. Len(s) -> T] /\ g[0] = base
    /\ \A k \in 1 .. Len(s) : g[k] = step[<<g[k - 1], s[k]>>]

\* Such values are unique.
LEMMA AlongIsOne ==
    ASSUME NEW S, NEW T, NEW base \in T, NEW step \in [T \X S -> T], NEW s \in Seq(S),
           NEW g, NEW h, Along(s, g, T, base, step), Along(s, h, T, base, step)
    PROVE  g = h
<1> DEFINE H == {n \in Nat : n <= Len(s) => g[n] = h[n]}
<1>0. Len(s) \in Nat
  BY LenProperties
<1>1. 0 \in H
  BY DEF Along
<1>2. ASSUME NEW n \in Nat, n \in H PROVE n + 1 \in H
  <2>1. SUFFICES ASSUME n + 1 <= Len(s) PROVE g[n + 1] = h[n + 1]
    OBVIOUS
  <2>2. n + 1 \in 1 .. Len(s) /\ (n + 1) - 1 = n /\ g[n] = h[n]
    BY <1>0, <1>2, <2>1
  <2>3. g[n + 1] = step[<<g[(n + 1) - 1], s[n + 1]>>] /\ h[n + 1] = step[<<h[(n + 1) - 1], s[n + 1]>>]
    BY <2>2, Zenon DEF Along
  <2> QED BY <2>2, <2>3
<1>3. Nat \subseteq H
  <2> HIDE DEF H
  <2> QED BY <1>1, <1>2, NatSetInduction
<1>4. \A n \in 0 .. Len(s) : g[n] = h[n]
  BY <1>0, <1>3
<1> QED BY <1>4 DEF Along

\* And they exist along every sequence.
LEMMA AlongExists ==
    ASSUME NEW S, NEW T, NEW base \in T, NEW step \in [T \X S -> T]
    PROVE  \A s \in Seq(S) : \E g : Along(s, g, T, base, step)
<1> DEFINE G == {s \in Seq(S) : \E g : Along(s, g, T, base, step)}
<1>1. << >> \in G
  <2>1. Along(<< >>, [k \in 0 .. 0 |-> base], T, base, step)
    BY EmptySeq DEF Along
  <2> QED BY <2>1, EmptySeq
<1>2. ASSUME NEW s \in Seq(S), NEW e \in S, s \in G PROVE Append(s, e) \in G
  <2>1. PICK g : Along(s, g, T, base, step)
    BY <1>2
  <2>2. /\ Append(s, e) \in Seq(S) /\ Len(s) \in Nat /\ Len(Append(s, e)) = Len(s) + 1
        /\ \A k \in 1 .. Len(s) : Append(s, e)[k] = s[k]
        /\ Append(s, e)[Len(s) + 1] = e
    BY AppendProperties, LenProperties
  <2> DEFINE n == Len(s)
             h == [k \in 0 .. n + 1 |-> IF k = n + 1 THEN step[<<g[n], e>>] ELSE g[k]]
  <2>3. g[n] \in T /\ step[<<g[n], e>>] \in T
    BY <2>1, <2>2 DEF Along
  <2>4. h \in [0 .. n + 1 -> T] /\ h[0] = base
    BY <2>1, <2>2, <2>3 DEF Along
  <2>5. ASSUME NEW k \in 1 .. n + 1 PROVE h[k] = step[<<h[k - 1], Append(s, e)[k]>>]
    <3>1. CASE k = n + 1
      <4>1. h[k] = step[<<g[n], e>>] /\ h[k - 1] = g[n]
        BY <2>2, <3>1
      <4> QED BY <2>2, <3>1, <4>1
    <3>2. CASE k \in 1 .. n
      <4>1. h[k] = g[k] /\ h[k - 1] = g[k - 1] /\ Append(s, e)[k] = s[k]
        BY <2>2, <3>2
      <4>2. g[k] = step[<<g[k - 1], s[k]>>]
        BY <2>1, <3>2 DEF Along
      <4> QED BY <4>1, <4>2
    <3>3. n \in Nat /\ (k = n + 1 \/ k \in 1 .. n)
      BY <2>2
    <3> QED BY <3>1, <3>2, <3>3
  <2>6. Along(Append(s, e), h, T, base, step)
    <3> HIDE DEF h
    <3> QED BY <2>2, <2>4, <2>5 DEF Along
  <2> QED BY <2>2, <2>6
<1>3. Seq(S) \subseteq G
  <2> HIDE DEF G
  <2> QED BY <1>1, <1>2, SeqSetInduction
<1> QED BY <1>3

\* There is a function that obeys a recursion over sequences.
Recursion(f, S, base, step) ==
    f = [s \in Seq(S) |-> IF s = << >> THEN base ELSE step[<<f[Front(s)], Last(s)>>]]

\* Every recursion has one.
LEMMA RecursionExists ==
    ASSUME NEW S, NEW T, NEW base \in T, NEW step \in [T \X S -> T]
    PROVE  \E f \in [Seq(S) -> T] : Recursion(f, S, base, step)
<1> DEFINE way(s) == CHOOSE g : Along(s, g, T, base, step)
           f == [s \in Seq(S) |-> way(s)[Len(s)]]
<1>1. ASSUME NEW s \in Seq(S) PROVE Along(s, way(s), T, base, step) /\ f[s] \in T
  <2>1. Along(s, way(s), T, base, step)
    BY AlongExists
  <2> HIDE DEF way
  <2> QED BY <2>1, LenProperties DEF Along
<1>2. ASSUME NEW s \in Seq(S) PROVE f[s] = IF s = << >> THEN base ELSE step[<<f[Front(s)], Last(s)>>]
  <2>1. CASE s = << >>
    <3>1. Along(s, way(s), T, base, step) /\ Len(s) = 0
      BY <1>1, <2>1, EmptySeq
    <3> HIDE DEF way
    <3> QED BY <2>1, <3>1 DEF Along
  <2>2. CASE s # << >>
    <3>1. PICK t \in Seq(S), e \in S : s = Append(t, e)
      BY <2>2, SequenceEmptyOrAppend
    <3>2. Front(s) = t /\ Last(s) = e
      BY <3>1, FrontOfAppend
    <3>3. /\ Len(t) \in Nat /\ Len(s) = Len(t) + 1 /\ s[Len(t) + 1] = e
          /\ \A k \in 1 .. Len(t) : s[k] = t[k]
      BY <3>1, AppendProperties, LenProperties
    <3>4. PICK g : g = way(s)
      OBVIOUS
    <3>5. PICK h : h = [k \in 0 .. Len(t) |-> g[k]]
      OBVIOUS
    <3>6. Along(s, g, T, base, step) /\ f[s] = g[Len(s)]
      BY <1>1, <3>4
    <3>7. Along(t, h, T, base, step)
      <4>1. h \in [0 .. Len(t) -> T] /\ h[0] = base
        BY <3>3, <3>5, <3>6 DEF Along
      <4>2. ASSUME NEW k \in 1 .. Len(t) PROVE h[k] = step[<<h[k - 1], t[k]>>]
        <5>1. k \in 0 .. Len(t) /\ k - 1 \in 0 .. Len(t) /\ k \in 1 .. Len(s)
          BY <3>3
        <5>2. g[k] = step[<<g[k - 1], s[k]>>]
          BY <3>6, <5>1 DEF Along
        <5> QED BY <3>3, <3>5, <5>1, <5>2
      <4> QED BY <4>1, <4>2 DEF Along
    <3>8. h = way(t) /\ f[t] = h[Len(t)]
      <4>1. Along(t, way(t), T, base, step)
        BY <1>1
      <4>2. h = way(t)
        <5> HIDE DEF way
        <5> QED BY <3>7, <4>1, AlongIsOne
      <4> QED BY <4>2
    <3>9. f[t] = g[Len(t)]
      BY <3>3, <3>5, <3>8
    <3>10. g[Len(s)] = step[<<g[Len(t)], e>>]
      <4>1. Len(t) + 1 \in 1 .. Len(s) /\ (Len(t) + 1) - 1 = Len(t)
        BY <3>3
      <4>2. g[Len(t) + 1] = step[<<g[(Len(t) + 1) - 1], s[Len(t) + 1]>>]
        BY <3>6, <4>1 DEF Along
      <4> QED BY <3>3, <4>1, <4>2
    <3> HIDE DEF f
    <3> QED BY <2>2, <3>2, <3>6, <3>9, <3>10
  <2> QED BY <2>1, <2>2
<1>3. Recursion(f, S, base, step)
  <2>1. [s \in Seq(S) |-> f[s]] = [s \in Seq(S) |-> IF s = << >> THEN base ELSE step[<<f[Front(s)], Last(s)>>]]
    <3> HIDE DEF f
    <3> QED BY <1>2
  <2>2. f = [s \in Seq(S) |-> f[s]]
    OBVIOUS
  <2> QED BY <2>1, <2>2, Zenon DEF Recursion
<1>4. f \in [Seq(S) -> T]
  BY <1>1
<1> HIDE DEF f
<1> QED BY <1>3, <1>4

\* Strung obeys its recursion.
LEMMA StrungEquation ==
    Strung = [vs \in Seq(Seq(Nat)) |-> IF vs = << >> THEN << >> ELSE Strung[Front(vs)] \o Last(vs)]
<1> DEFINE S == Seq(Nat)
           step == [p \in S \X S |-> p[1] \o p[2]]
           Obeys(f) == f = [vs \in Seq(S) |-> IF vs = << >> THEN << >> ELSE f[Front(vs)] \o Last(vs)]
<1>1. << >> \in S /\ step \in [S \X S -> S]
  BY ConcatProperties, EmptySeq
<1>2. PICK f \in [Seq(S) -> S] : Recursion(f, S, << >>, step)
  <2> HIDE DEF S, step
  <2> QED BY <1>1, RecursionExists
<1>3. ASSUME NEW vs \in Seq(S), vs # << >> PROVE step[<<f[Front(vs)], Last(vs)>>] = f[Front(vs)] \o Last(vs)
  <2>1. PICK t \in Seq(S), e \in S : vs = Append(t, e)
    BY <1>3, SequenceEmptyOrAppend
  <2>2. Front(vs) = t /\ Last(vs) = e
    BY <2>1, FrontOfAppend
  <2> QED BY <2>2
<1>4. Obeys(f)
  <2>1. \A vs \in Seq(S) : (IF vs = << >> THEN << >> ELSE step[<<f[Front(vs)], Last(vs)>>])
                           = (IF vs = << >> THEN << >> ELSE f[Front(vs)] \o Last(vs))
    BY <1>3
  <2> HIDE DEF S, step
  <2> QED BY <1>2, <2>1 DEF Recursion
<1>5. Strung = CHOOSE f_1 : Obeys(f_1)
  BY DEF Strung
<1>6. Obeys(Strung)
  <2> HIDE DEF Obeys
  <2> QED BY <1>4, <1>5
<1> QED BY <1>6

\* Strung, from one list to the next.
LEMMA StrungIs ==
    /\ Strung[<< >>] = << >>
    /\ \A vs \in Seq(Seq(Nat)) : Strung[vs] \in Seq(Nat)
    /\ \A vs \in Seq(Seq(Nat)), v \in Seq(Nat) : Strung[Append(vs, v)] = Strung[vs] \o v
<1> DEFINE S == Seq(Nat)
           G == {vs \in Seq(S) : Strung[vs] \in S}
<1>1. \A vs \in Seq(S) : Strung[vs] = IF vs = << >> THEN << >> ELSE Strung[Front(vs)] \o Last(vs)
  BY StrungEquation, Zenon
<1>2. << >> \in Seq(S) /\ << >> \in S
  BY EmptySeq
<1>3. ASSUME NEW vs \in Seq(S), NEW v \in S PROVE Strung[Append(vs, v)] = Strung[vs] \o v
  <2> HIDE DEF S
  <2>1. Append(vs, v) \in Seq(S)
    BY AppendProperties
  <2> QED BY <1>1, <2>1, FrontOfAppend, Zenon
<1>4. << >> \in G
  BY <1>1, <1>2
<1>5. ASSUME NEW vs \in Seq(S), NEW v \in S, vs \in G PROVE Append(vs, v) \in G
  <2>1. Strung[vs] \o v \in S
    BY <1>5, ConcatProperties
  <2>2. Append(vs, v) \in Seq(S)
    <3> HIDE DEF S
    <3> QED BY AppendProperties
  <2> QED BY <1>3, <2>1, <2>2
<1>6. Seq(S) \subseteq G
  <2> HIDE DEF S, G
  <2> QED BY <1>4, <1>5, SeqSetInduction
<1> QED BY <1>1, <1>2, <1>3, <1>6

\* Total obeys its recursion.
LEMMA TotalEquation ==
    Total = [ns \in Seq(Nat) |-> IF ns = << >> THEN 0 ELSE Total[Front(ns)] + Last(ns)]
<1> DEFINE step == [p \in Nat \X Nat |-> p[1] + p[2]]
           Obeys(f) == f = [ns \in Seq(Nat) |-> IF ns = << >> THEN 0 ELSE f[Front(ns)] + Last(ns)]
<1>1. step \in [Nat \X Nat -> Nat]
  OBVIOUS
<1>2. PICK f \in [Seq(Nat) -> Nat] : Recursion(f, Nat, 0, step)
  <2> HIDE DEF step
  <2> QED BY <1>1, RecursionExists
<1>3. ASSUME NEW ns \in Seq(Nat), ns # << >> PROVE step[<<f[Front(ns)], Last(ns)>>] = f[Front(ns)] + Last(ns)
  <2>1. PICK t \in Seq(Nat), e \in Nat : ns = Append(t, e)
    BY <1>3, SequenceEmptyOrAppend
  <2>2. Front(ns) = t /\ Last(ns) = e
    BY <2>1, FrontOfAppend
  <2> QED BY <2>2
<1>4. Obeys(f)
  <2>1. \A ns \in Seq(Nat) : (IF ns = << >> THEN 0 ELSE step[<<f[Front(ns)], Last(ns)>>])
                             = (IF ns = << >> THEN 0 ELSE f[Front(ns)] + Last(ns))
    BY <1>3
  <2> HIDE DEF step
  <2> QED BY <1>2, <2>1 DEF Recursion
<1>5. Total = CHOOSE f_1 : Obeys(f_1)
  BY DEF Total
<1>6. Obeys(Total)
  <2> HIDE DEF Obeys
  <2> QED BY <1>4, <1>5
<1> QED BY <1>6

\* Total, from one number to the next.
LEMMA TotalIs ==
    /\ Total[<< >>] = 0
    /\ \A ns \in Seq(Nat) : Total[ns] \in Nat
    /\ \A ns \in Seq(Nat), n \in Nat : Total[Append(ns, n)] = Total[ns] + n
<1> DEFINE G == {ns \in Seq(Nat) : Total[ns] \in Nat}
<1>1. \A ns \in Seq(Nat) : Total[ns] = IF ns = << >> THEN 0 ELSE Total[Front(ns)] + Last(ns)
  BY TotalEquation, Zenon
<1>2. << >> \in Seq(Nat)
  BY EmptySeq
<1>3. ASSUME NEW ns \in Seq(Nat), NEW n \in Nat PROVE Total[Append(ns, n)] = Total[ns] + n
  <2>1. Append(ns, n) \in Seq(Nat)
    BY AppendProperties
  <2>2. Front(Append(ns, n)) = ns /\ Last(Append(ns, n)) = n /\ Append(ns, n) # << >>
    BY FrontOfAppend
  <2> QED BY <1>1, <2>1, <2>2
<1>4. << >> \in G
  <2>1. Total[<< >>] = 0
    BY <1>1, <1>2, Zenon
  <2> QED BY <1>2, <2>1
<1>5. ASSUME NEW ns \in Seq(Nat), NEW n \in Nat, ns \in G PROVE Append(ns, n) \in G
  BY <1>3, <1>5, AppendProperties
<1>6. Seq(Nat) \subseteq G
  <2> HIDE DEF G
  <2> QED BY <1>4, <1>5, SeqSetInduction
<1>7. Total[<< >>] = 0
  BY <1>1, <1>2, Zenon
<1> QED BY <1>7, <1>3, <1>6

--------------------------------------------------------------------------------
(* The query builder: values by position.                                  *)

\* A list that is found in s after the first n values is what is cut out there.
LEMMA CutOut ==
    ASSUME NEW s \in Seq(Nat), NEW v \in Seq(Nat), NEW n \in Nat, n + Len(v) <= Len(s),
           \A i \in 1 .. Len(v) : s[n + i] = v[i]
    PROVE  SubSeq(s, n + 1, n + Len(v)) = v
<1> DEFINE u == SubSeq(s, n + 1, n + Len(v))
<1>1. Len(v) \in Nat /\ Len(s) \in Nat
  BY LenProperties
<1>2. /\ u \in Seq(Nat)
      /\ Len(u) = IF n + 1 <= n + Len(v) THEN (n + Len(v)) - (n + 1) + 1 ELSE 0
      /\ \A i \in 1 .. (n + Len(v)) - (n + 1) + 1 : u[i] = s[(n + 1) + i - 1]
  <2>1. \A i \in n + 1 .. n + Len(v) : s[i] \in Nat
    <3>1. \A i \in n + 1 .. n + Len(v) : i \in 1 .. Len(s)
      BY <1>1
    <3> QED BY <3>1, ElementOfSeq
  <2>2. n + 1 \in Int /\ n + Len(v) \in Int
    BY <1>1
  <2> QED BY <2>1, <2>2, SubSeqProperties
<1>3. (n + Len(v)) - (n + 1) + 1 = Len(v) /\ \A i \in 1 .. Len(v) : (n + 1) + i - 1 = n + i
  BY <1>1
<1> HIDE DEF u
<1>4. Len(u) = Len(v)
  BY <1>1, <1>2, <1>3
<1>5. \A i \in 1 .. Len(u) : u[i] = v[i]
  BY <1>2, <1>3, <1>4
<1>6. u = v
  BY <1>2, <1>4, <1>5, SeqEqual
<1> QED BY <1>6 DEF u

\* Each list keeps its place in what is strung together.
Found(s, v, n) ==
    n + Len(v) <= Len(s) /\ \A i \in 1 .. Len(v) : s[n + i] = v[i]

\* A list keeps its place when more values follow.
LEMMA FoundInLonger ==
    ASSUME NEW s \in Seq(Nat), NEW v \in Seq(Nat), NEW t \in Seq(Nat), NEW n \in Nat, Found(s, v, n)
    PROVE  Found(s \o t, v, n)
<1>1. Len(s \o t) = Len(s) + Len(t) /\ Len(s) \in Nat /\ Len(t) \in Nat /\ Len(v) \in Nat
  BY ConcatProperties, LenProperties
<1>2. ASSUME NEW i \in 1 .. Len(v) PROVE (s \o t)[n + i] = v[i]
  <2>1. n + i \in 1 .. Len(s) + Len(t) /\ n + i <= Len(s)
    BY <1>1 DEF Found
  <2>2. (s \o t)[n + i] = s[n + i]
    BY <2>1, ConcatProperties
  <2> QED BY <2>2 DEF Found
<1>3. n + Len(v) <= Len(s) + Len(t)
  BY <1>1 DEF Found
<1> QED BY <1>1, <1>2, <1>3 DEF Found

\* A list that is put behind the others is found there.
LEMMA FoundAtEnd ==
    ASSUME NEW s \in Seq(Nat), NEW v \in Seq(Nat)
    PROVE  Found(s \o v, v, Len(s))
<1>1. Len(s \o v) = Len(s) + Len(v) /\ Len(s) \in Nat /\ Len(v) \in Nat
  BY ConcatProperties, LenProperties
<1>2. ASSUME NEW i \in 1 .. Len(v) PROVE (s \o v)[Len(s) + i] = v[i]
  <2>1. Len(s) + i \in 1 .. Len(s) + Len(v) /\ ~(Len(s) + i <= Len(s)) /\ (Len(s) + i) - Len(s) = i
    BY <1>1
  <2>2. (s \o v)[Len(s) + i] = v[(Len(s) + i) - Len(s)]
    BY <2>1, ConcatProperties
  <2> QED BY <2>1, <2>2
<1> QED BY <1>1, <1>2 DEF Found

\* Every list is found in what is strung together, behind those before it.
LEMMA StrungKeepsPlaces ==
    \A vs \in Seq(Seq(Nat)) : \A j \in 1 .. Len(vs) :
        Found(Strung[vs], vs[j], Len(Strung[SubSeq(vs, 1, j - 1)]))
<1> DEFINE S == Seq(Nat)
           Keeps(vs, j) == Found(Strung[vs], vs[j], Len(Strung[SubSeq(vs, 1, j - 1)]))
           G == {vs \in Seq(S) : \A j \in 1 .. Len(vs) : Keeps(vs, j)}
<1>1. << >> \in G
  BY EmptySeq
<1>2. ASSUME NEW vs \in Seq(S), NEW v \in S, vs \in G PROVE Append(vs, v) \in G
  <2>1. /\ Append(vs, v) \in Seq(S) /\ Len(vs) \in Nat /\ Len(Append(vs, v)) = Len(vs) + 1
        /\ \A k \in 1 .. Len(vs) : Append(vs, v)[k] = vs[k] /\ vs[k] \in S
        /\ Append(vs, v)[Len(vs) + 1] = v
    <3> HIDE DEF S
    <3> QED BY AppendProperties, LenProperties, ElementOfSeq
  <2>2. SUFFICES ASSUME NEW j \in 1 .. Len(vs) + 1 PROVE Keeps(Append(vs, v), j)
    BY <2>1
  <2>3. SubSeq(Append(vs, v), 1, j - 1) = SubSeq(vs, 1, j - 1)
    <3>1. j - 1 \in 0 .. Len(vs)
      BY <2>1
    <3> HIDE DEF S
    <3>2. /\ SubSeq(vs, 1, j - 1) \in Seq(S)
          /\ Len(SubSeq(vs, 1, j - 1)) = IF 1 <= j - 1 THEN (j - 1) - 1 + 1 ELSE 0
          /\ \A i \in 1 .. (j - 1) - 1 + 1 : SubSeq(vs, 1, j - 1)[i] = vs[1 + i - 1]
      BY <2>1, <3>1, SubSeqProperties
    <3>3. /\ SubSeq(Append(vs, v), 1, j - 1) \in Seq(S)
          /\ Len(SubSeq(Append(vs, v), 1, j - 1)) = IF 1 <= j - 1 THEN (j - 1) - 1 + 1 ELSE 0
          /\ \A i \in 1 .. (j - 1) - 1 + 1 : SubSeq(Append(vs, v), 1, j - 1)[i] = Append(vs, v)[1 + i - 1]
      BY <2>1, <3>1, SubSeqProperties
    <3>4. Len(SubSeq(vs, 1, j - 1)) = j - 1
      BY <3>1, <3>2
    <3>5. \A i \in 1 .. j - 1 : SubSeq(vs, 1, j - 1)[i] = SubSeq(Append(vs, v), 1, j - 1)[i]
      <4>1. \A i \in 1 .. j - 1 : 1 + i - 1 = i /\ i \in 1 .. (j - 1) - 1 + 1 /\ i \in 1 .. Len(vs)
        BY <2>1, <3>1
      <4> QED BY <2>1, <3>2, <3>3, <4>1
    <3> QED BY <3>2, <3>3, <3>4, <3>5, SeqEqual
  <2>4. Strung[Append(vs, v)] = Strung[vs] \o v /\ Strung[vs] \in S
    BY StrungIs
  <2>5. CASE j = Len(vs) + 1
    <3>1. SubSeq(vs, 1, j - 1) = vs
      <4>1. j - 1 = Len(vs)
        BY <2>1, <2>5
      <4> QED BY <4>1, SubSeqFull
    <3>2. Found(Strung[vs] \o v, v, Len(Strung[vs]))
      BY <2>4, FoundAtEnd
    <3> HIDE DEF S
    <3> QED BY <2>1, <2>3, <2>4, <2>5, <3>1, <3>2
  <2>6. CASE j \in 1 .. Len(vs)
    <3>1. PICK n : n = Len(Strung[SubSeq(vs, 1, j - 1)])
      OBVIOUS
    <3>2. vs[j] \in S /\ n \in Nat
      <4>1. \A i \in 1 .. j - 1 : vs[i] \in S
        BY <2>1, <2>6
      <4>2. SubSeq(vs, 1, j - 1) \in Seq(S)
        <5> HIDE DEF S
        <5> QED BY <4>1, <2>6, SubSeqProperties
      <4> QED BY <2>1, <2>6, <3>1, <4>2, StrungIs, LenProperties
    <3>3. Found(Strung[vs], vs[j], n)
      BY <1>2, <2>6, <3>1
    <3>4. Found(Strung[vs] \o v, vs[j], n)
      BY <2>4, <3>2, <3>3, FoundInLonger
    <3> HIDE DEF S
    <3> QED BY <2>1, <2>3, <2>4, <2>6, <3>1, <3>4
  <2>7. j = Len(vs) + 1 \/ j \in 1 .. Len(vs)
    BY <2>1
  <2> QED BY <2>5, <2>6, <2>7
<1>3. Seq(S) \subseteq G
  <2> HIDE DEF S, G
  <2> QED BY <1>1, <1>2, SeqSetInduction
<1> QED BY <1>3

\* The length of what is strung together.
LEMMA StrungLen ==
    \A vs \in Seq(Seq(Nat)) :
        /\ [k \in DOMAIN vs |-> Len(vs[k])] \in Seq(Nat)
        /\ Len(Strung[vs]) = Total[[k \in DOMAIN vs |-> Len(vs[k])]]
<1> DEFINE S == Seq(Nat)
           lens(vs) == [k \in DOMAIN vs |-> Len(vs[k])]
           G == {vs \in Seq(S) : lens(vs) \in Seq(Nat) /\ Len(Strung[vs]) = Total[lens(vs)]}
<1>1. << >> \in G
  <2>1. lens(<< >>) = << >>
    OBVIOUS
  <2> QED BY <2>1, EmptySeq, StrungIs, TotalIs
<1>2. ASSUME NEW vs \in Seq(S), NEW v \in S, vs \in G PROVE Append(vs, v) \in G
  <2>1. /\ Append(vs, v) \in Seq(S) /\ Len(vs) \in Nat /\ Len(Append(vs, v)) = Len(vs) + 1
        /\ \A k \in 1 .. Len(vs) : Append(vs, v)[k] = vs[k] /\ vs[k] \in S
        /\ Append(vs, v)[Len(vs) + 1] = v
        /\ DOMAIN vs = 1 .. Len(vs) /\ DOMAIN Append(vs, v) = 1 .. Len(vs) + 1
    <3> HIDE DEF S
    <3> QED BY AppendProperties, LenProperties, ElementOfSeq
  <2>2. Len(v) \in Nat /\ lens(vs) \in Seq(Nat) /\ Len(lens(vs)) = Len(vs)
    BY <1>2, <2>1, LenProperties
  <2>3. lens(Append(vs, v)) = Append(lens(vs), Len(v))
    <3>1. /\ Append(lens(vs), Len(v)) \in Seq(Nat) /\ Len(Append(lens(vs), Len(v))) = Len(vs) + 1
          /\ \A k \in 1 .. Len(vs) : Append(lens(vs), Len(v))[k] = Len(vs[k])
          /\ Append(lens(vs), Len(v))[Len(vs) + 1] = Len(v)
      BY <2>1, <2>2, AppendProperties
    <3>2. \A k \in 1 .. Len(vs) + 1 : Append(lens(vs), Len(v))[k] = Len(Append(vs, v)[k])
      BY <2>1, <3>1
    <3>3. DOMAIN Append(lens(vs), Len(v)) = 1 .. Len(vs) + 1
      BY <3>1, LenProperties
    <3>4. Append(lens(vs), Len(v)) = [k \in 1 .. Len(vs) + 1 |-> Append(lens(vs), Len(v))[k]]
      BY <3>1, <3>3, LenProperties
    <3> QED BY <2>1, <3>2, <3>4
  <2>4. Len(Strung[Append(vs, v)]) = Len(Strung[vs]) + Len(v)
    BY StrungIs, ConcatProperties
  <2>5. Total[Append(lens(vs), Len(v))] = Total[lens(vs)] + Len(v)
    <3> HIDE DEF lens
    <3> QED BY <2>2, TotalIs
  <2>6. Append(lens(vs), Len(v)) \in Seq(Nat)
    <3> HIDE DEF lens
    <3> QED BY <2>2, AppendProperties
  <2> QED BY <1>2, <2>1, <2>3, <2>4, <2>5, <2>6
<1>3. Seq(S) \subseteq G
  <2> HIDE DEF S, G
  <2> QED BY <1>1, <1>2, SeqSetInduction
<1> QED BY <1>3

\* Texts that have as many placeholders as the lists have values: each text is
\* given the list in its place.
LEMMA PlacesOfStrung ==
    ASSUME NEW vs \in Seq(Seq(Nat)), NEW ts, DOMAIN ts = DOMAIN vs,
           \A k \in DOMAIN vs : ts[k].n = Len(vs[k])
    PROVE  Places(ts) = Len(Strung[vs])
<1>1. [k \in DOMAIN ts |-> ts[k].n] = [k \in DOMAIN vs |-> Len(vs[k])]
  OBVIOUS
<1> QED BY <1>1, StrungLen DEF Places

\* By position every text gets the values of its own condition.
LEMMA GivenIsOwn ==
    ASSUME NEW vs \in Seq(Seq(Nat)), NEW T, NEW ts \in Seq(T), Len(ts) = Len(vs),
           \A k \in 1 .. Len(vs) : ts[k].n = Len(vs[k]),
           NEW rest \in Seq(Nat), NEW j \in 1 .. Len(vs)
    PROVE  Given(ts, j, Strung[vs] \o rest) = vs[j]
<1> DEFINE S == Seq(Nat)
           vs1 == SubSeq(vs, 1, j - 1)
           ts1 == SubSeq(ts, 1, j - 1)
<1>1. Len(vs) \in Nat /\ (\A k \in 1 .. Len(vs) : vs[k] \in S /\ ts[k] \in T) /\ j - 1 \in 0 .. Len(vs)
  <2>1. Len(vs) \in Nat
    BY LenProperties
  <2> HIDE DEF S
  <2> QED BY <2>1, ElementOfSeq DEF S
<1>2. /\ vs1 \in Seq(S) /\ Len(vs1) = j - 1 /\ (\A i \in 1 .. j - 1 : vs1[i] = vs[i])
      /\ ts1 \in Seq(T) /\ Len(ts1) = j - 1 /\ (\A i \in 1 .. j - 1 : ts1[i] = ts[i])
  <2>1. \A i \in 1 .. j - 1 : vs[i] \in S /\ ts[i] \in T
    BY <1>1
  <2>2. /\ vs1 \in Seq(S) /\ Len(vs1) = IF 1 <= j - 1 THEN (j - 1) - 1 + 1 ELSE 0
        /\ \A i \in 1 .. (j - 1) - 1 + 1 : vs1[i] = vs[1 + i - 1]
    <3> HIDE DEF S
    <3> QED BY <1>1, <2>1, SubSeqProperties
  <2>3. /\ ts1 \in Seq(T) /\ Len(ts1) = IF 1 <= j - 1 THEN (j - 1) - 1 + 1 ELSE 0
        /\ \A i \in 1 .. (j - 1) - 1 + 1 : ts1[i] = ts[1 + i - 1]
    BY <1>1, <2>1, SubSeqProperties
  <2>4. \A i \in 1 .. j - 1 : 1 + i - 1 = i /\ i \in 1 .. (j - 1) - 1 + 1
    BY <1>1
  <2> HIDE DEF vs1, ts1, S
  <2>5. Len(vs1) = j - 1 /\ Len(ts1) = j - 1
    BY <1>1, <2>2, <2>3
  <2> QED BY <2>2, <2>3, <2>4, <2>5
<1>3. Places(ts1) = Len(Strung[vs1])
  <2>1. DOMAIN ts1 = 1 .. j - 1 /\ DOMAIN vs1 = 1 .. j - 1
    BY <1>2, LenProperties
  <2>2. \A k \in DOMAIN vs1 : ts1[k].n = Len(vs1[k])
    BY <1>1, <1>2, <2>1
  <2> HIDE DEF ts1, vs1
  <2> QED BY <1>2, <2>1, <2>2, PlacesOfStrung
<1>4. PICK n : n = Len(Strung[vs1])
  OBVIOUS
<1>5. Strung[vs] \in S /\ vs[j] \in S /\ n \in Nat /\ Strung[vs] \o rest \in S
  <2>1. Strung[vs1] \in S
    <3> HIDE DEF vs1
    <3> QED BY <1>2, StrungIs
  <2>2. Strung[vs] \in S
    BY StrungIs
  <2> HIDE DEF vs1
  <2> QED BY <1>1, <1>4, <2>1, <2>2, LenProperties, ConcatProperties
<1>6. Found(Strung[vs], vs[j], n)
  BY <1>4, StrungKeepsPlaces
<1>7. Found(Strung[vs] \o rest, vs[j], n)
  BY <1>5, <1>6, FoundInLonger
<1>8. SubSeq(Strung[vs] \o rest, n + 1, n + Len(vs[j])) = vs[j]
  BY <1>5, <1>7, CutOut DEF Found
<1>9. Given(ts, j, Strung[vs] \o rest) = SubSeq(Strung[vs] \o rest, n + 1, n + Len(vs[j]))
  BY <1>3, <1>4 DEF Given
<1> QED BY <1>8, <1>9

\* The conditions that the model and the program ask for; only those that a
\* callback groups have parts.
Simple == [or : BOOLEAN, op : Ops, vals : Seq(Nat), sub : {<< >>}]
Known == {c \in [or : BOOLEAN, op : Ops, vals : Seq(Nat), sub : Seq(Simple)] :
            IF c.op = "group" THEN c.vals = << >> ELSE c.sub = << >>}

SubValues(c) == [k \in DOMAIN c.sub |-> c.sub[k].vals]
ValuesOf(cs) == [j \in DOMAIN cs |-> Values(cs[j])]
TextsOf(cs) == [j \in DOMAIN cs |-> Text(cs[j])]
BoundOf(cs) == Strung[ValuesOf(cs)]

\* The values of a condition, and of its parts.
LEMMA KnownValues ==
    ASSUME NEW c \in Known
    PROVE  /\ SubValues(c) \in Seq(Seq(Nat)) /\ Len(SubValues(c)) = Len(c.sub)
           /\ \A k \in 1 .. Len(c.sub) : SubValues(c)[k] = c.sub[k].vals /\ c.sub[k].vals \in Seq(Nat)
           /\ Values(c) \in Seq(Nat)
           /\ c.op = "group" => Values(c) = Strung[SubValues(c)]
           /\ c.op # "group" => Values(c) = c.vals
<1>1. c.sub \in Seq(Simple) /\ c.vals \in Seq(Nat)
  BY DEF Known
<1>2. DOMAIN c.sub = 1 .. Len(c.sub) /\ Len(c.sub) \in Nat /\ \A k \in 1 .. Len(c.sub) : c.sub[k] \in Simple
  BY <1>1, LenProperties, ElementOfSeq
<1>3. /\ SubValues(c) \in Seq(Seq(Nat)) /\ Len(SubValues(c)) = Len(c.sub)
      /\ \A k \in 1 .. Len(c.sub) : SubValues(c)[k] = c.sub[k].vals /\ c.sub[k].vals \in Seq(Nat)
  BY <1>2 DEF SubValues, Simple
<1>4. Strung[SubValues(c)] \in Seq(Nat) /\ Values(c) = c.vals \o Strung[SubValues(c)]
  BY <1>3, StrungIs DEF Values, SubValues
<1>5. Values(c) \in Seq(Nat)
  BY <1>1, <1>4, ConcatProperties
<1>6. ASSUME c.op = "group" PROVE Values(c) = Strung[SubValues(c)]
  <2>1. c.vals = << >>
    BY <1>6 DEF Known
  <2> QED BY <1>4, <2>1, ConcatEmptySeq
<1>7. ASSUME c.op # "group" PROVE Values(c) = c.vals
  <2>1. c.sub = << >>
    BY <1>7 DEF Known
  <2>2. SubValues(c) = << >>
    BY <2>1 DEF SubValues
  <2> QED BY <1>1, <1>4, <2>2, StrungIs, ConcatEmptySeq
<1> QED BY <1>3, <1>5, <1>6, <1>7

\* The text of a condition has a placeholder for each of its values.
LEMMA KnownText ==
    ASSUME NEW c \in Known
    PROVE  /\ Text(c) \in Texts
           /\ Text(c).or = c.or /\ Text(c).op = c.op /\ Text(c).n = Len(Values(c))
           /\ Text(c).sub \in Seq([or : BOOLEAN, op : Ops, n : Nat])
           /\ Len(Text(c).sub) = Len(c.sub)
           /\ \A k \in 1 .. Len(c.sub) : /\ Text(c).sub[k].or = c.sub[k].or
                                         /\ Text(c).sub[k].op = c.sub[k].op
                                         /\ Text(c).sub[k].n = Len(c.sub[k].vals)
<1>1. c.sub \in Seq(Simple) /\ c.or \in BOOLEAN /\ c.op \in Ops
  BY DEF Known
<1>2. DOMAIN c.sub = 1 .. Len(c.sub) /\ Len(c.sub) \in Nat /\ \A k \in 1 .. Len(c.sub) : c.sub[k] \in Simple
  BY <1>1, LenProperties, ElementOfSeq
<1>3. Len(Values(c)) \in Nat /\ \A k \in 1 .. Len(c.sub) : Len(c.sub[k].vals) \in Nat
  BY KnownValues, LenProperties
<1>4. Text(c).sub = [k \in 1 .. Len(c.sub) |-> [or |-> c.sub[k].or, op |-> c.sub[k].op, n |-> Len(c.sub[k].vals)]]
  BY <1>2 DEF Text
<1>5. \A k \in 1 .. Len(c.sub) : [or |-> c.sub[k].or, op |-> c.sub[k].op, n |-> Len(c.sub[k].vals)]
                                 \in [or : BOOLEAN, op : Ops, n : Nat]
  BY <1>2, <1>3 DEF Simple
<1>6. Text(c).sub \in Seq([or : BOOLEAN, op : Ops, n : Nat]) /\ Len(Text(c).sub) = Len(c.sub)
  BY <1>2, <1>4, <1>5
<1>7. Text(c).or = c.or /\ Text(c).op = c.op /\ Text(c).n = Len(Values(c))
  BY DEF Text
<1>8. Text(c) = [or |-> c.or, op |-> c.op, n |-> Len(Values(c)), sub |-> Text(c).sub]
  BY DEF Text
<1>9. Text(c) \in Texts
  BY <1>1, <1>3, <1>6, <1>8 DEF Texts
<1> QED BY <1>4, <1>6, <1>7, <1>9

\* Conditions are joined by their connectives.
LEMMA JoinedSame ==
    ASSUME NEW S, NEW T, NEW cs \in Seq(S), NEW ds \in Seq(T), Len(cs) = Len(ds),
           \A k \in 1 .. Len(cs) : cs[k].or = ds[k].or, NEW met
    PROVE  Joined(cs, met) <=> Joined(ds, met)
<1>1. DOMAIN cs = 1 .. Len(cs) /\ DOMAIN ds = 1 .. Len(cs) /\ Len(cs) \in Nat
  BY LenProperties
<1>2. cs = << >> <=> ds = << >>
  BY EmptySeq
<1>3. \A f \in 1 .. Len(cs) : \A j \in f .. Len(cs) : \A k \in (f + 1) .. j : k \in 1 .. Len(cs)
  BY <1>1
<1> QED BY <1>1, <1>2, <1>3 DEF Joined

\* Without an OR all of them have to hold.
LEMMA JoinedAnd ==
    ASSUME NEW S, NEW cs \in Seq(S), \A k \in 1 .. Len(cs) : cs[k].or = FALSE, NEW met
    PROVE  Joined(cs, met) <=> 1 .. Len(cs) \subseteq met
<1>1. DOMAIN cs = 1 .. Len(cs) /\ Len(cs) \in Nat
  BY LenProperties
<1>2. CASE cs = << >>
  BY <1>2, EmptySeq DEF Joined
<1>3. CASE cs # << >>
  <2>1. 1 \in 1 .. Len(cs)
    BY <1>1, <1>3, EmptySeq
  <2>2. ASSUME 1 .. Len(cs) \subseteq met PROVE Joined(cs, met)
    BY <1>1, <2>1, <2>2 DEF Joined
  <2>3. ASSUME Joined(cs, met), NEW j \in 1 .. Len(cs) PROVE j \in met
    <3>1. PICK f \in 1 .. Len(cs) : /\ f = 1 \/ cs[f].or
                                    /\ \A i \in f .. Len(cs) : i \in met \/ \E k \in (f + 1) .. i : cs[k].or
      BY <1>1, <1>3, <2>3 DEF Joined
    <3>2. f = 1
      BY <3>1
    <3>3. \A k \in (f + 1) .. j : k \in 1 .. Len(cs)
      BY <1>1, <3>2
    <3>4. j \in f .. Len(cs)
      BY <3>2
    <3> QED BY <3>1, <3>3, <3>4
  <2> QED BY <2>2, <2>3
<1> QED BY <1>2, <1>3

\* A text that is given the values of its condition holds when the condition does.
LEMMA FilledIsMeets ==
    ASSUME NEW c \in Known, NEW i
    PROVE  Filled(Text(c), Values(c), i) <=> Meets(c, i)
<1>1. CASE c.op # "group"
  BY <1>1, KnownText, KnownValues DEF Filled, Meets
<1>2. CASE c.op = "group"
  <2> DEFINE T == [or : BOOLEAN, op : Ops, n : Nat]
             ts == Text(c).sub
             vs == SubValues(c)
  <2>1. c.sub \in Seq(Simple) /\ ts \in Seq(T) /\ Len(ts) = Len(c.sub) /\ vs \in Seq(Seq(Nat))
        /\ Len(vs) = Len(c.sub)
    BY KnownText, KnownValues DEF Known
  <2>2. \A k \in 1 .. Len(c.sub) : ts[k].or = c.sub[k].or /\ ts[k].op = c.sub[k].op
                                   /\ ts[k].n = Len(vs[k]) /\ vs[k] = c.sub[k].vals
    BY KnownText, KnownValues
  <2>3. Strung[vs] \o << >> = Values(c) /\ << >> \in Seq(Nat)
    <3>1. Values(c) = Strung[vs] /\ Values(c) \in Seq(Nat)
      BY <1>2, KnownValues
    <3>2. Values(c) \o << >> = Values(c)
      BY <3>1, ConcatEmptySeq
    <3> QED BY <3>1, <3>2, EmptySeq
  <2>4. DOMAIN ts = 1 .. Len(c.sub) /\ DOMAIN c.sub = 1 .. Len(c.sub)
    BY <2>1, LenProperties
  <2>5. ASSUME NEW k \in 1 .. Len(c.sub) PROVE Given(ts, k, Values(c)) = c.sub[k].vals
    <3>1. Given(ts, k, Strung[vs] \o << >>) = vs[k]
      <4>1. Len(ts) = Len(vs) /\ k \in 1 .. Len(vs) /\ \A m \in 1 .. Len(vs) : ts[m].n = Len(vs[m])
        BY <2>1, <2>2
      <4> HIDE DEF vs, ts, T
      <4> QED BY <2>1, <2>3, <4>1, GivenIsOwn, Zenon
    <3> QED BY <2>2, <2>3, <3>1
  <2> DEFINE met == {k \in DOMAIN c.sub : Holds(c.sub[k].op, c.sub[k].vals, i)}
  <2>6. {k \in DOMAIN ts : Holds(ts[k].op, Given(ts, k, Values(c)), i)} = met
    BY <2>2, <2>4, <2>5
  <2>7. Joined(ts, met) <=> Joined(c.sub, met)
    <3> HIDE DEF ts, T, met
    <3> QED BY <2>1, <2>2, JoinedSame
  <2>8. Text(c).op = "group"
    BY <1>2, KnownText
  <2>9. Filled(Text(c), Values(c), i) <=> Joined(ts, met)
    BY <2>6, <2>8 DEF Filled
  <2>10. Meets(c, i) <=> Joined(c.sub, met)
    BY <1>2 DEF Meets
  <2> QED BY <2>7, <2>9, <2>10
<1> QED BY <1>1, <1>2

\* The lists that go with conditions.
LEMMA ListsOf ==
    ASSUME NEW cs \in Seq(Known)
    PROVE  /\ Len(cs) \in Nat /\ DOMAIN cs = 1 .. Len(cs)
           /\ ValuesOf(cs) \in Seq(Seq(Nat)) /\ Len(ValuesOf(cs)) = Len(cs)
           /\ TextsOf(cs) \in Seq(Texts) /\ Len(TextsOf(cs)) = Len(cs)
           /\ \A j \in 1 .. Len(cs) : cs[j] \in Known /\ ValuesOf(cs)[j] = Values(cs[j]) /\ TextsOf(cs)[j] = Text(cs[j])
           /\ BoundOf(cs) \in Seq(Nat)
           /\ Places(TextsOf(cs)) = Len(BoundOf(cs))
<1>1. Len(cs) \in Nat /\ DOMAIN cs = 1 .. Len(cs) /\ \A j \in 1 .. Len(cs) : cs[j] \in Known
  BY LenProperties, ElementOfSeq
<1>2. \A j \in 1 .. Len(cs) : Values(cs[j]) \in Seq(Nat) /\ Text(cs[j]) \in Texts /\ Text(cs[j]).n = Len(Values(cs[j]))
  BY <1>1, KnownValues, KnownText
<1>3. ValuesOf(cs) \in Seq(Seq(Nat)) /\ Len(ValuesOf(cs)) = Len(cs) /\ DOMAIN ValuesOf(cs) = 1 .. Len(cs)
  BY <1>1, <1>2 DEF ValuesOf
<1>4. TextsOf(cs) \in Seq(Texts) /\ Len(TextsOf(cs)) = Len(cs) /\ DOMAIN TextsOf(cs) = 1 .. Len(cs)
  BY <1>1, <1>2 DEF TextsOf
<1>5. \A j \in 1 .. Len(cs) : ValuesOf(cs)[j] = Values(cs[j]) /\ TextsOf(cs)[j] = Text(cs[j])
  BY <1>1 DEF ValuesOf, TextsOf
<1>6. BoundOf(cs) \in Seq(Nat)
  BY <1>3, StrungIs DEF BoundOf
<1>7. Places(TextsOf(cs)) = Len(BoundOf(cs))
  <2>1. \A k \in DOMAIN ValuesOf(cs) : TextsOf(cs)[k].n = Len(ValuesOf(cs)[k])
    BY <1>2, <1>3, <1>5
  <2> QED BY <1>3, <1>4, <2>1, PlacesOfStrung DEF BoundOf
<1> QED BY <1>1, <1>3, <1>4, <1>5, <1>6, <1>7

\* Placeholders filled by position are the conditions that were asked for.
LEMMA ByPlaceIsAsAsked ==
    ASSUME NEW cs \in Seq(Known), NEW rest \in Seq(Nat), NEW i
    PROVE  ByPlace(TextsOf(cs), BoundOf(cs) \o rest, i) <=> AsAsked(cs, i)
<1> DEFINE ts == TextsOf(cs)
           vs == ValuesOf(cs)
           given == BoundOf(cs) \o rest
           met == {j \in DOMAIN cs : Meets(cs[j], i)}
<1>1. /\ DOMAIN cs = 1 .. Len(cs) /\ ts \in Seq(Texts) /\ Len(ts) = Len(cs) /\ vs \in Seq(Seq(Nat)) /\ Len(vs) = Len(cs)
      /\ \A j \in 1 .. Len(cs) : cs[j] \in Known /\ vs[j] = Values(cs[j]) /\ ts[j] = Text(cs[j])
  BY ListsOf
<1>2. DOMAIN ts = 1 .. Len(cs)
  BY <1>1, LenProperties
<1>3. \A j \in 1 .. Len(cs) : ts[j].n = Len(vs[j]) /\ ts[j].or = cs[j].or
  BY <1>1, KnownText
<1>4. ASSUME NEW j \in 1 .. Len(cs) PROVE Filled(ts[j], Given(ts, j, given), i) <=> Meets(cs[j], i)
  <2>1. Given(ts, j, Strung[vs] \o rest) = vs[j]
    <3>1. Len(ts) = Len(vs) /\ j \in 1 .. Len(vs) /\ \A m \in 1 .. Len(vs) : ts[m].n = Len(vs[m])
      BY <1>1, <1>3
    <3> HIDE DEF ts, vs
    <3> QED BY <1>1, <3>1, GivenIsOwn, Zenon
  <2>2. Given(ts, j, given) = vs[j]
    BY <2>1 DEF BoundOf
  <2>3. Filled(Text(cs[j]), Values(cs[j]), i) <=> Meets(cs[j], i)
    BY <1>1, FilledIsMeets
  <2>4. ts[j] = Text(cs[j]) /\ vs[j] = Values(cs[j])
    BY <1>1
  <2> HIDE DEF ts, vs, given
  <2> QED BY <2>2, <2>3, <2>4
<1>5. {j \in DOMAIN ts : Filled(ts[j], Given(ts, j, given), i)} = met
  <2> HIDE DEF ts, given
  <2> QED BY <1>1, <1>2, <1>4
<1>6. Joined(ts, met) <=> Joined(cs, met)
  <2> HIDE DEF ts, met
  <2> QED BY <1>1, <1>3, JoinedSame
<1>7. ByPlace(ts, given, i) <=> Joined(ts, met)
  <2> HIDE DEF ts, given, met
  <2> QED BY <1>5 DEF ByPlace
<1> QED BY <1>6, <1>7 DEF AsAsked

\* Without an OR every condition has to hold.
LEMMA AsAskedAnd ==
    ASSUME NEW cs \in Seq(Known), \A j \in DOMAIN cs : ~cs[j].or, NEW i
    PROVE  AsAsked(cs, i) <=> \A j \in DOMAIN cs : Meets(cs[j], i)
<1>1. DOMAIN cs = 1 .. Len(cs)
  BY LenProperties
<1>2. \A k \in 1 .. Len(cs) : cs[k].or = FALSE
  <2>1. \A k \in 1 .. Len(cs) : cs[k].or \in BOOLEAN
    BY ElementOfSeq DEF Known
  <2> QED BY <1>1, <2>1, Zenon
<1> DEFINE met == {j \in DOMAIN cs : Meets(cs[j], i)}
<1>3. Joined(cs, met) <=> 1 .. Len(cs) \subseteq met
  <2> HIDE DEF met
  <2> QED BY <1>2, JoinedAnd
<1> QED BY <1>1, <1>3 DEF AsAsked

--------------------------------------------------------------------------------
(* The query builder: the filters of the model.                            *)

\* Shown obeys its recursion.
LEMMA ShownEquation ==
    Shown = [ts \in Seq(Texts) |->
               IF ts = << >> THEN << >>
               ELSE IF Last(ts) \in {Live, Gone} THEN Shown[Front(ts)] ELSE Append(Shown[Front(ts)], Last(ts))]
<1> DEFINE S == Texts
           step == [p \in Seq(S) \X S |-> IF p[2] \in {Live, Gone} THEN p[1] ELSE Append(p[1], p[2])]
           next(f, ts) == IF Last(ts) \in {Live, Gone} THEN f[Front(ts)] ELSE Append(f[Front(ts)], Last(ts))
           Obeys(f) == f = [ts \in Seq(S) |-> IF ts = << >> THEN << >> ELSE next(f, ts)]
<1>1. << >> \in Seq(S) /\ step \in [Seq(S) \X S -> Seq(S)]
  <2> HIDE DEF S
  <2>1. ASSUME NEW p \in Seq(S) \X S PROVE (IF p[2] \in {Live, Gone} THEN p[1] ELSE Append(p[1], p[2])) \in Seq(S)
    <3>1. p[1] \in Seq(S) /\ p[2] \in S
      OBVIOUS
    <3>2. Append(p[1], p[2]) \in Seq(S)
      BY <3>1, AppendProperties
    <3> QED BY <3>1, <3>2
  <2> QED BY <2>1, EmptySeq
<1>2. PICK f \in [Seq(S) -> Seq(S)] : Recursion(f, S, << >>, step)
  <2> HIDE DEF S, step
  <2> QED BY <1>1, RecursionExists
<1>3. ASSUME NEW ts \in Seq(S), ts # << >> PROVE step[<<f[Front(ts)], Last(ts)>>] = next(f, ts)
  <2> HIDE DEF S
  <2>1. PICK t \in Seq(S), e \in S : ts = Append(t, e)
    BY <1>3, SequenceEmptyOrAppend
  <2>2. Front(ts) = t /\ Last(ts) = e
    BY <2>1, FrontOfAppend
  <2> QED BY <2>2
<1>4. Obeys(f)
  <2>1. \A ts \in Seq(S) : (IF ts = << >> THEN << >> ELSE step[<<f[Front(ts)], Last(ts)>>])
                           = (IF ts = << >> THEN << >> ELSE next(f, ts))
    <3> HIDE DEF S, step, next
    <3> QED BY <1>3
  <2> HIDE DEF S, step, next
  <2> QED BY <1>2, <2>1 DEF Recursion
<1>5. Shown = CHOOSE f_1 : Obeys(f_1)
  BY DEF Shown
<1>6. Obeys(Shown)
  <2> HIDE DEF Obeys
  <2> QED BY <1>4, <1>5
<1> QED BY <1>6

\* Shown, from one condition to the next.
LEMMA ShownIs ==
    /\ Shown[<< >>] = << >>
    /\ \A ts \in Seq(Texts), t \in Texts :
          Shown[Append(ts, t)] = IF t \in {Live, Gone} THEN Shown[ts] ELSE Append(Shown[ts], t)
<1>1. \A ts \in Seq(Texts) :
         Shown[ts] = IF ts = << >> THEN << >>
                     ELSE IF Last(ts) \in {Live, Gone} THEN Shown[Front(ts)] ELSE Append(Shown[Front(ts)], Last(ts))
  BY ShownEquation, Zenon
<1>2. << >> \in Seq(Texts)
  BY EmptySeq
<1>3. Shown[<< >>] = << >>
  BY <1>1, <1>2, Zenon
<1>4. ASSUME NEW ts \in Seq(Texts), NEW t \in Texts
      PROVE  Shown[Append(ts, t)] = IF t \in {Live, Gone} THEN Shown[ts] ELSE Append(Shown[ts], t)
  <2>1. Append(ts, t) \in Seq(Texts)
    BY AppendProperties
  <2>2. Front(Append(ts, t)) = ts /\ Last(Append(ts, t)) = t /\ Append(ts, t) # << >>
    BY FrontOfAppend
  <2> QED BY <1>1, <2>1, <2>2
<1> QED BY <1>3, <1>4

\* What the program may ask for, and the filters of the model.
LiveC == Cond(FALSE, "live", << >>)
GoneC == Cond(FALSE, "gone", << >>)
Marks == {LiveC, GoneC}
ScopeC == Cond(FALSE, "eq", <<ScopeVal>>)
Asks == {c \in Known : c.op \notin {"live", "gone"}}

\* A record of the right form is a condition.
LEMMA KnownRecord ==
    ASSUME NEW or \in BOOLEAN, NEW op \in Ops, NEW vals \in Seq(Nat), NEW sub \in Seq(Simple),
           NEW none, none = << >>, IF op = "group" THEN vals = none ELSE sub = none
    PROVE  [or |-> or, op |-> op, vals |-> vals, sub |-> sub] \in Known
<1> DEFINE c == [or |-> or, op |-> op, vals |-> vals, sub |-> sub]
<1>1. c \in [or : BOOLEAN, op : Ops, vals : Seq(Nat), sub : Seq(Simple)]
  BY Zenon
<1>2. c.op = op /\ c.vals = vals /\ c.sub = sub
  OBVIOUS
<1>3. IF c.op = "group" THEN c.vals = << >> ELSE c.sub = << >>
  BY <1>2, Zenon
<1> HIDE DEF c
<1>4. c \in Known
  BY <1>1, <1>3, Zenon DEF Known
<1> QED BY <1>4 DEF c

\* The model's filters are conditions without values, and no others are.
LEMMA MarksAreKnown ==
    /\ Marks \subseteq Known /\ Asks \subseteq Known /\ Asks \cup Marks \subseteq Known
    /\ Marks \cap Asks = {}
    /\ Text(LiveC) = Live /\ Text(GoneC) = Gone /\ Live \in Texts /\ Gone \in Texts
    /\ Values(LiveC) = << >> /\ Values(GoneC) = << >>
    /\ Live.op = "live" /\ Gone.op = "gone"
<1>1. LiveC \in Known /\ GoneC \in Known /\ LiveC.op = "live" /\ GoneC.op = "gone"
      /\ LiveC.vals = << >> /\ GoneC.vals = << >>
  <2>1. PICK none : none = << >>
    OBVIOUS
  <2>2. none \in Seq(Nat) /\ none \in Seq(Simple)
    BY <2>1, EmptySeq
  <2>3. ASSUME NEW op \in {"live", "gone"} PROVE [or |-> FALSE, op |-> op, vals |-> none, sub |-> none] \in Known
    <3>1. op \in Ops /\ op # "group"
      BY DEF Ops
    <3> QED BY <2>1, <2>2, <3>1, KnownRecord
  <2>4. /\ LiveC = [or |-> FALSE, op |-> "live", vals |-> none, sub |-> none]
        /\ GoneC = [or |-> FALSE, op |-> "gone", vals |-> none, sub |-> none]
    BY <2>1 DEF LiveC, GoneC, Cond
  <2> QED BY <2>1, <2>3, <2>4
<1>2. Text(LiveC) = Live /\ Text(GoneC) = Gone
  BY DEF LiveC, GoneC, Live, Gone
<1>3. Live \in Texts /\ Gone \in Texts /\ Live.op = "live" /\ Gone.op = "gone"
  BY <1>1, <1>2, KnownText
<1>4. Values(LiveC) = << >> /\ Values(GoneC) = << >>
  BY <1>1, KnownValues
<1>5. Marks \cap Asks = {}
  BY <1>1 DEF Marks, Asks
<1> QED BY <1>1, <1>2, <1>3, <1>4, <1>5 DEF Marks, Asks

\* The conditions of the calls, of the scope and of the terminals.
LEMMA AsksAreKnown ==
    /\ ScopeC \in Asks /\ ScopeC.or = FALSE /\ Values(ScopeC) = <<ScopeVal>>
    /\ \A n \in Nat, op \in {"key", "after"} :
          Cond(FALSE, op, <<n>>) \in Asks /\ Cond(FALSE, op, <<n>>).or = FALSE
    /\ Asking \subseteq Asks \cap Simple
    /\ \A c \in Asking : c.op = "eq" => Len(Values(c)) = 1
    /\ \A k \in Callbacks, or \in BOOLEAN : Group(or, k.conds) \in Asks
<1>1. ASSUME NEW n \in Nat, NEW op \in Ops, op \notin {"live", "gone", "group"}
      PROVE  /\ Cond(FALSE, op, <<n>>) \in Asks /\ Cond(FALSE, op, <<n>>).or = FALSE
             /\ Values(Cond(FALSE, op, <<n>>)) = <<n>>
  <2>1. PICK none \in Seq(Simple) : none = << >>
    BY EmptySeq
  <2>0. [or |-> FALSE, op |-> op, vals |-> <<n>>, sub |-> none] \in Known
    <3>1. <<n>> \in Seq(Nat)
      OBVIOUS
    <3> QED BY <1>1, <2>1, <3>1, KnownRecord
  <2>5. Cond(FALSE, op, <<n>>) = [or |-> FALSE, op |-> op, vals |-> <<n>>, sub |-> none]
    BY <2>1 DEF Cond
  <2>6. Cond(FALSE, op, <<n>>).or = FALSE /\ Cond(FALSE, op, <<n>>).op = op
        /\ Cond(FALSE, op, <<n>>).vals = <<n>>
    BY DEF Cond
  <2>2. Cond(FALSE, op, <<n>>) \in Asks /\ Cond(FALSE, op, <<n>>).or = FALSE
        /\ Cond(FALSE, op, <<n>>).op = op /\ Cond(FALSE, op, <<n>>).vals = <<n>>
    <3>1. Cond(FALSE, op, <<n>>) \in Known
      BY <2>0, <2>5
    <3> QED BY <1>1, <2>6, <3>1 DEF Asks
  <2>3. Cond(FALSE, op, <<n>>) \in Known
    BY <2>2 DEF Asks
  <2>4. Values(Cond(FALSE, op, <<n>>)) = <<n>>
    BY <1>1, <2>2, <2>3, KnownValues
  <2> QED BY <2>2, <2>4
<1>2. ScopeC \in Asks /\ ScopeC.or = FALSE /\ Values(ScopeC) = <<ScopeVal>>
  <2>1. ScopeVal \in Nat /\ "eq" \in Ops /\ "eq" \notin {"live", "gone", "group"}
    BY QueryAssumption DEF Ops
  <2> QED BY <1>1, <2>1 DEF ScopeC
<1>3. Asking \subseteq Asks \cap Simple
  <2>1. ASSUME NEW c \in Asking PROVE c \in Simple /\ c \in Known /\ c.op \notin {"live", "gone"}
    <3>1. /\ c \in [or : BOOLEAN, op : {"eq", "ne", "in", "never"}, vals : Seq(Data), sub : {<< >>}]
          /\ c.vals \in Seq(Data) /\ Data \subseteq Nat
      BY QueryAssumption DEF Asking
    <3>2. c.vals \in Seq(Nat)
      BY <3>1, SeqMonotonic
    <3>3. c = [or |-> c.or, op |-> c.op, vals |-> c.vals, sub |-> c.sub] /\ c.sub \in {<< >>} /\ c.or \in BOOLEAN
          /\ c.op \in {"eq", "ne", "in", "never"}
      BY <3>1
    <3>4. c.op \in Ops /\ c.op # "group" /\ c.op \notin {"live", "gone"}
      BY <3>3 DEF Ops
    <3>5. c \in Simple
      <4>1. [or |-> c.or, op |-> c.op, vals |-> c.vals, sub |-> c.sub] \in Simple
        BY <3>2, <3>3, <3>4, Zenon DEF Simple
      <4> QED BY <3>3, <4>1
    <3>6. c.sub \in Seq(Simple) /\ c.sub = << >>
      BY <3>3, EmptySeq
    <3>7. [or |-> c.or, op |-> c.op, vals |-> c.vals, sub |-> c.sub] \in Known
      <4>1. PICK s : s = c.sub
        OBVIOUS
      <4> QED BY <3>2, <3>3, <3>4, <3>6, KnownRecord
    <3> QED BY <3>3, <3>4, <3>5, <3>7
  <2> QED BY <2>1 DEF Asks
<1>4. ASSUME NEW c \in Asking, c.op = "eq" PROVE Len(Values(c)) = 1
  <2>1. c \in Known /\ Len(c.vals) = 1
    BY <1>3, <1>4 DEF Asks, Asking
  <2> QED BY <1>4, <2>1, KnownValues
<1>5. ASSUME NEW k \in Callbacks, NEW or \in BOOLEAN PROVE Group(or, k.conds) \in Asks
  <2>1. k.conds \in Seq(Asking)
    BY QueryAssumption
  <2>2. k.conds \in Seq(Simple)
    <3>1. Asking \subseteq Simple
      BY <1>3
    <3> QED BY <2>1, <3>1, SeqMonotonic
  <2>3. PICK none \in Seq(Nat) : none = << >>
    BY EmptySeq
  <2>4. PICK conds \in Seq(Simple) : conds = k.conds
    BY <2>2
  <2>5. [or |-> or, op |-> "group", vals |-> none, sub |-> conds] \in Known
    <3>1. "group" \in Ops
      BY DEF Ops
    <3> QED BY <2>3, <3>1, KnownRecord
  <2>6. Group(or, k.conds) = [or |-> or, op |-> "group", vals |-> none, sub |-> conds]
    BY <2>3, <2>4 DEF Group
  <2>7. Group(or, k.conds).op = "group"
    BY DEF Group
  <2> QED BY <2>5, <2>6, <2>7 DEF Asks
<1>6. ASSUME NEW n \in Nat, NEW op \in {"key", "after"}
      PROVE  Cond(FALSE, op, <<n>>) \in Asks /\ Cond(FALSE, op, <<n>>).or = FALSE
  <2>1. op \in Ops /\ op \notin {"live", "gone", "group"}
    BY DEF Ops
  <2> QED BY <1>1, <2>1
<1> QED BY <1>2, <1>3, <1>4, <1>5, <1>6

\* One condition more.
LEMMA OneMore ==
    ASSUME NEW cs \in Seq(Known), NEW c \in Known
    PROVE  /\ TextsOf(Append(cs, c)) = Append(TextsOf(cs), Text(c))
           /\ BoundOf(Append(cs, c)) = BoundOf(cs) \o Values(c)
<1>1. /\ Append(cs, c) \in Seq(Known) /\ Len(Append(cs, c)) = Len(cs) + 1 /\ Len(cs) \in Nat
      /\ \A j \in 1 .. Len(cs) : Append(cs, c)[j] = cs[j]
      /\ Append(cs, c)[Len(cs) + 1] = c
  BY AppendProperties, LenProperties
<1>2. /\ ValuesOf(Append(cs, c)) \in Seq(Seq(Nat)) /\ Len(ValuesOf(Append(cs, c))) = Len(cs) + 1
      /\ TextsOf(Append(cs, c)) \in Seq(Texts) /\ Len(TextsOf(Append(cs, c))) = Len(cs) + 1
      /\ \A j \in 1 .. Len(cs) + 1 : /\ ValuesOf(Append(cs, c))[j] = Values(Append(cs, c)[j])
                                     /\ TextsOf(Append(cs, c))[j] = Text(Append(cs, c)[j])
  BY <1>1, ListsOf
<1>3. /\ ValuesOf(cs) \in Seq(Seq(Nat)) /\ Len(ValuesOf(cs)) = Len(cs)
      /\ TextsOf(cs) \in Seq(Texts) /\ Len(TextsOf(cs)) = Len(cs)
      /\ \A j \in 1 .. Len(cs) : ValuesOf(cs)[j] = Values(cs[j]) /\ TextsOf(cs)[j] = Text(cs[j])
  BY ListsOf
<1>4. Values(c) \in Seq(Nat) /\ Text(c) \in Texts
  BY KnownValues, KnownText
<1>5. TextsOf(Append(cs, c)) = Append(TextsOf(cs), Text(c))
  <2>1. /\ Append(TextsOf(cs), Text(c)) \in Seq(Texts) /\ Len(Append(TextsOf(cs), Text(c))) = Len(cs) + 1
        /\ \A j \in 1 .. Len(cs) : Append(TextsOf(cs), Text(c))[j] = TextsOf(cs)[j]
        /\ Append(TextsOf(cs), Text(c))[Len(cs) + 1] = Text(c)
    BY <1>3, <1>4, AppendProperties
  <2>2. \A j \in 1 .. Len(cs) + 1 : TextsOf(Append(cs, c))[j] = Append(TextsOf(cs), Text(c))[j]
    BY <1>1, <1>2, <1>3, <2>1
  <2> QED BY <1>2, <2>1, <2>2, SeqEqual
<1>6. ValuesOf(Append(cs, c)) = Append(ValuesOf(cs), Values(c))
  <2>1. /\ Append(ValuesOf(cs), Values(c)) \in Seq(Seq(Nat)) /\ Len(Append(ValuesOf(cs), Values(c))) = Len(cs) + 1
        /\ \A j \in 1 .. Len(cs) : Append(ValuesOf(cs), Values(c))[j] = ValuesOf(cs)[j]
        /\ Append(ValuesOf(cs), Values(c))[Len(cs) + 1] = Values(c)
    BY <1>3, <1>4, AppendProperties
  <2>2. \A j \in 1 .. Len(cs) + 1 : ValuesOf(Append(cs, c))[j] = Append(ValuesOf(cs), Values(c))[j]
    BY <1>1, <1>2, <1>3, <2>1
  <2> QED BY <1>2, <2>1, <2>2, SeqEqual
<1> QED BY <1>3, <1>4, <1>5, <1>6, StrungIs DEF BoundOf

\* No conditions.
LEMMA NoneYet == TextsOf(<< >>) = << >> /\ BoundOf(<< >>) = << >> /\ << >> \in Seq(Asks) /\ ToSet(<< >>) = {}
<1>1. TextsOf(<< >>) = << >> /\ ValuesOf(<< >>) = << >>
  BY DEF TextsOf, ValuesOf
<1> QED BY <1>1, StrungIs, EmptySeq DEF BoundOf, ToSet

\* The elements of a sequence that was appended to.
LEMMA SetOfAppend ==
    ASSUME NEW S, NEW cs \in Seq(S), NEW c \in S
    PROVE  ToSet(Append(cs, c)) = ToSet(cs) \cup {c}
<1>1. /\ Append(cs, c) \in Seq(S) /\ Len(Append(cs, c)) = Len(cs) + 1 /\ Len(cs) \in Nat
      /\ \A j \in 1 .. Len(cs) : Append(cs, c)[j] = cs[j]
      /\ Append(cs, c)[Len(cs) + 1] = c
  BY AppendProperties, LenProperties
<1>2. DOMAIN cs = 1 .. Len(cs) /\ DOMAIN Append(cs, c) = 1 .. Len(cs) + 1
  BY <1>1, LenProperties
<1>3. 1 .. Len(cs) + 1 = 1 .. Len(cs) \cup {Len(cs) + 1}
  BY <1>1
<1> QED BY <1>1, <1>2, <1>3 DEF ToSet

\* Nothing is taken out of what was asked for.
LEMMA AsksAreShown == \A cs \in Seq(Asks) : Shown[TextsOf(cs)] = TextsOf(cs)
<1> DEFINE G == {cs \in Seq(Asks) : Shown[TextsOf(cs)] = TextsOf(cs)}
<1>1. << >> \in G
  BY NoneYet, ShownIs
<1>2. ASSUME NEW cs \in Seq(Asks), NEW c \in Asks, cs \in G PROVE Append(cs, c) \in G
  <2>1. cs \in Seq(Known) /\ c \in Known /\ Append(cs, c) \in Seq(Asks)
    BY MarksAreKnown, SeqMonotonic, AppendProperties
  <2>2. TextsOf(Append(cs, c)) = Append(TextsOf(cs), Text(c)) /\ TextsOf(cs) \in Seq(Texts) /\ Text(c) \in Texts
    BY <2>1, OneMore, ListsOf, KnownText
  <2>3. Text(c).op = c.op /\ c.op \notin {"live", "gone"}
    BY <2>1, KnownText DEF Asks
  <2>4. Text(c) \notin {Live, Gone}
    BY <2>3, MarksAreKnown
  <2>5. Shown[Append(TextsOf(cs), Text(c))] = Append(Shown[TextsOf(cs)], Text(c))
    BY <2>2, <2>4, ShownIs
  <2> QED BY <1>2, <2>1, <2>2, <2>5
<1>3. Seq(Asks) \subseteq G
  <2> HIDE DEF G
  <2> QED BY <1>1, <1>2, SeqSetInduction
<1> QED BY <1>3

--------------------------------------------------------------------------------
(* The query builder: what it carries.                                     *)

\* Conditions of a HAVING have a value each.
Singles == {c \in Asks : Len(Values(c)) = 1}
Bounds == Nat \cup {None}

Builder == [wheres : Seq(Texts), bindings : Seq(Nat), having : Seq(Texts), limit : Bounds,
            offset : Bounds, applied : BOOLEAN, excluded : BOOLEAN]
Question == [conds : Seq(Asks), having : Seq(Singles), mode : {"with", "without", "only"},
             limit : Bounds, offset : Bounds, mixed : BOOLEAN]

Mark(mode) == IF ~soft \/ mode = "with" THEN {} ELSE IF mode = "only" THEN {GoneC} ELSE {LiveC}
Scoping(q) == scoped /\ q.applied /\ ~q.excluded
Scope(q) == IF Scoping(q) THEN {ScopeC} ELSE {}

\* The builder q is the conditions ws, which are those asked for, us among them,
\* and the model's filter; the values of the HAVING come behind theirs.
Carries(q, a, ws, us) ==
    /\ ws \in Seq(Asks \cup Marks) /\ us \in Seq(Asks)
    /\ q.wheres = TextsOf(ws) /\ q.having = TextsOf(a.having)
    /\ q.bindings = BoundOf(ws) \o BoundOf(a.having)
    /\ q.limit = a.limit /\ q.offset = a.offset
    /\ Shown[q.wheres] = TextsOf(us) /\ BoundOf(us) = BoundOf(ws)
    /\ ToSet(ws) = ToSet(us) \cup Mark(a.mode)
    /\ ToSet(us) = ToSet(a.conds) \cup Scope(q)
    /\ ~Scoping(q) => us = a.conds

Link(q, a) == \E ws \in Seq(Asks \cup Marks), us \in Seq(Asks) : Carries(q, a, ws, us)

\* The conditions a builder carries are of the known forms.
LEMMA CarriedTypes ==
    ASSUME NEW q, NEW a, NEW ws, NEW us, Carries(q, a, ws, us), a.having \in Seq(Singles)
    PROVE  /\ ws \in Seq(Known) /\ us \in Seq(Known) /\ a.having \in Seq(Known)
           /\ BoundOf(ws) \in Seq(Nat) /\ BoundOf(us) \in Seq(Nat) /\ BoundOf(a.having) \in Seq(Nat)
<1>1. Singles \subseteq Known /\ Asks \subseteq Known /\ Asks \cup Marks \subseteq Known
  BY MarksAreKnown DEF Singles
<1>2. ws \in Seq(Known) /\ us \in Seq(Known) /\ a.having \in Seq(Known)
  BY <1>1, SeqMonotonic DEF Carries
<1> QED BY <1>2, ListsOf

\* A fresh builder carries nothing.
LEMMA FreshCarries ==
    ASSUME NEW q, NEW a,
           q.wheres = (IF soft THEN <<Live>> ELSE << >>), q.bindings = << >>, q.having = << >>,
           q.limit = None, q.offset = None, q.applied = FALSE,
           a.conds = << >>, a.having = << >>, a.mode = "without", a.limit = None, a.offset = None
    PROVE  Link(q, a)
<1> DEFINE ws == IF soft THEN Append(<< >>, LiveC) ELSE << >>
           us == << >>
<1>1. us \in Seq(Asks) /\ TextsOf(us) = << >> /\ BoundOf(us) = << >> /\ ToSet(us) = {}
      /\ us \in Seq(Known) /\ us \in Seq(Asks \cup Marks) /\ Shown[<< >>] = << >>
  BY NoneYet, EmptySeq, ShownIs
<1>2. LiveC \in Asks \cup Marks /\ LiveC \in Known
  BY MarksAreKnown DEF Marks
<1>3. /\ ws \in Seq(Asks \cup Marks) /\ q.wheres = TextsOf(ws) /\ BoundOf(ws) = << >>
      /\ Shown[q.wheres] = TextsOf(us) /\ ToSet(ws) = Mark(a.mode)
  <2>1. CASE soft
    <3>1. Append(<< >>, LiveC) \in Seq(Asks \cup Marks)
      BY <1>1, <1>2, AppendProperties
    <3>2. TextsOf(Append(<< >>, LiveC)) = Append(<< >>, Live) /\ BoundOf(Append(<< >>, LiveC)) = << >> \o << >>
      BY <1>1, <1>2, OneMore, MarksAreKnown
    <3>3. Append(<< >>, Live) = <<Live>> /\ << >> \o << >> = << >>
      <4>1. << >> \in Seq(Texts) /\ << >> \in Seq(Nat) /\ Live \in Texts
        BY EmptySeq, MarksAreKnown
      <4> QED BY <4>1, AppendIsConcat, ConcatEmptySeq
    <3>4. ToSet(Append(<< >>, LiveC)) = {LiveC}
      <4>1. PICK none \in Seq(Asks \cup Marks) : none = << >>
        BY <1>1
      <4>2. ToSet(Append(none, LiveC)) = ToSet(none) \cup {LiveC}
        BY <1>2, SetOfAppend
      <4>3. ToSet(none) = {}
        BY <1>1, <4>1
      <4> QED BY <4>1, <4>2, <4>3
    <3>5. Shown[Append(<< >>, Live)] = << >>
      <4>1. << >> \in Seq(Texts) /\ Live \in Texts
        BY EmptySeq, MarksAreKnown
      <4> QED BY <4>1, ShownIs
    <3> QED BY <1>1, <2>1, <3>1, <3>2, <3>3, <3>4, <3>5 DEF Mark
  <2>2. CASE ~soft
    BY <1>1, <2>2 DEF Mark
  <2> QED BY <2>1, <2>2
<1>4. << >> \o << >> = << >>
  OBVIOUS
<1>5. Carries(q, a, ws, us)
  <2> HIDE DEF ws
  <2> QED BY <1>1, <1>3, <1>4 DEF Carries, Scope, Scoping
<1> QED BY <1>1, <1>3, <1>5 DEF Link

\* A condition more, asked for by the program or by the model's scope.
Widened(p, q, a, c) ==
    /\ p.wheres = Append(q.wheres, Text(c)) /\ p.bindings = q.bindings \o Values(c) /\ p.having = q.having
    /\ a.having = << >> \/ Values(c) = << >>

Grown(p, a, ws, us, c) ==
    /\ Append(ws, c) \in Seq(Asks \cup Marks) /\ Append(us, c) \in Seq(Asks)
    /\ p.wheres = TextsOf(Append(ws, c)) /\ p.having = TextsOf(a.having)
    /\ p.bindings = BoundOf(Append(ws, c)) \o BoundOf(a.having)
    /\ Shown[p.wheres] = TextsOf(Append(us, c)) /\ BoundOf(Append(us, c)) = BoundOf(Append(ws, c))
    /\ ToSet(Append(ws, c)) = ToSet(ws) \cup {c} /\ ToSet(Append(us, c)) = ToSet(us) \cup {c}

\* What a builder with a condition more is made of.
LEMMA MoreCarries ==
    ASSUME NEW q \in Builder, NEW a \in Question, NEW ws, NEW us, Carries(q, a, ws, us), NEW c \in Asks,
           NEW p, Widened(p, q, a, c)
    PROVE  Grown(p, a, ws, us, c)
<1>1. /\ ws \in Seq(Known) /\ us \in Seq(Known) /\ a.having \in Seq(Known) /\ c \in Known
      /\ BoundOf(ws) \in Seq(Nat) /\ BoundOf(us) \in Seq(Nat) /\ BoundOf(a.having) \in Seq(Nat)
  BY CarriedTypes, MarksAreKnown DEF Question
<1>2. ws \in Seq(Asks \cup Marks) /\ us \in Seq(Asks) /\ c \in Asks \cup Marks
  BY DEF Carries
<1>3. Append(ws, c) \in Seq(Asks \cup Marks) /\ Append(us, c) \in Seq(Asks)
  BY <1>2, AppendProperties
<1>4. /\ TextsOf(Append(ws, c)) = Append(TextsOf(ws), Text(c)) /\ TextsOf(Append(us, c)) = Append(TextsOf(us), Text(c))
      /\ BoundOf(Append(ws, c)) = BoundOf(ws) \o Values(c) /\ BoundOf(Append(us, c)) = BoundOf(us) \o Values(c)
  BY <1>1, OneMore
<1>5. Values(c) \in Seq(Nat) /\ Text(c) \in Texts
  BY <1>1, KnownValues, KnownText
<1>6. p.bindings = BoundOf(Append(ws, c)) \o BoundOf(a.having)
  <2>1. p.bindings = (BoundOf(ws) \o BoundOf(a.having)) \o Values(c)
    BY DEF Carries, Widened
  <2>2. BoundOf(ws) \o << >> = BoundOf(ws) /\ (BoundOf(ws) \o Values(c)) \o << >> = BoundOf(ws) \o Values(c)
        /\ (BoundOf(ws) \o BoundOf(a.having)) \o << >> = BoundOf(ws) \o BoundOf(a.having)
    <3>1. BoundOf(ws) \o Values(c) \in Seq(Nat) /\ BoundOf(ws) \o BoundOf(a.having) \in Seq(Nat)
      BY <1>1, <1>5, ConcatProperties
    <3> QED BY <1>1, <3>1, ConcatEmptySeq
  <2>3. CASE a.having = << >>
    BY <1>4, <2>1, <2>2, <2>3, NoneYet
  <2>4. CASE Values(c) = << >>
    BY <1>4, <2>1, <2>2, <2>4
  <2> QED BY <2>3, <2>4 DEF Widened
<1>7. Shown[p.wheres] = TextsOf(Append(us, c))
  <2>1. q.wheres \in Seq(Texts)
    BY DEF Builder
  <2>2. Text(c).op = c.op /\ c.op \notin {"live", "gone"}
    BY <1>1, KnownText DEF Asks
  <2>3. Text(c) \notin {Live, Gone}
    BY <2>2, MarksAreKnown
  <2>4. Shown[Append(q.wheres, Text(c))] = Append(Shown[q.wheres], Text(c))
    BY <1>5, <2>1, <2>3, ShownIs
  <2> QED BY <1>4, <2>4 DEF Carries, Widened
<1>8. ToSet(Append(ws, c)) = ToSet(ws) \cup {c} /\ ToSet(Append(us, c)) = ToSet(us) \cup {c}
  BY <1>2, SetOfAppend
<1>9. p.wheres = TextsOf(Append(ws, c)) /\ p.having = TextsOf(a.having)
      /\ BoundOf(Append(us, c)) = BoundOf(Append(ws, c))
  BY <1>4 DEF Carries, Widened
<1> QED BY <1>3, <1>6, <1>7, <1>8, <1>9 DEF Grown

\* where().
LEMMA WhereCarries ==
    ASSUME NEW q \in Builder, NEW a \in Question, Link(q, a), NEW c \in Asks,
           NEW p, Widened(p, q, a, c),
           p.applied = q.applied, p.excluded = q.excluded,
           NEW d, d.conds = Append(a.conds, c), d.having = a.having, d.mode = a.mode,
           p.limit = d.limit, p.offset = d.offset
    PROVE  Link(p, d)
<1>1. PICK ws \in Seq(Asks \cup Marks), us \in Seq(Asks) : Carries(q, a, ws, us)
  BY DEF Link
<1>2. /\ Append(ws, c) \in Seq(Asks \cup Marks) /\ Append(us, c) \in Seq(Asks)
      /\ p.wheres = TextsOf(Append(ws, c)) /\ p.having = TextsOf(a.having)
      /\ p.bindings = BoundOf(Append(ws, c)) \o BoundOf(a.having)
      /\ Shown[p.wheres] = TextsOf(Append(us, c)) /\ BoundOf(Append(us, c)) = BoundOf(Append(ws, c))
      /\ ToSet(Append(ws, c)) = ToSet(ws) \cup {c} /\ ToSet(Append(us, c)) = ToSet(us) \cup {c}
  <2>1. Grown(p, a, ws, us, c)
    BY <1>1, MoreCarries
  <2> QED BY <2>1 DEF Grown
<1>3. ToSet(d.conds) = ToSet(a.conds) \cup {c}
  BY SetOfAppend DEF Question
<1>4. Scope(p) = Scope(q) /\ (Scoping(p) <=> Scoping(q))
  BY DEF Scope, Scoping
<1>5. ToSet(Append(ws, c)) = ToSet(Append(us, c)) \cup Mark(d.mode)
  BY <1>1, <1>2 DEF Carries
<1>6. ToSet(Append(us, c)) = ToSet(d.conds) \cup Scope(p)
  BY <1>1, <1>2, <1>3, <1>4 DEF Carries
<1>7. ~Scoping(p) => Append(us, c) = d.conds
  BY <1>1, <1>4 DEF Carries
<1>8. Carries(p, d, Append(ws, c), Append(us, c))
  BY <1>2, <1>5, <1>6, <1>7 DEF Carries
<1> QED BY <1>2, <1>8 DEF Link

\* What changes neither the conditions nor the values.
LEMMA SameCarries ==
    ASSUME NEW q, NEW a, Link(q, a),
           NEW p, p.wheres = q.wheres, p.bindings = q.bindings, p.having = q.having,
           Scoping(p) <=> Scoping(q),
           NEW d, d.conds = a.conds, d.having = a.having, d.mode = a.mode,
           p.limit = d.limit, p.offset = d.offset
    PROVE  Link(p, d)
<1>1. PICK ws \in Seq(Asks \cup Marks), us \in Seq(Asks) : Carries(q, a, ws, us)
  BY DEF Link
<1>2. Scope(p) = Scope(q)
  BY DEF Scope
<1>3. Carries(p, d, ws, us)
  BY <1>1, <1>2 DEF Carries
<1> QED BY <1>3 DEF Link

\* Three lists of values.
LEMMA JoinAssociates ==
    ASSUME NEW p \in Seq(Nat), NEW t \in Seq(Nat), NEW r \in Seq(Nat)
    PROVE  (p \o t) \o r = p \o (t \o r)
  BY ConcatAssociative

\* having().
LEMMA HavingCarries ==
    ASSUME NEW q \in Builder, NEW a \in Question, Link(q, a), NEW c \in Singles,
           NEW d, d.conds = a.conds, d.having = Append(a.having, c), d.mode = a.mode, d.limit = a.limit, d.offset = a.offset
    PROVE  Link(Having(q, c), d)
<1>1. PICK ws \in Seq(Asks \cup Marks), us \in Seq(Asks) : Carries(q, a, ws, us)
  BY DEF Link
<1> DEFINE p == Having(q, c)
<1>2. /\ p.wheres = q.wheres /\ p.having = Append(q.having, Text(c)) /\ p.bindings = q.bindings \o Values(c)
      /\ p.limit = q.limit /\ p.offset = q.offset /\ p.applied = q.applied /\ p.excluded = q.excluded
  BY DEF Having, Builder
<1>3. a.having \in Seq(Known) /\ c \in Known /\ BoundOf(ws) \in Seq(Nat) /\ BoundOf(a.having) \in Seq(Nat)
  BY <1>1, CarriedTypes, MarksAreKnown DEF Question, Singles
<1>4. TextsOf(Append(a.having, c)) = Append(TextsOf(a.having), Text(c))
      /\ BoundOf(Append(a.having, c)) = BoundOf(a.having) \o Values(c)
  BY <1>3, OneMore
<1>5. p.bindings = BoundOf(ws) \o BoundOf(d.having)
  <2>1. PICK x \in Seq(Nat), y \in Seq(Nat), z \in Seq(Nat) : x = BoundOf(ws) /\ y = BoundOf(a.having) /\ z = Values(c)
    BY <1>3, KnownValues
  <2>2. (x \o y) \o z = x \o (y \o z)
    BY JoinAssociates
  <2>3. p.bindings = (BoundOf(ws) \o BoundOf(a.having)) \o Values(c)
    BY <1>1, <1>2 DEF Carries
  <2>4. BoundOf(d.having) = BoundOf(a.having) \o Values(c)
    BY <1>4
  <2> HIDE DEF p
  <2> QED BY <2>1, <2>2, <2>3, <2>4, Zenon
<1>6. Scope(p) = Scope(q) /\ (Scoping(p) <=> Scoping(q))
  BY <1>2 DEF Scope, Scoping
<1>7. p.having = TextsOf(d.having)
  BY <1>1, <1>2, <1>4 DEF Carries
<1>8. Carries(p, d, ws, us)
  <2> HIDE DEF p
  <2> QED BY <1>1, <1>2, <1>5, <1>6, <1>7 DEF Carries
<1> QED BY <1>8 DEF Link

\* withTrashed(), onlyTrashed(), withoutTrashed().
LEMMA TrashedCarries ==
    ASSUME NEW q \in Builder, NEW a \in Question, Link(q, a), NEW mode \in {"with", "without", "only"}, soft
    PROVE  Link(Trashed(q, mode), [a EXCEPT !.mode = mode])
<1>1. PICK ws \in Seq(Asks \cup Marks), us \in Seq(Asks) : Carries(q, a, ws, us)
  BY DEF Link
<1> DEFINE p == Trashed(q, mode)
           d == [a EXCEPT !.mode = mode]
           texts == TextsOf(us)
           vs == IF mode = "with" THEN us ELSE Append(us, IF mode = "only" THEN GoneC ELSE LiveC)
<1>2. /\ d.conds = a.conds /\ d.having = a.having /\ d.mode = mode /\ d.limit = a.limit /\ d.offset = a.offset
      /\ p.having = q.having /\ p.bindings = q.bindings
      /\ p.limit = q.limit /\ p.offset = q.offset /\ p.applied = q.applied /\ p.excluded = q.excluded
      /\ p.wheres = CASE mode = "without" -> Append(Shown[q.wheres], Live)
                      [] mode = "only"    -> Append(Shown[q.wheres], Gone)
                      [] mode = "with"    -> Shown[q.wheres]
  BY DEF Trashed, Builder, Question
<1>3. Shown[q.wheres] = texts /\ us \in Seq(Known) /\ us \in Seq(Asks) /\ Shown[texts] = texts /\ texts \in Seq(Texts)
      /\ us \in Seq(Asks \cup Marks) /\ BoundOf(us) \in Seq(Nat)
  <2>1. us \in Seq(Asks \cup Marks) /\ us \in Seq(Known)
    BY MarksAreKnown, SeqMonotonic
  <2> QED BY <1>1, <2>1, AsksAreShown, ListsOf DEF Carries
<1>4. ASSUME NEW mark \in Marks
      PROVE  /\ Append(us, mark) \in Seq(Asks \cup Marks)
             /\ TextsOf(Append(us, mark)) = Append(texts, Text(mark)) /\ Shown[Append(texts, Text(mark))] = texts
             /\ BoundOf(Append(us, mark)) = BoundOf(us) /\ ToSet(Append(us, mark)) = ToSet(us) \cup {mark}
  <2>1. mark \in Known /\ Values(mark) = << >> /\ Text(mark) \in {Live, Gone} /\ Text(mark) \in Texts
    BY MarksAreKnown DEF Marks
  <2>2. TextsOf(Append(us, mark)) = Append(texts, Text(mark)) /\ BoundOf(Append(us, mark)) = BoundOf(us) \o << >>
    BY <1>3, <2>1, OneMore
  <2>3. BoundOf(us) \o << >> = BoundOf(us)
    BY <1>3, ConcatEmptySeq
  <2>4. Append(us, mark) \in Seq(Asks \cup Marks) /\ ToSet(Append(us, mark)) = ToSet(us) \cup {mark}
    <3>1. mark \in Asks \cup Marks
      OBVIOUS
    <3> QED BY <1>3, <3>1, AppendProperties, SetOfAppend
  <2>5. Shown[Append(texts, Text(mark))] = texts
    <3> HIDE DEF texts
    <3> QED BY <1>3, <2>1, ShownIs
  <2> QED BY <2>2, <2>3, <2>4, <2>5
<1>5. /\ vs \in Seq(Asks \cup Marks) /\ p.wheres = TextsOf(vs) /\ Shown[p.wheres] = TextsOf(us)
      /\ BoundOf(vs) = BoundOf(us) /\ ToSet(vs) = ToSet(us) \cup Mark(mode)
  <2> HIDE DEF p
  <2>1. CASE mode = "with"
    BY <1>2, <1>3, <2>1 DEF Mark
  <2>2. CASE mode = "only"
    <3>1. GoneC \in Marks /\ Text(GoneC) = Gone /\ Mark(mode) = {GoneC}
      BY <2>2, MarksAreKnown DEF Marks, Mark
    <3>2. vs = Append(us, GoneC) /\ p.wheres = Append(texts, Gone)
      BY <1>2, <1>3, <2>2
    <3> QED BY <1>4, <3>1, <3>2
  <2>3. CASE mode = "without"
    <3>1. LiveC \in Marks /\ Text(LiveC) = Live /\ Mark(mode) = {LiveC}
      BY <2>3, MarksAreKnown DEF Marks, Mark
    <3>2. vs = Append(us, LiveC) /\ p.wheres = Append(texts, Live)
      BY <1>2, <1>3, <2>3
    <3> QED BY <1>4, <3>1, <3>2
  <2> QED BY <2>1, <2>2, <2>3
<1>6. Scope(p) = Scope(q) /\ (Scoping(p) <=> Scoping(q))
  BY <1>2 DEF Scope, Scoping
<1>7. p.bindings = BoundOf(vs) \o BoundOf(d.having)
  <2> HIDE DEF p, d, vs
  <2> QED BY <1>1, <1>2, <1>5 DEF Carries
<1>8. Carries(p, d, vs, us)
  <2> HIDE DEF p, d, vs
  <2> QED BY <1>1, <1>2, <1>5, <1>6, <1>7 DEF Carries
<1> QED BY <1>5, <1>8 DEF Link

\* applyPendingGlobalScopes.
LEMMA CompileIs ==
    ASSUME NEW q \in Builder
    PROVE  /\ Compile(q) \in Builder /\ Compile(q).excluded = q.excluded
           /\ Compile(q).limit = q.limit /\ Compile(q).offset = q.offset /\ Compile(q).having = q.having
           /\ Scoping(Compile(q)) <=> scoped /\ ~q.excluded
           /\ (q.applied \/ ~scoped) => Compile(q) = q
<1> DEFINE marked == [q EXCEPT !.applied = TRUE]
<1>1. marked \in Builder /\ marked.excluded = q.excluded /\ marked.limit = q.limit /\ marked.offset = q.offset
      /\ marked.having = q.having /\ marked.applied = TRUE
  BY DEF Builder
<1>2. CASE q.applied \/ ~scoped
  BY <1>2 DEF Compile, Scoping, Builder
<1>3. CASE ~(q.applied \/ ~scoped) /\ q.excluded
  BY <1>1, <1>3 DEF Compile, Scoping
<1>4. CASE ~(q.applied \/ ~scoped) /\ ~q.excluded
  <2>1. Compile(q) = Where(marked, ScopeC)
    BY <1>4 DEF Compile, ScopeC
  <2>2. Text(ScopeC) \in Texts /\ Values(ScopeC) \in Seq(Nat)
    BY AsksAreKnown, MarksAreKnown, KnownText, KnownValues
  <2>3. marked.wheres \in Seq(Texts) /\ marked.bindings \in Seq(Nat)
    BY <1>1 DEF Builder
  <2>4. Append(marked.wheres, Text(ScopeC)) \in Seq(Texts) /\ marked.bindings \o Values(ScopeC) \in Seq(Nat)
    <3> HIDE DEF marked
    <3> QED BY <2>2, <2>3, AppendProperties, ConcatProperties
  <2> HIDE DEF marked
  <2>5. Where(marked, ScopeC) \in Builder
    BY <1>1, <2>4 DEF Where, Builder
  <2>6. /\ Where(marked, ScopeC).excluded = marked.excluded /\ Where(marked, ScopeC).limit = marked.limit
        /\ Where(marked, ScopeC).offset = marked.offset /\ Where(marked, ScopeC).having = marked.having
        /\ Where(marked, ScopeC).applied = marked.applied
    BY <1>1 DEF Where, Builder
  <2> QED BY <1>1, <1>4, <2>1, <2>5, <2>6 DEF Scoping
<1> QED BY <1>2, <1>3, <1>4

\* Compiling adds the condition of the scope, unless values of a HAVING are in its way.
LEMMA CompileCarries ==
    ASSUME NEW q \in Builder, NEW a \in Question, Link(q, a),
           (scoped /\ ~q.applied /\ ~q.excluded) => a.having = << >>
    PROVE  Link(Compile(q), a)
<1> DEFINE marked == [q EXCEPT !.applied = TRUE]
<1>1. /\ marked \in Builder /\ marked.excluded = q.excluded /\ marked.limit = q.limit /\ marked.offset = q.offset
      /\ marked.having = q.having /\ marked.applied = TRUE /\ marked.wheres = q.wheres /\ marked.bindings = q.bindings
  BY DEF Builder
<1>2. CASE q.applied \/ ~scoped
  BY <1>2 DEF Compile
<1>3. PICK ws \in Seq(Asks \cup Marks), us \in Seq(Asks) : Carries(q, a, ws, us)
  BY DEF Link
<1>4. CASE ~(q.applied \/ ~scoped) /\ q.excluded
  <2>1. Compile(q) = marked
    BY <1>4 DEF Compile
  <2>2. Scoping(marked) <=> Scoping(q)
    BY <1>1, <1>4 DEF Scoping
  <2>3. marked.limit = a.limit /\ marked.offset = a.offset
    BY <1>1, <1>3 DEF Carries
  <2> HIDE DEF marked
  <2> QED BY <1>1, <2>1, <2>2, <2>3, SameCarries
<1>5. CASE ~(q.applied \/ ~scoped) /\ ~q.excluded
  <2> DEFINE p == Where(marked, ScopeC)
  <2>1. Compile(q) = p
    BY <1>5 DEF Compile, ScopeC
  <2>2. /\ p.wheres = Append(q.wheres, Text(ScopeC)) /\ p.bindings = q.bindings \o Values(ScopeC)
        /\ p.having = q.having /\ p.limit = q.limit /\ p.offset = q.offset /\ p.applied = TRUE
        /\ p.excluded = q.excluded
    <3> HIDE DEF marked
    <3> QED BY <1>1 DEF Where, Builder
  <2>3. Widened(p, q, a, ScopeC)
    BY <1>5, <2>2 DEF Widened
  <2>4. Grown(p, a, ws, us, ScopeC)
    <3> HIDE DEF p
    <3> QED BY <1>3, <2>3, AsksAreKnown, MoreCarries
  <2>5. Scoping(p) /\ Scope(p) = {ScopeC} /\ ~Scoping(q) /\ Scope(q) = {}
    BY <1>5, <2>2 DEF Scoping, Scope
  <2>6. Carries(p, a, Append(ws, ScopeC), Append(us, ScopeC))
    <3> HIDE DEF p
    <3>1. /\ Append(ws, ScopeC) \in Seq(Asks \cup Marks) /\ Append(us, ScopeC) \in Seq(Asks)
          /\ p.wheres = TextsOf(Append(ws, ScopeC)) /\ p.having = TextsOf(a.having)
          /\ p.bindings = BoundOf(Append(ws, ScopeC)) \o BoundOf(a.having)
          /\ Shown[p.wheres] = TextsOf(Append(us, ScopeC)) /\ BoundOf(Append(us, ScopeC)) = BoundOf(Append(ws, ScopeC))
          /\ ToSet(Append(ws, ScopeC)) = ToSet(ws) \cup {ScopeC} /\ ToSet(Append(us, ScopeC)) = ToSet(us) \cup {ScopeC}
      BY <2>4 DEF Grown
    <3>2. ToSet(Append(ws, ScopeC)) = ToSet(Append(us, ScopeC)) \cup Mark(a.mode)
      BY <1>3, <3>1 DEF Carries
    <3>3. ToSet(Append(us, ScopeC)) = ToSet(a.conds) \cup Scope(p)
      BY <1>3, <2>5, <3>1 DEF Carries
    <3>4. p.limit = a.limit /\ p.offset = a.offset
      BY <1>3, <2>2 DEF Carries
    <3> QED BY <2>5, <3>1, <3>2, <3>3, <3>4 DEF Carries
  <2>7. Append(ws, ScopeC) \in Seq(Asks \cup Marks) /\ Append(us, ScopeC) \in Seq(Asks)
    BY <2>4 DEF Grown
  <2> HIDE DEF p
  <2> QED BY <2>1, <2>6, <2>7 DEF Link
<1> QED BY <1>2, <1>4, <1>5

--------------------------------------------------------------------------------
(* The query builder: what a statement reaches.                            *)

\* The rows that meet the filters of the model.
Filtering(a, i) ==
    /\ soft => CASE a.mode = "without" -> ~rows[i].gone
                 [] a.mode = "only"    -> rows[i].gone
                 [] a.mode = "with"    -> TRUE
    /\ (scoped /\ ~b.excluded) => rows[i].a = ScopeVal

\* The filters of the model as conditions.
LEMMA FiltersMeet ==
    ASSUME NEW a \in Question, NEW q, Scoping(q) <=> scoped /\ ~b.excluded, NEW i
    PROVE  Filtering(a, i) <=> \A c \in Mark(a.mode) \cup Scope(q) : Meets(c, i)
<1>1. /\ Meets(LiveC, i) <=> ~rows[i].gone
      /\ Meets(GoneC, i) <=> rows[i].gone
      /\ Meets(ScopeC, i) <=> rows[i].a = ScopeVal
  <2>1. /\ LiveC.op = "live" /\ GoneC.op = "gone" /\ ScopeC.op = "eq" /\ ScopeC.vals = <<ScopeVal>>
    BY DEF LiveC, GoneC, ScopeC, Cond
  <2>2. Meets(LiveC, i) <=> ~rows[i].gone
    BY <2>1 DEF Meets, Holds
  <2>3. Meets(GoneC, i) <=> rows[i].gone
    BY <2>1 DEF Meets, Holds
  <2>4. Meets(ScopeC, i) <=> rows[i].a = ScopeVal
    BY <2>1 DEF Meets, Holds
  <2> QED BY <2>2, <2>3, <2>4
<1>2. Scope(q) = IF scoped /\ ~b.excluded THEN {ScopeC} ELSE {}
  BY DEF Scope
<1>3. a.mode \in {"with", "without", "only"}
  BY DEF Question
<1>4. (\A c \in Scope(q) : Meets(c, i)) <=> ((scoped /\ ~b.excluded) => rows[i].a = ScopeVal)
  BY <1>1, <1>2
<1>5. CASE ~soft \/ a.mode = "with"
  <2>1. Mark(a.mode) = {}
    BY <1>5 DEF Mark
  <2> QED BY <1>4, <1>5, <2>1 DEF Filtering
<1>6. CASE soft /\ a.mode = "only"
  <2>1. Mark(a.mode) = {GoneC}
    BY <1>6 DEF Mark
  <2>2. Filtering(a, i) <=> (rows[i].gone /\ ((scoped /\ ~b.excluded) => rows[i].a = ScopeVal))
    BY <1>6 DEF Filtering
  <2> QED BY <1>1, <1>4, <2>1, <2>2
<1>7. CASE soft /\ a.mode = "without"
  <2>1. Mark(a.mode) = {LiveC}
    BY <1>7 DEF Mark
  <2>2. Filtering(a, i) <=> (~rows[i].gone /\ ((scoped /\ ~b.excluded) => rows[i].a = ScopeVal))
    BY <1>7 DEF Filtering
  <2> QED BY <1>1, <1>4, <2>1, <2>2
<1> QED BY <1>3, <1>5, <1>6, <1>7

\* The conditions of a compiled builder are the filters and what was asked for.
LEMMA KeptIsAsked ==
    ASSUME NEW q \in Builder, NEW a \in Question, Link(q, a), q.excluded = b.excluded,
           Scoping(q) <=> scoped /\ ~b.excluded,
           Filtered(a) => \A j \in DOMAIN a.conds : ~a.conds[j].or, NEW i
    PROVE  ByPlace(q.wheres, q.bindings, i) <=> Filtering(a, i) /\ AsAsked(a.conds, i)
<1>1. PICK ws \in Seq(Asks \cup Marks), us \in Seq(Asks) : Carries(q, a, ws, us)
  BY DEF Link
<1>2. /\ ws \in Seq(Known) /\ us \in Seq(Known) /\ a.conds \in Seq(Known) /\ BoundOf(a.having) \in Seq(Nat)
  <2>1. a.conds \in Seq(Known)
    BY MarksAreKnown, SeqMonotonic DEF Question
  <2> QED BY <1>1, <2>1, CarriedTypes DEF Question
<1>3. Filtering(a, i) <=> \A c \in Mark(a.mode) \cup Scope(q) : Meets(c, i)
  BY FiltersMeet
<1>4. CASE Filtered(a)
  <2>1. ByPlace(q.wheres, q.bindings, i) <=> AsAsked(ws, i)
    <3>1. ByPlace(TextsOf(ws), BoundOf(ws) \o BoundOf(a.having), i) <=> AsAsked(ws, i)
      BY <1>2, ByPlaceIsAsAsked
    <3>2. q.wheres = TextsOf(ws) /\ q.bindings = BoundOf(ws) \o BoundOf(a.having)
      BY <1>1 DEF Carries
    <3> QED BY <3>1, <3>2
  <2>2. ToSet(ws) = ToSet(a.conds) \cup (Mark(a.mode) \cup Scope(q))
    BY <1>1 DEF Carries
  <2>3. \A c \in Mark(a.mode) \cup Scope(q) : ~c.or
    BY AsksAreKnown DEF Mark, Scope, LiveC, GoneC, Cond
  <2>4. \A c \in ToSet(a.conds) : ~c.or
    BY <1>4 DEF ToSet
  <2>5. \A j \in DOMAIN ws : ~ws[j].or
    <3>1. \A j \in DOMAIN ws : ws[j] \in ToSet(ws)
      BY DEF ToSet
    <3> QED BY <2>2, <2>3, <2>4, <3>1, Zenon
  <2>6. AsAsked(ws, i) <=> \A c \in ToSet(ws) : Meets(c, i)
    <3>1. AsAsked(ws, i) <=> \A j \in DOMAIN ws : Meets(ws[j], i)
      BY <1>2, <2>5, AsAskedAnd
    <3> QED BY <3>1 DEF ToSet
  <2>7. AsAsked(a.conds, i) <=> \A c \in ToSet(a.conds) : Meets(c, i)
    <3>1. AsAsked(a.conds, i) <=> \A j \in DOMAIN a.conds : Meets(a.conds[j], i)
      BY <1>2, <1>4, AsAskedAnd
    <3> QED BY <3>1 DEF ToSet
  <2> QED BY <1>3, <2>1, <2>2, <2>6, <2>7, Zenon
<1>5. CASE ~Filtered(a)
  <2>1. Mark(a.mode) = {} /\ ~Scoping(q) /\ Scope(q) = {}
    BY <1>5 DEF Filtered, Mark, Scope
  <2>2. us = a.conds /\ ToSet(ws) = ToSet(us)
    BY <1>1, <2>1 DEF Carries
  <2>3. ws \in Seq(Asks)
    <3>1. ToSet(us) \subseteq Asks
      <4>1. \A j \in DOMAIN us : us[j] \in Asks
        BY LenProperties, ElementOfSeq
      <4> QED BY <4>1 DEF ToSet
    <3>2. Len(ws) \in Nat /\ DOMAIN ws = 1 .. Len(ws) /\ ws = [j \in 1 .. Len(ws) |-> ws[j]]
      BY LenProperties
    <3>3. \A j \in 1 .. Len(ws) : ws[j] \in Asks
      BY <2>2, <3>1, <3>2 DEF ToSet
    <3> QED BY <3>2, <3>3
  <2>4. q.wheres = TextsOf(us)
    BY <1>1, <2>3, AsksAreShown DEF Carries
  <2>5. q.bindings = BoundOf(us) \o BoundOf(a.having)
    BY <1>1 DEF Carries
  <2>6. ByPlace(TextsOf(us), BoundOf(us) \o BoundOf(a.having), i) <=> AsAsked(us, i)
    BY <1>2, ByPlaceIsAsAsked
  <2>7. Filtering(a, i)
    BY <1>3, <2>1
  <2> QED BY <2>2, <2>4, <2>5, <2>6, <2>7
<1> QED BY <1>4, <1>5

\* The values behind those of the conditions are the ones of the HAVING.
LEMMA HavingIsAsked ==
    ASSUME NEW q \in Builder, NEW a \in Question, Link(q, a), NEW i
    PROVE  /\ Fits(q)
           /\ FitsWrite(q) => a.having = << >>
           /\ ByPlace(q.having, SubSeq(q.bindings, Places(q.wheres) + 1, Len(q.bindings)), i) <=> AsAsked(a.having, i)
<1>1. PICK ws \in Seq(Asks \cup Marks), us \in Seq(Asks) : Carries(q, a, ws, us)
  BY DEF Link
<1>2. /\ ws \in Seq(Known) /\ a.having \in Seq(Known)
      /\ BoundOf(ws) \in Seq(Nat) /\ BoundOf(a.having) \in Seq(Nat)
  BY <1>1, CarriedTypes DEF Question
<1>3. q.wheres = TextsOf(ws) /\ q.having = TextsOf(a.having) /\ q.bindings = BoundOf(ws) \o BoundOf(a.having)
  BY <1>1 DEF Carries
<1> DEFINE s == BoundOf(ws)
           v == BoundOf(a.having)
<1>4. Places(q.wheres) = Len(s) /\ Places(q.having) = Len(v)
  BY <1>2, <1>3, ListsOf
<1>5. s \o v \in Seq(Nat) /\ Len(s \o v) = Len(s) + Len(v) /\ Len(s) \in Nat /\ Len(v) \in Nat
  BY <1>2, ConcatProperties, LenProperties
<1>6. SubSeq(s \o v, Len(s) + 1, Len(s) + Len(v)) = v
  <2>1. Found(s \o v, v, Len(s))
    BY <1>2, FoundAtEnd
  <2> HIDE DEF s, v
  <2> QED BY <1>2, <1>5, <2>1, CutOut DEF Found
<1>7. ByPlace(TextsOf(a.having), v \o << >>, i) <=> AsAsked(a.having, i)
  <2>1. << >> \in Seq(Nat)
    BY EmptySeq
  <2> QED BY <1>2, <2>1, ByPlaceIsAsAsked
<1>8. v \o << >> = v
  BY <1>2, ConcatEmptySeq
<1>9. Fits(q)
  BY <1>3, <1>4, <1>5 DEF Fits
<1>10. SubSeq(q.bindings, Places(q.wheres) + 1, Len(q.bindings)) = v
  BY <1>3, <1>4, <1>5, <1>6
<1>11. ASSUME FitsWrite(q) PROVE a.having = << >>
  <2>1. Len(v) = 0
    BY <1>3, <1>4, <1>5, <1>11 DEF FitsWrite
  <2>2. SUFFICES ASSUME a.having # << >> PROVE FALSE
    OBVIOUS
  <2>3. PICK t \in Seq(Singles), e \in Singles : a.having = Append(t, e)
    BY <2>2, SequenceEmptyOrAppend DEF Question
  <2>4. t \in Seq(Known) /\ e \in Known /\ Len(Values(e)) = 1
    <3>1. Singles \subseteq Known
      BY MarksAreKnown DEF Singles
    <3> QED BY <2>3, <3>1, SeqMonotonic DEF Singles
  <2>5. BoundOf(Append(t, e)) = BoundOf(t) \o Values(e)
    BY <2>4, OneMore
  <2>6. BoundOf(t) \in Seq(Nat) /\ Values(e) \in Seq(Nat)
    BY <2>4, ListsOf, KnownValues
  <2>7. PICK x \in Seq(Nat) : x = BoundOf(t)
    BY <2>6
  <2>8. PICK y \in Seq(Nat) : y = Values(e)
    BY <2>6
  <2>9. Len(x \o y) = Len(x) + Len(y) /\ Len(x) \in Nat
    BY ConcatProperties, LenProperties
  <2>10. BoundOf(a.having) = x \o y
    BY <2>3, <2>5, <2>7, <2>8, Zenon
  <2>11. Len(x \o y) = 0
    BY <2>1, <2>10
  <2>12. Len(y) = 1
    BY <2>4, <2>8
  <2> QED BY <2>9, <2>11, <2>12
<1> QED BY <1>3, <1>7, <1>8, <1>9, <1>10, <1>11

\* What a compiled builder reaches is what was asked for.
LEMMA SelectedIsMeant ==
    ASSUME NEW q \in Builder, NEW a \in Question, Link(q, a), q.excluded = b.excluded,
           Scoping(q) <=> scoped /\ ~b.excluded,
           Filtered(a) => \A j \in DOMAIN a.conds : ~a.conds[j].or
    PROVE  Fits(q) /\ Selected(q) = Meant(a) /\ (FitsWrite(q) => Reached(q) = Meant(a))
<1>1. \A i \in Present : ByPlace(q.wheres, q.bindings, i) <=> Filtering(a, i) /\ AsAsked(a.conds, i)
  BY KeptIsAsked
<1>2. /\ Fits(q)
      /\ FitsWrite(q) => a.having = << >>
      /\ \A i \in Present : ByPlace(q.having, SubSeq(q.bindings, Places(q.wheres) + 1, Len(q.bindings)), i)
                            <=> AsAsked(a.having, i)
  BY HavingIsAsked
<1>3. Meant(a) = {i \in Present : Filtering(a, i) /\ AsAsked(a.conds, i) /\ AsAsked(a.having, i)}
  BY Zenon DEF Meant, Filtering
<1>4. Selected(q) = Meant(a)
  BY <1>1, <1>2, <1>3, Zenon DEF Selected
<1>5. ASSUME FitsWrite(q) PROVE Reached(q) = Meant(a)
  <2>1. \A i : AsAsked(a.having, i)
    <3>1. a.having = << >>
      BY <1>2, <1>5
    <3> QED BY <3>1, Zenon DEF AsAsked, Joined
  <2> QED BY <1>1, <1>3, <1>5, <2>1, Zenon DEF Reached
<1> QED BY <1>2, <1>4, <1>5

Right(l) == l.hit \subseteq l.meant /\ Cardinality(l.hit) = l.size

\* What a call adds to a builder keeps its form.
LEMMA WhereIs ==
    ASSUME NEW q \in Builder, NEW c \in Known
    PROVE  /\ Where(q, c) \in Builder /\ Having(q, c) \in Builder
           /\ Where(q, c).wheres = Append(q.wheres, Text(c)) /\ Where(q, c).bindings = q.bindings \o Values(c)
           /\ Where(q, c).having = q.having /\ Where(q, c).limit = q.limit /\ Where(q, c).offset = q.offset
           /\ Where(q, c).applied = q.applied /\ Where(q, c).excluded = q.excluded
           /\ Having(q, c).applied = q.applied /\ Having(q, c).excluded = q.excluded
<1>1. Append(q.wheres, Text(c)) \in Seq(Texts) /\ Append(q.having, Text(c)) \in Seq(Texts)
      /\ q.bindings \o Values(c) \in Seq(Nat)
  BY KnownText, KnownValues, AppendProperties, ConcatProperties DEF Builder
<1> QED BY <1>1 DEF Where, Having, Builder

\* A builder that is reset is fresh.
LEMMA ResetIs ==
    ASSUME NEW q \in Builder
    PROVE  /\ Reset(q) \in Builder /\ Reset(q).excluded = q.excluded
           /\ Nothing \in Question /\ Link(Reset(q), Nothing)
<1>1. <<Live>> \in Seq(Texts) /\ << >> \in Seq(Texts) /\ << >> \in Seq(Nat) /\ << >> \in Seq(Asks) /\ << >> \in Seq(Singles)
  <2>1. Append(<< >>, Live) \in Seq(Texts) /\ Append(<< >>, Live) = <<Live>>
    <3>1. << >> \in Seq(Texts) /\ Live \in Texts
      BY EmptySeq, MarksAreKnown
    <3> QED BY <3>1, AppendProperties, AppendIsConcat, ConcatEmptySeq
  <2> QED BY <2>1, EmptySeq
<1>2. Reset(q) \in Builder /\ Reset(q).excluded = q.excluded
  BY <1>1 DEF Reset, Builder, Bounds
<1>3. Nothing \in Question
  BY <1>1 DEF Nothing, Question, Bounds
<1>4. /\ Reset(q).wheres = (IF soft THEN <<Live>> ELSE << >>) /\ Reset(q).bindings = << >> /\ Reset(q).having = << >>
      /\ Reset(q).limit = None /\ Reset(q).offset = None /\ Reset(q).applied = FALSE
  BY DEF Reset, Builder
<1>5. Nothing.conds = << >> /\ Nothing.having = << >> /\ Nothing.mode = "without" /\ Nothing.limit = None /\ Nothing.offset = None
  BY DEF Nothing
<1>6. Link(Reset(q), Nothing)
  BY <1>4, <1>5, FreshCarries
<1> QED BY <1>2, <1>3, <1>6

\* A builder without a HAVING was asked for none.
LEMMA NoHaving ==
    ASSUME NEW q, NEW a \in Question, Link(q, a), q.having = << >>
    PROVE  a.having = << >>
<1>1. q.having = TextsOf(a.having)
  BY DEF Link, Carries
<1>2. Singles \subseteq Known
  BY MarksAreKnown DEF Singles
<1>3. a.having \in Seq(Known)
  BY <1>2, SeqMonotonic DEF Question
<1>4. Len(TextsOf(a.having)) = Len(a.having)
  BY <1>3, ListsOf
<1>5. Len(a.having) = 0
  BY <1>1, <1>4
<1> QED BY <1>3, <1>5, EmptySeq

\* What is recorded of a statement that was answered as asked is right.
LEMMA RecordIsRight ==
    ASSUME NEW op, NEW a, NEW hit, NEW size, NEW ok,
           (ok /\ Clean(Compiled(a))) => hit \subseteq Meant(a) /\ Cardinality(hit) = size
    PROVE  Right(Record(op, a, hit, size, ok))
<1>1. CASE ok /\ Clean(Compiled(a))
  BY <1>1 DEF Record, Right
<1>2. CASE ~(ok /\ Clean(Compiled(a)))
  BY <1>2, FS_EmptySet DEF Record, Right, NoStatement
<1> QED BY <1>1, <1>2

\* What a question must not have to be answered as asked.
LEMMA CleanIs ==
    ASSUME NEW a \in Question, Clean(Compiled(a))
    PROVE  /\ ~a.mixed
           /\ Pending => a.having = << >>
           /\ Filtered(a) => \A j \in DOMAIN a.conds : ~a.conds[j].or
<1>1. Compiled(a).conds = a.conds /\ Compiled(a).mode = a.mode
      /\ Compiled(a).mixed = (a.mixed \/ (Pending /\ a.having # << >>))
  BY DEF Compiled, Question
<1>2. Filtered(Compiled(a)) <=> Filtered(a)
  BY <1>1 DEF Filtered
<1> QED BY <1>1, <1>2 DEF Clean

\* The terminals that read.
LEMMA ReadIsRight ==
    ASSUME NEW q \in Builder, NEW a \in Question, q.excluded = b.excluded,
           Clean(Compiled(a)) => Link(Compile(q), a), NEW op, Read(op, q, a)
    PROVE  Right(last')
<1> DEFINE c == Compile(q)
<1>1. PICK fails \in BOOLEAN, hit \in SUBSET Selected(c) :
         /\ Cardinality(hit) = Cut(Cardinality(Selected(c)), c.limit, c.offset)
         /\ last' = Record(op, a, hit, Cut(Cardinality(Meant(a)), a.limit, a.offset), ~fails /\ Fits(c))
  BY Zenon DEF Read
<1>2. c \in Builder /\ c.excluded = b.excluded /\ (Scoping(c) <=> scoped /\ ~b.excluded)
  BY CompileIs
<1>3. ASSUME Clean(Compiled(a))
      PROVE  hit \subseteq Meant(a) /\ Cardinality(hit) = Cut(Cardinality(Meant(a)), a.limit, a.offset)
  <2>1. Link(c, a) /\ c.limit = a.limit /\ c.offset = a.offset
    BY <1>3 DEF Link, Carries
  <2>2. Filtered(a) => \A j \in DOMAIN a.conds : ~a.conds[j].or
    BY <1>3, CleanIs
  <2>3. Selected(c) = Meant(a)
    <3> HIDE DEF c
    <3> QED BY <1>2, <2>1, <2>2, SelectedIsMeant
  <2> QED BY <1>1, <2>1, <2>3
<1> HIDE DEF c
<1> QED BY <1>1, <1>3, RecordIsRight

\* A builder that was not compiled yet carries as much once it is.
LEMMA CompiledCarries ==
    ASSUME NEW q \in Builder, NEW a \in Question, q.excluded = b.excluded, q.applied = b.applied,
           ~a.mixed => Link(q, a), Clean(Compiled(a))
    PROVE  Link(Compile(q), a)
<1>1. ~a.mixed /\ (Pending => a.having = << >>)
  BY CleanIs
<1>2. (scoped /\ ~q.applied /\ ~q.excluded) => a.having = << >>
  BY <1>1 DEF Pending
<1> QED BY <1>1, <1>2, CompileCarries

\* The ones that write.
LEMMA WriteIsRight ==
    ASSUME NEW q \in Builder, NEW a \in Question, q.excluded = b.excluded,
           Scoping(q) <=> scoped /\ ~b.excluded,
           Clean(Compiled(a)) => Link(q, a), NEW op, NEW ok, ok => FitsWrite(q)
    PROVE  Right(Record(op, a, Reached(q), Cardinality(Meant(a)), ok))
<1>1. ASSUME ok, Clean(Compiled(a)) PROVE Reached(q) = Meant(a)
  <2>1. Filtered(a) => \A j \in DOMAIN a.conds : ~a.conds[j].or
    BY <1>1, CleanIs
  <2> QED BY <1>1, <2>1, SelectedIsMeant
<1> QED BY <1>1, RecordIsRight

--------------------------------------------------------------------------------
(* The query builder: the inductive invariant.                             *)

\* The inductive invariant.
CarriesTheQuestion ==
    /\ b \in Builder /\ asked \in Question
    /\ ~asked.mixed => Link(b, asked)
    /\ Right(last)

\* A builder carries its question after a step as before.
LEMMA LinkLater ==
    ASSUME soft' = soft, scoped' = scoped, ~asked'.mixed => Link(b', asked')
    PROVE  (~asked.mixed => Link(b, asked))'
  BY DEF Link, Carries, Scope, Scoping, Mark

\* What a step has to establish.
LEMMA CarriedAfter ==
    ASSUME soft' = soft, scoped' = scoped, b' \in Builder, asked' \in Question,
           ~asked'.mixed => Link(b', asked'), Right(last')
    PROVE  CarriesTheQuestion'
<1>1. (~asked.mixed => Link(b, asked))'
  BY LinkLater
<1>2. Right(last)'
  BY DEF Right
<1> QED BY <1>1, <1>2 DEF CarriesTheQuestion, Builder, Question

\* No statement is a right one.
LEMMA NoStatementIsRight == Right(NoStatement)
  BY FS_EmptySet DEF Right, NoStatement

\* At the start.
LEMMA CarriesFirst == ASSUME QueryInit PROVE CarriesTheQuestion
<1>1. b.wheres = (IF soft THEN <<Live>> ELSE << >>) /\ b.bindings = << >> /\ b.having = << >>
      /\ b.limit = None /\ b.offset = None /\ b.applied = FALSE /\ b.excluded = FALSE
  BY DEF QueryInit, Fresh
<1>2. <<Live>> \in Seq(Texts) /\ << >> \in Seq(Texts) /\ << >> \in Seq(Nat)
  <2>1. Append(<< >>, Live) \in Seq(Texts) /\ Append(<< >>, Live) = <<Live>>
    <3>1. << >> \in Seq(Texts) /\ Live \in Texts
      BY EmptySeq, MarksAreKnown
    <3> QED BY <3>1, AppendProperties, AppendIsConcat, ConcatEmptySeq
  <2> QED BY <2>1, EmptySeq
<1>3. b \in Builder
  BY <1>2 DEF QueryInit, Fresh, Builder, Bounds
<1>4. asked = Nothing /\ Nothing \in Question
  BY <1>3, ResetIs DEF QueryInit
<1>5. Link(b, asked)
  <2>1. asked.conds = << >> /\ asked.having = << >> /\ asked.mode = "without" /\ asked.limit = None /\ asked.offset = None
    BY DEF QueryInit, Nothing
  <2> QED BY <1>1, <2>1, FreshCarries
<1> QED BY <1>3, <1>4, <1>5, NoStatementIsRight DEF CarriesTheQuestion, QueryInit

\* A question with a condition more.
LEMMA AskedWiderIs ==
    ASSUME NEW a \in Question, NEW c \in Asks
    PROVE  /\ \A m \in BOOLEAN : [a EXCEPT !.conds = Append(@, c), !.mixed = m] \in Question
           /\ \A m \in BOOLEAN, n \in Bounds, o \in Bounds :
                 [a EXCEPT !.conds = Append(@, c), !.limit = n, !.offset = o, !.mixed = m] \in Question
<1>1. Append(a.conds, c) \in Seq(Asks)
  BY AppendProperties DEF Question
<1> QED BY <1>1 DEF Question

\* The conditions without the filter.
LEMMA ShownTyped == \A ts \in Seq(Texts) : Shown[ts] \in Seq(Texts)
<1> DEFINE G == {ts \in Seq(Texts) : Shown[ts] \in Seq(Texts)}
<1>1. << >> \in G
  BY ShownIs, EmptySeq
<1>2. ASSUME NEW ts \in Seq(Texts), NEW t \in Texts, ts \in G PROVE Append(ts, t) \in G
  <2>1. Append(ts, t) \in Seq(Texts) /\ Append(Shown[ts], t) \in Seq(Texts)
    BY <1>2, AppendProperties
  <2> QED BY <1>2, <2>1, ShownIs
<1>3. G \subseteq Seq(Texts)
  OBVIOUS
<1> HIDE DEF G
<1>4. Seq(Texts) \subseteq G
  BY <1>1, <1>2, <1>3, SeqSetInduction
<1> QED BY <1>4 DEF G

\* The form of a builder with another filter.
LEMMA TrashedTyped ==
    ASSUME NEW q \in Builder, NEW mode \in {"with", "without", "only"}
    PROVE  Trashed(q, mode) \in Builder
<1>1. /\ Shown[q.wheres] \in Seq(Texts) /\ Append(Shown[q.wheres], Live) \in Seq(Texts)
      /\ Append(Shown[q.wheres], Gone) \in Seq(Texts)
  BY ShownTyped, MarksAreKnown, AppendProperties DEF Builder
<1> QED BY <1>1 DEF Trashed, Builder

\* The calls.
LEMMA BuildCarries ==
    ASSUME QueryAssumption, CarriesTheQuestion, Build
    PROVE  CarriesTheQuestion'
<1>a. b \in Builder /\ asked \in Question /\ (~asked.mixed => Link(b, asked))
  BY DEF CarriesTheQuestion
<1>b. ASSUME Call PROVE soft' = soft /\ scoped' = scoped /\ last' = NoStatement
  BY <1>b DEF Call
<1>1. CASE AddWhere
  <2>1. PICK c \in Conditions :
           /\ b' = Where(b, c)
           /\ asked' = [asked EXCEPT !.conds = Append(@, c),
                                     !.mixed = @ \/ (b.having # << >> /\ Values(c) # << >>)]
    BY <1>1 DEF AddWhere
  <2>2. c \in Asks /\ c \in Known
    BY AsksAreKnown, MarksAreKnown DEF QueryAssumption
  <2>3. (asked.mixed \/ (b.having # << >> /\ Values(c) # << >>)) \in BOOLEAN
    BY <1>a DEF Question
  <2>4. asked' \in Question
    BY <1>a, <2>1, <2>2, <2>3, AskedWiderIs
  <2>5. asked'.conds = Append(asked.conds, c) /\ asked'.having = asked.having /\ asked'.mode = asked.mode
        /\ asked'.limit = asked.limit /\ asked'.offset = asked.offset
        /\ asked'.mixed = (asked.mixed \/ (b.having # << >> /\ Values(c) # << >>))
    BY <1>a, <2>1 DEF Question
  <2>6. b' \in Builder
    BY <1>a, <2>1, <2>2, WhereIs
  <2>7. ASSUME ~asked'.mixed PROVE Link(b', asked')
    <3>1. Link(b, asked) /\ (b.having = << >> \/ Values(c) = << >>)
      BY <1>a, <2>5, <2>7
    <3>2. asked.having = << >> \/ Values(c) = << >>
      BY <1>a, <3>1, NoHaving
    <3>3. Widened(b', b, asked, c)
      BY <1>a, <2>1, <2>2, <3>2, WhereIs DEF Widened
    <3>4. b.limit = asked.limit /\ b.offset = asked.offset
      BY <3>1 DEF Link, Carries
    <3>5. b'.limit = b.limit /\ b'.offset = b.offset /\ b'.applied = b.applied /\ b'.excluded = b.excluded
      BY <1>a, <2>1, <2>2, WhereIs
    <3> QED BY <1>a, <2>2, <2>5, <3>1, <3>3, <3>4, <3>5, WhereCarries
  <2> QED BY <1>b, <1>1, <2>4, <2>6, <2>7, NoStatementIsRight, CarriedAfter DEF AddWhere
<1>2. CASE AddGroup
  <2>1. PICK or \in BOOLEAN, k \in Callbacks :
           /\ b' = [Where(b, Group(or, k.conds)) EXCEPT !.bindings = @ \o k.having]
           /\ asked' = [asked EXCEPT !.conds = Append(@, Group(or, k.conds)),
                                     !.mixed = @ \/ b.having # << >> \/ k.having # << >>]
    BY <1>2 DEF AddGroup
  <2> DEFINE g == Group(or, k.conds)
             w == Where(b, g)
  <2>2. g \in Asks /\ g \in Known /\ k.having \in Seq(Nat)
    <3>1. k.having \in Seq(Nat)
      BY SeqMonotonic DEF QueryAssumption
    <3> QED BY <3>1, AsksAreKnown, MarksAreKnown
  <2> HIDE DEF g
  <2>3. (asked.mixed \/ b.having # << >> \/ k.having # << >>) \in BOOLEAN
    BY <1>a DEF Question
  <2>4. asked' = [asked EXCEPT !.conds = Append(@, g), !.mixed = @ \/ b.having # << >> \/ k.having # << >>]
    BY <2>1 DEF g
  <2>5. asked' \in Question
    BY <1>a, <2>2, <2>3, <2>4, AskedWiderIs
  <2>6. asked'.conds = Append(asked.conds, g) /\ asked'.having = asked.having /\ asked'.mode = asked.mode
        /\ asked'.limit = asked.limit /\ asked'.offset = asked.offset
        /\ asked'.mixed = (asked.mixed \/ b.having # << >> \/ k.having # << >>)
    BY <1>a, <2>4 DEF Question
  <2>7. /\ w \in Builder /\ w.wheres = Append(b.wheres, Text(g)) /\ w.bindings = b.bindings \o Values(g)
        /\ w.having = b.having /\ w.limit = b.limit /\ w.offset = b.offset
        /\ w.applied = b.applied /\ w.excluded = b.excluded
    BY <1>a, <2>2, WhereIs
  <2> HIDE DEF w
  <2>8. b' = [w EXCEPT !.bindings = @ \o k.having]
    BY <2>1 DEF w, g
  <2>9. w.bindings \in Seq(Nat) /\ w.bindings \o k.having \in Seq(Nat)
    BY <2>2, <2>7, ConcatProperties DEF Builder
  <2>10. /\ b' \in Builder /\ b'.wheres = w.wheres /\ b'.bindings = w.bindings \o k.having /\ b'.having = w.having
         /\ b'.limit = w.limit /\ b'.offset = w.offset /\ b'.applied = w.applied /\ b'.excluded = w.excluded
    BY <2>7, <2>8, <2>9 DEF Builder
  <2>11. ASSUME ~asked'.mixed PROVE Link(b', asked')
    <3>1. Link(b, asked) /\ b.having = << >> /\ k.having = << >>
      BY <1>a, <2>6, <2>11
    <3>2. asked.having = << >>
      BY <1>a, <3>1, NoHaving
    <3>3. b'.bindings = w.bindings
      BY <2>9, <2>10, <3>1, ConcatEmptySeq
    <3>4. Widened(b', b, asked, g)
      BY <2>7, <2>10, <3>2, <3>3 DEF Widened
    <3>5. b.limit = asked.limit /\ b.offset = asked.offset
      BY <3>1 DEF Link, Carries
    <3> QED BY <1>a, <2>2, <2>6, <2>7, <2>10, <3>1, <3>4, <3>5, WhereCarries
  <2> QED BY <1>b, <1>2, <2>5, <2>10, <2>11, NoStatementIsRight, CarriedAfter DEF AddGroup
<1>3. CASE AddHaving
  <2>1. PICK c \in Conditions : c.op = "eq" /\ b' = Having(b, c) /\ asked' = [asked EXCEPT !.having = Append(@, c)]
    BY <1>3 DEF AddHaving
  <2>2. c \in Known /\ c \in Singles
    BY <2>1, AsksAreKnown, MarksAreKnown DEF QueryAssumption, Singles
  <2>3. Append(asked.having, c) \in Seq(Singles)
    BY <1>a, <2>2, AppendProperties DEF Question
  <2>4. asked' \in Question /\ asked'.conds = asked.conds /\ asked'.having = Append(asked.having, c) /\ asked'.mode = asked.mode
        /\ asked'.limit = asked.limit /\ asked'.offset = asked.offset /\ asked'.mixed = asked.mixed
    BY <1>a, <2>1, <2>3 DEF Question
  <2>5. b' \in Builder
    BY <1>a, <2>1, <2>2, WhereIs
  <2>6. ASSUME ~asked'.mixed PROVE Link(b', asked')
    BY <1>a, <2>1, <2>2, <2>4, <2>6, HavingCarries
  <2> QED BY <1>b, <1>3, <2>4, <2>5, <2>6, NoStatementIsRight, CarriedAfter DEF AddHaving
<1>4. CASE SetLimit
  <2>1. PICK n \in 0 .. 1 : b' = [b EXCEPT !.limit = n] /\ asked' = [asked EXCEPT !.limit = n]
    BY <1>4 DEF SetLimit
  <2>a. n \in Bounds
    BY DEF Bounds
  <2>b. b' \in Builder
    BY <1>a, <2>1, <2>a DEF Builder
  <2>c. asked' \in Question /\ asked'.mixed = asked.mixed
    BY <1>a, <2>1, <2>a DEF Question
  <2>2. b' \in Builder /\ asked' \in Question /\ asked'.mixed = asked.mixed
    BY <2>b, <2>c
  <2>3. ASSUME ~asked'.mixed PROVE Link(b', asked')
    <3>1. Link(b, asked) /\ b.offset = asked.offset
      BY <1>a, <2>2, <2>3 DEF Link, Carries
    <3>2. b'.wheres = b.wheres /\ b'.bindings = b.bindings /\ b'.having = b.having /\ b'.limit = n /\ b'.offset = b.offset
          /\ b'.applied = b.applied /\ b'.excluded = b.excluded
      BY <1>a, <2>1 DEF Builder
    <3>3. asked'.conds = asked.conds /\ asked'.having = asked.having /\ asked'.mode = asked.mode
          /\ asked'.limit = n /\ asked'.offset = asked.offset
      BY <1>a, <2>1 DEF Question
    <3>4. Scoping(b') <=> Scoping(b)
      BY <3>2 DEF Scoping
    <3> QED BY <3>1, <3>2, <3>3, <3>4, SameCarries
  <2> QED BY <1>b, <1>4, <2>2, <2>3, NoStatementIsRight, CarriedAfter DEF SetLimit
<1>5. CASE SetOffset
  <2>1. b' = [b EXCEPT !.offset = 1] /\ asked' = [asked EXCEPT !.offset = 1]
    BY <1>5 DEF SetOffset
  <2>a. 1 \in Bounds
    BY DEF Bounds
  <2>b. b' \in Builder
    BY <1>a, <2>1, <2>a DEF Builder
  <2>c. asked' \in Question /\ asked'.mixed = asked.mixed
    BY <1>a, <2>1, <2>a DEF Question
  <2>2. b' \in Builder /\ asked' \in Question /\ asked'.mixed = asked.mixed
    BY <2>b, <2>c
  <2>3. ASSUME ~asked'.mixed PROVE Link(b', asked')
    <3>1. Link(b, asked) /\ b.limit = asked.limit
      BY <1>a, <2>2, <2>3 DEF Link, Carries
    <3>2. b'.wheres = b.wheres /\ b'.bindings = b.bindings /\ b'.having = b.having /\ b'.limit = b.limit /\ b'.offset = 1
          /\ b'.applied = b.applied /\ b'.excluded = b.excluded
      BY <1>a, <2>1 DEF Builder
    <3>3. asked'.conds = asked.conds /\ asked'.having = asked.having /\ asked'.mode = asked.mode
          /\ asked'.limit = asked.limit /\ asked'.offset = 1
      BY <1>a, <2>1 DEF Question
    <3>4. Scoping(b') <=> Scoping(b)
      BY <3>2 DEF Scoping
    <3> QED BY <3>1, <3>2, <3>3, <3>4, SameCarries
  <2> QED BY <1>b, <1>5, <2>2, <2>3, NoStatementIsRight, CarriedAfter DEF SetOffset
<1>6. CASE SetTrashed
  <2>1. PICK mode \in {"with", "without", "only"} : b' = Trashed(b, mode) /\ asked' = [asked EXCEPT !.mode = mode]
    BY <1>6 DEF SetTrashed
  <2>2. soft
    BY <1>6 DEF SetTrashed
  <2>3. b' \in Builder
    BY <1>a, <2>1, TrashedTyped
  <2>4. asked' \in Question /\ asked'.mixed = asked.mixed
    BY <1>a, <2>1 DEF Question
  <2>5. ASSUME ~asked'.mixed PROVE Link(b', asked')
    BY <1>a, <2>1, <2>2, <2>4, <2>5, TrashedCarries
  <2> QED BY <1>b, <1>6, <2>3, <2>4, <2>5, NoStatementIsRight, CarriedAfter DEF SetTrashed
<1>7. CASE WithoutGlobalScope
  <2>1. b' = [b EXCEPT !.excluded = TRUE] /\ asked' = asked /\ ~b.applied
    BY <1>7 DEF WithoutGlobalScope
  <2>2. b' \in Builder
    BY <1>a, <2>1 DEF Builder
  <2>3. ASSUME ~asked'.mixed PROVE Link(b', asked')
    <3>1. Link(b, asked) /\ b.limit = asked.limit /\ b.offset = asked.offset
      BY <1>a, <2>1, <2>3 DEF Link, Carries
    <3>2. b'.wheres = b.wheres /\ b'.bindings = b.bindings /\ b'.having = b.having /\ b'.limit = b.limit /\ b'.offset = b.offset
          /\ b'.applied = FALSE
      BY <1>a, <2>1 DEF Builder
    <3>3. Scoping(b') <=> Scoping(b)
      BY <2>1, <3>2 DEF Scoping
    <3> QED BY <2>1, <3>1, <3>2, <3>3, SameCarries
  <2> QED BY <1>a, <1>b, <1>7, <2>1, <2>2, <2>3, NoStatementIsRight, CarriedAfter DEF WithoutGlobalScope
<1>8. CASE FromTable
  BY <1>a, <1>8, ResetIs, NoStatementIsRight, CarriedAfter DEF FromTable, BackToFresh
<1> QED BY <1>1, <1>2, <1>3, <1>4, <1>5, <1>6, <1>7, <1>8 DEF Build

\* A terminal that gives up after compiling keeps what was compiled.
LEMMA UnresetCarries ==
    ASSUME CarriesTheQuestion, soft' = soft, scoped' = scoped,
           b' = Compile(b), asked' = Compiled(asked), Right(last')
    PROVE  CarriesTheQuestion'
<1>1. b \in Builder /\ asked \in Question /\ (~asked.mixed => Link(b, asked))
  BY DEF CarriesTheQuestion
<1>2. b' \in Builder
  BY <1>1, CompileIs
<1>3. Pending \in BOOLEAN
  BY DEF Pending
<1>4. /\ asked' \in Question /\ asked'.mixed = (asked.mixed \/ (Pending /\ asked.having # << >>))
      /\ asked'.conds = asked.conds /\ asked'.having = asked.having /\ asked'.mode = asked.mode
      /\ asked'.limit = asked.limit /\ asked'.offset = asked.offset
  BY <1>1 DEF Compiled, Question
<1>5. ASSUME ~asked'.mixed PROVE Link(b', asked')
  <2>1. Link(b, asked) /\ (Pending => asked.having = << >>)
    BY <1>1, <1>4, <1>5
  <2>2. (scoped /\ ~b.applied /\ ~b.excluded) => asked.having = << >>
    BY <2>1 DEF Pending
  <2>3. Link(b', asked)
    BY <1>1, <2>1, <2>2, CompileCarries
  <2>4. b'.limit = asked.limit /\ b'.offset = asked.offset
    BY <2>3 DEF Link, Carries
  <2> QED BY <1>4, <2>3, <2>4, SameCarries
<1> QED BY <1>2, <1>4, <1>5, CarriedAfter

\* A terminal that resets leaves a fresh builder.
LEMMA FreshAgain ==
    ASSUME CarriesTheQuestion, soft' = soft, scoped' = scoped, BackToFresh, Right(last')
    PROVE  CarriesTheQuestion'
  BY ResetIs, CarriedAfter DEF CarriesTheQuestion, BackToFresh

\* The builder and the question with other limits.
Limited(p, q, l, o) == p = [q EXCEPT !.limit = l, !.offset = o]

\* They go together.
LEMMA LimitedCarries ==
    ASSUME NEW q \in Builder, NEW a \in Question, NEW l \in Bounds, NEW o \in Bounds,
           NEW p, Limited(p, q, l, o),
           NEW d, Limited(d, a, l, o)
    PROVE  /\ p \in Builder /\ p.applied = q.applied /\ p.excluded = q.excluded
           /\ d \in Question /\ d.mixed = a.mixed /\ d.having = a.having /\ d.conds = a.conds
           /\ Link(q, a) => Link(p, d)
<1>1. /\ p \in Builder /\ p.wheres = q.wheres /\ p.bindings = q.bindings /\ p.having = q.having
      /\ p.limit = l /\ p.offset = o /\ p.applied = q.applied /\ p.excluded = q.excluded
  BY DEF Builder, Limited
<1>2. /\ d \in Question /\ d.conds = a.conds /\ d.having = a.having /\ d.mode = a.mode
      /\ d.limit = l /\ d.offset = o /\ d.mixed = a.mixed
  BY DEF Question, Limited
<1>3. Scoping(p) <=> Scoping(q)
  BY <1>1 DEF Scoping
<1>4. Link(q, a) => Link(p, d)
  BY <1>1, <1>2, <1>3, SameCarries
<1> QED BY <1>1, <1>2, <1>4

\* The terminals that read.
LEMMA AskCarries ==
    ASSUME QueryAssumption, CarriesTheQuestion, Ask
    PROVE  CarriesTheQuestion'
<1>a. b \in Builder /\ asked \in Question /\ (~asked.mixed => Link(b, asked))
  BY DEF CarriesTheQuestion
<1>b. ASSUME Statement PROVE soft' = soft /\ scoped' = scoped
  BY <1>b DEF Statement
<1>c. None \in Bounds /\ \A n \in Nat : n \in Bounds
  BY DEF Bounds
<1>1. CASE Get
  <2>1. Clean(Compiled(asked)) => Link(Compile(b), asked)
    BY <1>a, CompiledCarries
  <2>2. Right(last')
    BY <1>a, <1>1, <2>1, ReadIsRight DEF Get
  <2> QED BY <1>b, <1>1, <2>2, FreshAgain DEF Get
<1>2. CASE First
  <2> DEFINE q == [b EXCEPT !.limit = 1, !.offset = None]
             a == [asked EXCEPT !.limit = 1, !.offset = None]
  <2>1. /\ q \in Builder /\ a \in Question /\ q.applied = b.applied /\ q.excluded = b.excluded
        /\ a.mixed = asked.mixed /\ (Link(b, asked) => Link(q, a))
    <3>1. Limited(q, b, 1, None) /\ Limited(a, asked, 1, None) /\ 1 \in Bounds
      BY <1>c DEF Limited
    <3> HIDE DEF q, a
    <3> QED BY <1>a, <1>c, <3>1, LimitedCarries
  <2>2. Read("first", q, a)
    BY <1>2 DEF First
  <2> HIDE DEF q, a
  <2>3. Clean(Compiled(a)) => Link(Compile(q), a)
    BY <1>a, <2>1, CompiledCarries
  <2>4. Right(last')
    BY <2>1, <2>2, <2>3, ReadIsRight
  <2> QED BY <1>b, <1>2, <2>4, FreshAgain DEF First
<1>3. ASSUME NEW k \in Ids, Find(k) PROVE CarriesTheQuestion'
  <2> DEFINE c == Cond(FALSE, "key", <<k>>)
             w == Where(b, c)
             q == [w EXCEPT !.limit = 1, !.offset = None]
             a == [asked EXCEPT !.conds = Append(@, c), !.limit = 1, !.offset = None,
                                !.mixed = @ \/ b.having # << >>]
  <2>1. Read("find", q, a)
    BY <1>3 DEF Find
  <2>2. c \in Asks /\ c \in Known
    <3>1. k \in Nat
      BY DEF Ids, QueryAssumption
    <3>2. \A n \in Nat : Cond(FALSE, "key", <<n>>) \in Asks
      BY AsksAreKnown
    <3> QED BY <3>1, <3>2, MarksAreKnown
  <2> HIDE DEF c
  <2>3. /\ w \in Builder /\ w.wheres = Append(b.wheres, Text(c)) /\ w.bindings = b.bindings \o Values(c)
        /\ w.having = b.having /\ w.applied = b.applied /\ w.excluded = b.excluded
    BY <1>a, <2>2, WhereIs
  <2> HIDE DEF w
  <2>4. /\ q \in Builder /\ q.wheres = w.wheres /\ q.bindings = w.bindings /\ q.having = w.having
        /\ q.limit = 1 /\ q.offset = None /\ q.applied = w.applied /\ q.excluded = w.excluded
    BY <1>c, <2>3 DEF Builder
  <2>5. (asked.mixed \/ b.having # << >>) \in BOOLEAN
    BY <1>a DEF Question
  <2>6. a \in Question
    BY <1>a, <1>c, <2>2, <2>5, AskedWiderIs
  <2>7. /\ a.conds = Append(asked.conds, c) /\ a.having = asked.having /\ a.mode = asked.mode
        /\ a.limit = 1 /\ a.offset = None /\ a.mixed = (asked.mixed \/ b.having # << >>)
    BY <1>a DEF Question
  <2> HIDE DEF q, a
  <2>8. ASSUME ~a.mixed PROVE Link(q, a)
    <3>1. Link(b, asked) /\ b.having = << >>
      BY <1>a, <2>7, <2>8
    <3>2. asked.having = << >>
      BY <1>a, <3>1, NoHaving
    <3>3. Widened(q, b, asked, c)
      BY <2>3, <2>4, <3>2 DEF Widened
    <3> QED BY <1>a, <2>2, <2>3, <2>4, <2>7, <3>1, <3>3, WhereCarries
  <2>9. Clean(Compiled(a)) => Link(Compile(q), a)
    BY <2>3, <2>4, <2>6, <2>8, CompiledCarries
  <2>10. Right(last')
    BY <2>1, <2>3, <2>4, <2>6, <2>9, ReadIsRight
  <2> QED BY <1>b, <1>3, <2>10, FreshAgain DEF Find
<1>4. CASE Count
  <2> DEFINE c == Compile(b)
  <2>1. PICK fails \in BOOLEAN :
           last' = Record("count", asked, Selected(c), Cardinality(Meant(asked)), ~fails /\ Fits(c))
    BY <1>4 DEF Count
  <2>2. ASSUME Clean(Compiled(asked)) PROVE Selected(c) = Meant(asked)
    <3>1. Link(c, asked)
      BY <1>a, <2>2, CompiledCarries
    <3>2. Filtered(asked) => \A j \in DOMAIN asked.conds : ~asked.conds[j].or
      BY <1>a, <2>2, CleanIs
    <3>3. c \in Builder /\ c.excluded = b.excluded /\ (Scoping(c) <=> scoped /\ ~b.excluded)
      BY <1>a, CompileIs
    <3> HIDE DEF c
    <3> QED BY <1>a, <3>1, <3>2, <3>3, SelectedIsMeant
  <2> HIDE DEF c
  <2>3. Right(last')
    BY <2>1, <2>2, RecordIsRight
  <2>4. b' = Compile(b) /\ asked' = Compiled(asked)
    BY <1>4 DEF Count
  <2> QED BY <1>b, <1>4, <2>3, <2>4, UnresetCarries DEF Count
<1>5. CASE Paginate
  <2>1. PICK page \in 1 .. 2, counted \in BOOLEAN :
           IF counted /\ Fits(Compile(b))
           THEN Read("paginate", [Compile(b) EXCEPT !.limit = 1, !.offset = page - 1],
                     [asked EXCEPT !.limit = 1, !.offset = page - 1]) /\ BackToFresh
           ELSE Unreset
    BY <1>5 DEF Paginate
  <2>2. CASE counted /\ Fits(Compile(b))
    <3> DEFINE m == Compile(b)
               q == [m EXCEPT !.limit = 1, !.offset = page - 1]
               a == [asked EXCEPT !.limit = 1, !.offset = page - 1]
    <3>1. Read("paginate", q, a) /\ BackToFresh
      BY <2>1, <2>2
    <3>2. m \in Builder /\ m.excluded = b.excluded /\ (m.applied \/ ~scoped)
      <4>1. m \in Builder /\ m.excluded = b.excluded
        BY <1>a, CompileIs
      <4>2. m.applied \/ ~scoped
        BY <1>a DEF Compile, Where, Builder
      <4> QED BY <4>1, <4>2
    <3>3. page - 1 \in Bounds /\ 1 \in Bounds
      BY DEF Bounds
    <3> HIDE DEF m
    <3>4. /\ q \in Builder /\ a \in Question /\ q.applied = m.applied /\ q.excluded = m.excluded
          /\ a.mixed = asked.mixed /\ a.having = asked.having /\ a.conds = asked.conds
          /\ (Link(m, asked) => Link(q, a))
      <4>1. Limited(q, m, 1, page - 1) /\ Limited(a, asked, 1, page - 1)
        BY DEF Limited
      <4> HIDE DEF q, a
      <4> QED BY <1>a, <3>2, <3>3, <4>1, LimitedCarries
    <3> HIDE DEF q, a
    <3>5. Compile(q) = q
      BY <3>2, <3>4, CompileIs
    <3>6. ASSUME Clean(Compiled(a)) PROVE Link(Compile(q), a)
      <4>1. ~asked.mixed /\ (Pending => asked.having = << >>)
        BY <3>4, <3>6, CleanIs
      <4>2. (scoped /\ ~b.applied /\ ~b.excluded) => asked.having = << >>
        BY <4>1 DEF Pending
      <4>3. Link(m, asked)
        BY <1>a, <4>1, <4>2, CompileCarries DEF m
      <4> QED BY <3>4, <3>5, <4>3
    <3>7. Right(last')
      BY <3>1, <3>2, <3>4, <3>6, ReadIsRight
    <3> QED BY <1>b, <1>5, <3>1, <3>7, FreshAgain DEF Paginate
  <2>3. CASE ~(counted /\ Fits(Compile(b)))
    <3>1. Unreset
      BY <2>1, <2>3
    <3> QED BY <1>b, <1>5, <3>1, NoStatementIsRight, UnresetCarries DEF Paginate, Unreset
  <2> QED BY <2>2, <2>3
<1>6. CASE SimplePaginate
  <2>1. PICK page \in 1 .. 2 :
           Read("simplePaginate", [b EXCEPT !.limit = 2, !.offset = page - 1],
                [asked EXCEPT !.limit = 2, !.offset = page - 1])
    BY <1>6 DEF SimplePaginate
  <2> DEFINE q == [b EXCEPT !.limit = 2, !.offset = page - 1]
             a == [asked EXCEPT !.limit = 2, !.offset = page - 1]
  <2>2. page - 1 \in Bounds /\ 2 \in Bounds
    BY DEF Bounds
  <2>3. /\ q \in Builder /\ a \in Question /\ q.applied = b.applied /\ q.excluded = b.excluded
        /\ a.mixed = asked.mixed /\ (Link(b, asked) => Link(q, a))
    <3>1. Limited(q, b, 2, page - 1) /\ Limited(a, asked, 2, page - 1)
      BY DEF Limited
    <3> HIDE DEF q, a
    <3> QED BY <1>a, <2>2, <3>1, LimitedCarries
  <2> HIDE DEF q, a
  <2>4. Clean(Compiled(a)) => Link(Compile(q), a)
    BY <1>a, <2>3, CompiledCarries
  <2>5. Read("simplePaginate", q, a)
    BY <2>1 DEF q, a
  <2>6. Right(last')
    BY <2>3, <2>4, <2>5, ReadIsRight
  <2>7. b' = b /\ asked' = asked
    BY <1>6 DEF SimplePaginate
  <2> QED BY <1>a, <1>b, <1>6, <2>6, <2>7, CarriedAfter DEF SimplePaginate
<1> QED BY <1>1, <1>2, <1>3, <1>4, <1>5, <1>6 DEF Ask

\* The ones that write.
LEMMA WriteCarries ==
    ASSUME CarriesTheQuestion, Write
    PROVE  CarriesTheQuestion'
<1>a. b \in Builder /\ asked \in Question /\ (~asked.mixed => Link(b, asked))
  BY DEF CarriesTheQuestion
<1>b. ASSUME Statement PROVE soft' = soft /\ scoped' = scoped
  BY <1>b DEF Statement
<1>c. ASSUME NEW op, NEW fails,
             last' = Record(op, asked, Reached(Compile(b)), Cardinality(Meant(asked)), ~fails /\ FitsWrite(Compile(b)))
      PROVE  Right(last')
  <2> DEFINE c == Compile(b)
  <2>1. c \in Builder /\ c.excluded = b.excluded /\ (Scoping(c) <=> scoped /\ ~b.excluded)
    BY <1>a, CompileIs
  <2>2. Clean(Compiled(asked)) => Link(c, asked)
    BY <1>a, CompiledCarries
  <2> HIDE DEF c
  <2>3. Right(Record(op, asked, Reached(c), Cardinality(Meant(asked)), ~fails /\ FitsWrite(c)))
    BY <1>a, <2>1, <2>2, WriteIsRight
  <2> QED BY <1>c, <2>3 DEF c
<1>d. ASSUME Statement, Refused PROVE CarriesTheQuestion'
  BY <1>b, <1>d, NoStatementIsRight, UnresetCarries DEF Refused, Unreset
<1>1. CASE Update
  <2>1. CASE Compile(b).wheres = << >>
    BY <1>1, <1>d, <2>1 DEF Update
  <2>2. CASE Compile(b).wheres # << >>
    <3>1. PICK fails \in BOOLEAN :
             last' = Record("update", asked, Reached(Compile(b)), Cardinality(Meant(asked)), ~fails /\ FitsWrite(Compile(b)))
      BY <1>1, <2>2 DEF Update, Written
    <3>2. BackToFresh
      BY <1>1, <2>2 DEF Update
    <3>3. Right(last')
      BY <1>c, <3>1
    <3> QED BY <1>b, <1>1, <3>2, <3>3, FreshAgain DEF Update
  <2> QED BY <2>1, <2>2
<1>2. CASE Delete
  <2>1. CASE Compile(b).wheres = << >>
    BY <1>2, <1>d, <2>1 DEF Delete
  <2>2. CASE Compile(b).wheres # << >>
    <3>1. PICK fails \in BOOLEAN :
             last' = Record("delete", asked, Reached(Compile(b)), Cardinality(Meant(asked)), ~fails /\ FitsWrite(Compile(b)))
      BY <1>2, <2>2 DEF Delete, Written
    <3>2. BackToFresh
      BY <1>2, <2>2 DEF Delete
    <3>3. Right(last')
      BY <1>c, <3>1
    <3> QED BY <1>b, <1>2, <3>2, <3>3, FreshAgain DEF Delete
  <2> QED BY <2>1, <2>2
<1>3. CASE Increment
  <2>1. PICK fails \in BOOLEAN :
           last' = Record("increment", asked, Reached(b), Cardinality(Meant(asked)), ~fails /\ FitsWrite(b))
    BY <1>3 DEF Increment, Written
  <2>2. Scoping(b) <=> scoped /\ ~b.excluded
    BY <1>3 DEF Increment, Scoping
  <2>3. Clean(Compiled(asked)) => Link(b, asked)
    BY <1>a, CleanIs
  <2>4. Right(last')
    BY <1>a, <2>1, <2>2, <2>3, WriteIsRight
  <2> QED BY <1>b, <1>3, <2>4, FreshAgain DEF Increment
<1>4. CASE DeleteAll
  <2>1. b' = [b EXCEPT !.wheres = << >>, !.bindings = << >>] /\ asked' = [Nothing EXCEPT !.mixed = TRUE]
    BY <1>4 DEF DeleteAll
  <2>2. << >> \in Seq(Texts) /\ << >> \in Seq(Nat)
    BY EmptySeq
  <2>3. b' \in Builder
    BY <1>a, <2>1, <2>2 DEF Builder
  <2>4. asked' \in Question /\ asked'.mixed = TRUE
    BY <1>a, <2>1, ResetIs DEF Question
  <2> QED BY <1>b, <1>4, <2>3, <2>4, NoStatementIsRight, CarriedAfter DEF DeleteAll
<1> QED BY <1>1, <1>2, <1>3, <1>4 DEF Write

\* The pages of chunk and chunkById.
LEMMA ChunkCarries ==
    ASSUME CarriesTheQuestion, Chunk
    PROVE  CarriesTheQuestion'
<1>a. b \in Builder /\ asked \in Question /\ (~asked.mixed => Link(b, asked)) /\ Right(last)
  BY DEF CarriesTheQuestion
<1>1. CASE StartChunk
  BY <1>a, <1>1, NoStatementIsRight, CarriedAfter DEF StartChunk
<1>2. CASE ChunkByIdPage
  <2>1. soft' = soft /\ scoped' = scoped /\ b' = b /\ asked' = asked /\ last' = last
    BY <1>2 DEF ChunkByIdPage
  <2> QED BY <1>a, <2>1, CarriedAfter
<1>3. CASE ChunkPage
  <2>1. soft' = soft /\ scoped' = scoped /\ BackToFresh /\ last' = last
    BY <1>3 DEF ChunkPage
  <2> QED BY <1>a, <2>1, FreshAgain
<1>4. CASE Elsewhere
  <2>1. soft' = soft /\ scoped' = scoped /\ b' = b /\ asked' = asked /\ last' = last
    BY <1>4 DEF Elsewhere
  <2> QED BY <1>a, <2>1, CarriedAfter
<1> QED BY <1>1, <1>2, <1>3, <1>4 DEF Chunk

\* Every step.
LEMMA CarriesStep ==
    ASSUME QueryAssumption, CarriesTheQuestion, [QueryNext]_queryVars
    PROVE  CarriesTheQuestion'
<1>1. CASE UNCHANGED queryVars
  <2>1. soft' = soft /\ scoped' = scoped /\ b' = b /\ asked' = asked /\ last' = last
    BY <1>1 DEF queryVars
  <2> QED BY <2>1, CarriedAfter DEF CarriesTheQuestion
<1> QED BY <1>1, BuildCarries, AskCarries, WriteCarries, ChunkCarries DEF QueryNext

(* Whatever calls were made since the builder was fresh, and whatever failed      *)
(* before, a statement reaches the rows that were asked for, as many as the limit *)
(* and the offset leave: the placeholders get the values of their own conditions  *)
(* (Where, Having, Trashed, Compile, Reset).                                      *)
THEOREM StatementsAnswerTheQuestion == QuerySpec => []StatementsReachWhatWasAsked
<1>1. QueryInit => CarriesTheQuestion
  BY CarriesFirst
<1>2. CarriesTheQuestion /\ [QueryNext]_queryVars => CarriesTheQuestion'
  BY CarriesStep, QueryAssumption
<1>3. CarriesTheQuestion => StatementsReachWhatWasAsked
  BY DEF CarriesTheQuestion, Right, StatementsReachWhatWasAsked
<1> QED BY <1>1, <1>2, <1>3, PTL DEF QuerySpec

--------------------------------------------------------------------------------
(* chunkById: keys in order.                                               *)

Rising(s) == \A j, k \in DOMAIN s : j < k => s[j] < s[k]

\* Sets of keys are finite.
LEMMA KeysAreFinite ==
    ASSUME QueryAssumption, NEW S, S \subseteq Ids
    PROVE  /\ IsFiniteSet(S) /\ Cardinality(S) \in Nat /\ S \subseteq Nat
           /\ Cardinality(S) = 0 <=> S = {}
<1>1. MaxId \in Int /\ 1 \in Int
  BY DEF QueryAssumption
<1>2. IsFiniteSet(Ids)
  BY <1>1, FS_Interval DEF Ids
<1>3. IsFiniteSet(S)
  BY <1>2, FS_Subset
<1>4. S \subseteq Nat
  BY DEF Ids
<1> QED BY <1>3, <1>4, FS_CardinalityType, FS_EmptySet

\* The first n of a set of keys: every key below one of them is one of them,
\* and when there are less than n they are all of the set.
LEMMA FirstOnes ==
    ASSUME QueryAssumption, NEW S, S \subseteq Ids, NEW n \in Nat
    PROVE  /\ FirstOf(S, n) \subseteq S
           /\ FirstOf(S, 0) = {}
           /\ \A i \in FirstOf(S, n), k \in S : k <= i => k \in FirstOf(S, n)
           /\ Cardinality(FirstOf(S, n)) < n => FirstOf(S, n) = S
<1> DEFINE Below(i) == {j \in S : j < i}
           F == FirstOf(S, n)
<1>1. FirstOf(S, n) \subseteq S
  BY DEF FirstOf
<1>2. \A i \in S : i \in F <=> Cardinality(Below(i)) < n
  BY DEF FirstOf
<1>3. \A i : Below(i) \subseteq Ids /\ Cardinality(Below(i)) \in Nat /\ IsFiniteSet(Below(i))
  BY KeysAreFinite
<1>4. FirstOf(S, 0) = {}
  BY <1>3 DEF FirstOf
<1>5. ASSUME NEW i \in F, NEW k \in S, k <= i PROVE k \in F
  <2>1. i \in Nat /\ k \in Nat /\ \A j \in S : j \in Nat
    BY <1>1, KeysAreFinite
  <2>2. Below(k) \subseteq Below(i)
    <3>1. ASSUME NEW j \in S, j < k PROVE j < i
      BY <1>5, <2>1, <3>1
    <3> QED BY <3>1
  <2> HIDE DEF Below
  <2>3. Cardinality(Below(k)) <= Cardinality(Below(i))
    BY <1>3, <2>2, FS_Subset
  <2>4. Cardinality(Below(i)) < n
    BY <1>1, <1>2
  <2>5. Cardinality(Below(k)) < n
    BY <1>3, <2>3, <2>4
  <2> QED BY <1>2, <2>5
<1>6. ASSUME Cardinality(F) < n PROVE F = S
  <2>1. SUFFICES ASSUME S \ F # {} PROVE FALSE
    BY <1>1
  <2>2. S \ F \in SUBSET Nat /\ \A j \in S : j \in Nat
    BY KeysAreFinite
  <2> HIDE DEF F
  <2>3. PICK l \in S \ F : \A j \in S \ F : l <= j
    BY <2>1, <2>2, LeastNumber
  <2>4. Below(l) \subseteq F
    BY <2>2, <2>3
  <2> HIDE DEF Below
  <2>5. F \subseteq Ids
    BY <1>1 DEF F
  <2>6. Cardinality(Below(l)) <= Cardinality(F) /\ Cardinality(F) \in Nat /\ Cardinality(Below(l)) \in Nat
    BY <1>3, <2>4, <2>5, KeysAreFinite, FS_Subset
  <2>7. Cardinality(Below(l)) < n
    BY <1>6, <2>6
  <2> QED BY <1>2, <2>3, <2>7
<1> QED BY <1>1, <1>4, <1>5, <1>6

\* The keys of a set can be put in order.
LEMMA OrderExists ==
    ASSUME QueryAssumption, NEW S, S \subseteq Ids
    PROVE  \E s \in [1 .. Cardinality(S) -> S] : Rising(s)
<1> DEFINE Orders(T) == \E s \in [1 .. Cardinality(T) -> T] : Rising(s)
           H == {n \in Nat : \A T \in SUBSET (1 .. n) : Orders(T)}
<1>1. 0 \in H
  <2>1. ASSUME NEW T \in SUBSET (1 .. 0) PROVE Orders(T)
    <3>a. 1 .. 0 = {}
      OBVIOUS
    <3>1. T = {} /\ Cardinality(T) = 0
      BY <3>a, FS_EmptySet
    <3>2. [j \in 1 .. 0 |-> 0] \in [1 .. Cardinality(T) -> T] /\ Rising([j \in 1 .. 0 |-> 0])
      BY <3>1 DEF Rising
    <3> QED BY <3>2
  <2> QED BY <2>1
<1>2. ASSUME NEW n \in Nat, n \in H PROVE n + 1 \in H
  <2>1. ASSUME NEW T \in SUBSET (1 .. n + 1) PROVE Orders(T)
    <3>1. CASE n + 1 \notin T
      <4>1. T \in SUBSET (1 .. n)
        BY <3>1
      <4> QED BY <1>2, <4>1
    <3>2. CASE n + 1 \in T
      <4> DEFINE R == T \ {n + 1}
      <4>1. R \in SUBSET (1 .. n) /\ T = R \cup {n + 1} /\ n + 1 \notin R
        BY <3>2
      <4>2. IsFiniteSet(R)
        <5>1. IsFiniteSet(1 .. n)
          BY FS_Interval
        <5> QED BY <4>1, <5>1, FS_Subset
      <4>3. Orders(R)
        BY <1>2, <4>1
      <4> HIDE DEF R
      <4>4. Cardinality(T) = Cardinality(R) + 1 /\ Cardinality(R) \in Nat
        BY <4>1, <4>2, FS_AddElement, FS_CardinalityType
      <4>5. PICK m \in Nat : m = Cardinality(R) /\ Cardinality(T) = m + 1
        BY <4>4
      <4>6. PICK r \in [1 .. m -> R] : Rising(r)
        BY <4>3, <4>5
      <4> DEFINE s == [j \in 1 .. m + 1 |-> IF j = m + 1 THEN n + 1 ELSE r[j]]
      <4>7. s \in [1 .. Cardinality(T) -> T]
        <5>1. ASSUME NEW j \in 1 .. m + 1 PROVE (IF j = m + 1 THEN n + 1 ELSE r[j]) \in T
          <6>1. CASE j = m + 1
            BY <4>1, <6>1
          <6>2. CASE j # m + 1
            <7>1. j \in 1 .. m
              BY <6>2
            <7> QED BY <4>1, <6>2, <7>1
          <6> QED BY <6>1, <6>2
        <5>2. s \in [1 .. m + 1 -> T]
          BY <5>1
        <5> QED BY <4>5, <5>2
      <4>8. Rising(s)
        <5>1. ASSUME NEW j \in 1 .. m + 1, NEW k \in 1 .. m + 1, j < k PROVE s[j] < s[k]
          <6>1. j \in 1 .. m /\ s[j] = r[j] /\ r[j] \in 1 .. n
            <7>1. j \in 1 .. m /\ j # m + 1
              BY <5>1
            <7> QED BY <4>1, <7>1
          <6>2. CASE k = m + 1
            BY <6>1, <6>2
          <6>3. CASE k # m + 1
            <7>1. k \in 1 .. m /\ s[k] = r[k]
              BY <5>1, <6>3
            <7> QED BY <4>6, <5>1, <6>1, <7>1 DEF Rising
          <6> QED BY <6>2, <6>3
        <5> QED BY <5>1 DEF Rising
      <4> HIDE DEF s
      <4> QED BY <4>7, <4>8
    <3> QED BY <3>1, <3>2
  <2> QED BY <2>1
<1> HIDE DEF H
<1>3. Nat \subseteq H
  BY <1>1, <1>2, NatSetInduction
<1>4. MaxId \in Nat
  BY DEF QueryAssumption
<1>5. MaxId \in H
  BY <1>3, <1>4
<1>6. \A T \in SUBSET (1 .. MaxId) : Orders(T)
  BY <1>5 DEF H
<1> QED BY <1>6 DEF Ids

\* InOrder has every key of the set once.
LEMMA InOrderIs ==
    ASSUME QueryAssumption, NEW S, S \subseteq Ids
    PROVE  /\ InOrder(S) \in Seq(Ids) /\ Len(InOrder(S)) = Cardinality(S)
           /\ Rising(InOrder(S)) /\ ToSet(InOrder(S)) = S
           /\ InOrder(S) = << >> <=> S = {}
<1>1. \E s \in [1 .. Cardinality(S) -> S] : Rising(s)
  BY OrderExists
<1> DEFINE s == InOrder(S)
           n == Cardinality(S)
<1>2. s \in [1 .. n -> S] /\ Rising(s)
  <2>1. s = CHOOSE t \in [1 .. n -> S] : Rising(t)
    BY DEF InOrder, Rising
  <2> HIDE DEF s
  <2> QED BY <1>1, <2>1, Zenon
<1>3. IsFiniteSet(S) /\ n \in Nat /\ S \subseteq Nat /\ (n = 0 <=> S = {})
  BY KeysAreFinite
<1> HIDE DEF s, n
<1>4. s \in Seq(Ids) /\ Len(s) = n
  <2>1. s \in [1 .. n -> Ids]
    BY <1>2
  <2> QED BY <1>3, <2>1
<1>5. \A t \in S : \E j \in 1 .. n : s[j] = t
  <2>1. \A j, k \in 1 .. n : s[j] = s[k] => j = k
    <3>1. ASSUME NEW j \in 1 .. n, NEW k \in 1 .. n, j < k PROVE s[j] # s[k]
      <4>1. s[j] < s[k] /\ s[j] \in Nat /\ s[k] \in Nat
        BY <1>2, <1>3, <3>1 DEF Rising
      <4> QED BY <4>1
    <3> QED BY <1>3, <3>1
  <2>2. s \in Injection(1 .. n, S)
    BY <1>2, <2>1 DEF Injection, IsInjective
  <2>3. Cardinality(1 .. n) = n
    <3>1. n \in Int /\ 1 \in Int /\ (1 > n => n = 0) /\ n - 1 + 1 = n
      BY <1>3
    <3>2. Cardinality(1 .. n) = IF 1 > n THEN 0 ELSE n - 1 + 1
      BY <3>1, FS_Interval
    <3> QED BY <3>1, <3>2
  <2>4. s \in Surjection(1 .. n, S)
    <3>1. Cardinality(1 .. n) = Cardinality(S)
      BY <2>3 DEF n
    <3> QED BY <1>3, <2>2, <3>1, FS_Injection
  <2> QED BY <2>4 DEF Surjection
<1>6. ToSet(s) = S
  BY <1>2, <1>5 DEF ToSet
<1>7. s = << >> <=> S = {}
  BY <1>3, <1>4, EmptySeq
<1> QED BY <1>2, <1>4, <1>6, <1>7 DEF s, n

\* Keys in increasing order followed by greater ones.
LEMMA RisingJoin ==
    ASSUME QueryAssumption, NEW s \in Seq(Ids), NEW t \in Seq(Ids), Rising(s), Rising(t),
           \A i \in ToSet(s), k \in ToSet(t) : i < k
    PROVE  s \o t \in Seq(Ids) /\ Rising(s \o t) /\ ToSet(s \o t) = ToSet(s) \cup ToSet(t)
<1> DEFINE m == Len(s)
           n == Len(t)
<1>1. /\ m \in Nat /\ n \in Nat /\ DOMAIN s = 1 .. m /\ DOMAIN t = 1 .. n
      /\ s \o t \in Seq(Ids) /\ Len(s \o t) = m + n
      /\ \A j \in 1 .. m : (s \o t)[j] = s[j]
      /\ \A j \in 1 .. n : (s \o t)[m + j] = t[j]
  BY ConcatProperties, LenProperties
<1>2. DOMAIN (s \o t) = 1 .. m + n
  BY <1>1, LenProperties
<1> DEFINE r == s \o t
<1> HIDE DEF m, n, r
<1>3. \A j \in 1 .. m : r[j] = s[j]
  BY <1>1 DEF r
<1>4. \A j \in 1 .. m + n : j > m => j - m \in 1 .. n /\ r[j] = t[j - m]
  <2>1. ASSUME NEW j \in 1 .. m + n, j > m PROVE j - m \in 1 .. n /\ r[j] = t[j - m]
    <3>1. j - m \in 1 .. n /\ m + (j - m) = j
      BY <1>1, <2>1
    <3> QED BY <1>1, <3>1 DEF r
  <2> QED BY <2>1
<1>5. \A j \in 1 .. m, k \in 1 .. n : s[j] < t[k]
  BY <1>1 DEF ToSet
<1>6. Rising(r)
  <2>1. ASSUME NEW j \in 1 .. m + n, NEW k \in 1 .. m + n, j < k PROVE r[j] < r[k]
    <3>1. CASE k <= m
      <4>1. j \in 1 .. m /\ k \in 1 .. m
        BY <1>1, <2>1, <3>1
      <4> QED BY <1>1, <1>3, <2>1, <4>1 DEF Rising
    <3>2. CASE j <= m /\ k > m
      <4>1. j \in 1 .. m /\ k - m \in 1 .. n
        BY <1>1, <1>4, <3>2
      <4> QED BY <1>3, <1>4, <1>5, <3>2, <4>1
    <3>3. CASE j > m
      <4>1. j - m \in 1 .. n /\ k - m \in 1 .. n /\ j - m < k - m /\ k > m
        BY <1>1, <1>4, <2>1, <3>3
      <4>2. t[j - m] < t[k - m]
        BY <1>1, <4>1 DEF Rising
      <4> QED BY <1>4, <3>3, <4>1, <4>2
    <3> QED BY <1>1, <3>1, <3>2, <3>3
  <2>2. DOMAIN r = 1 .. m + n
    BY <1>2 DEF r
  <2> QED BY <2>1, <2>2 DEF Rising
<1>7. ToSet(r) = ToSet(s) \cup ToSet(t)
  <2>1. ASSUME NEW x \in ToSet(r) PROVE x \in ToSet(s) \cup ToSet(t)
    <3>1. PICK j \in 1 .. m + n : x = r[j]
      BY <1>2 DEF ToSet, r
    <3>2. CASE j <= m
      <4>1. j \in 1 .. m
        BY <1>1, <3>2
      <4> QED BY <1>1, <1>3, <3>1, <4>1 DEF ToSet
    <3>3. CASE j > m
      <4>1. j - m \in 1 .. n /\ x = t[j - m]
        BY <1>4, <3>1, <3>3
      <4> QED BY <1>1, <4>1 DEF ToSet
    <3> QED BY <1>1, <3>2, <3>3
  <2>2. ASSUME NEW x \in ToSet(s) PROVE x \in ToSet(r)
    <3>1. PICK j \in 1 .. m : x = s[j]
      BY <1>1 DEF ToSet
    <3>2. j \in 1 .. m + n /\ x = r[j]
      BY <1>1, <1>3, <3>1
    <3> QED BY <1>2, <3>2 DEF ToSet, r
  <2>3. ASSUME NEW x \in ToSet(t) PROVE x \in ToSet(r)
    <3>1. PICK j \in 1 .. n : x = t[j]
      BY <1>1 DEF ToSet
    <3>2. m + j \in 1 .. m + n /\ x = r[m + j]
      BY <1>1, <3>1 DEF r
    <3> QED BY <1>2, <3>2 DEF ToSet, r
  <2> QED BY <2>1, <2>2, <2>3
<1> QED BY <1>1, <1>6, <1>7 DEF r

--------------------------------------------------------------------------------
(* chunkById: its pages.                                                   *)

Progress == [on : {"idle", "run", "done"}, by : {"id", "offset"}, size : 1 .. 2, cursor : Bounds, page : Nat,
             seen : Seq(Ids), stay : SUBSET Ids]

\* What chunkById has handed out, and what is left for it.
Gathered(ck, S) ==
    /\ Rising(ck.seen)
    /\ ck.on = "run" => /\ IF ck.cursor = None THEN ck.seen = << >>
                           ELSE ck.seen # << >> /\ ck.cursor = Last(ck.seen)
                        /\ ck.stay \subseteq S
                        /\ \A i \in ck.stay : i <= ck.cursor => i \in ToSet(ck.seen)
    /\ ck.on = "done" => ck.stay \subseteq ToSet(ck.seen)

ChunkGathers ==
    /\ chunk \in Progress
    /\ (chunk.by = "id" /\ Conjunction(asked)) => Gathered(chunk, Meant(asked))

\* What was asked for does not change when the table, the builder and the question do not.
LEMMA MeantKept ==
    ASSUME soft' = soft, scoped' = scoped, rows' = rows, b' = b, asked' = asked
    PROVE  (Meant(asked))' = Meant(asked)
  BY DEF Meant, Present, AsAsked, Meets, Holds

\* After every other call no chunk is read.
LEMMA IdleGathers == ASSUME chunk' = Idle PROVE ChunkGathers'
<1>1. Idle \in Progress /\ Idle.seen = << >> /\ Idle.on = "idle"
  BY EmptySeq DEF Idle, Progress, Bounds
<1>2. Rising(<< >>)
  BY DEF Rising
<1> QED BY <1>1, <1>2 DEF ChunkGathers, Gathered, Progress, Rising

\* The page after the cursor: the rows asked for with a greater key.
LEMMA PageIs ==
    ASSUME QueryAssumption, CarriesTheQuestion, chunk \in Progress, Conjunction(asked)
    PROVE  /\ Fits(PageById) /\ PageById.offset = None /\ PageById.limit = chunk.size
           /\ Selected(PageById) = {i \in Meant(asked) : i > chunk.cursor}
<1> DEFINE after == Cond(FALSE, "after", <<chunk.cursor>>)
           none == chunk.cursor = None
           at == IF none THEN b ELSE Where(b, after)
           cs == IF none THEN asked.conds ELSE Append(asked.conds, after)
           a == [asked EXCEPT !.conds = cs]
           d == [asked EXCEPT !.conds = cs, !.limit = chunk.size]
           m == Compile(at)
           q == PageById
<1>1. /\ b \in Builder /\ asked \in Question /\ Link(b, asked) /\ asked.having = << >> /\ asked.offset = None
      /\ \A j \in DOMAIN asked.conds : ~asked.conds[j].or
  BY DEF CarriesTheQuestion, Conjunction
<1>2. chunk.size \in Bounds /\ chunk.cursor \in Bounds /\ (~none => chunk.cursor \in Nat)
  BY DEF Progress, Bounds
<1>3. ~none => after \in Asks /\ after \in Known /\ after.or = FALSE
  <2>1. \A n \in Nat : Cond(FALSE, "after", <<n>>) \in Asks /\ Cond(FALSE, "after", <<n>>).or = FALSE
    BY AsksAreKnown
  <2> QED BY <1>2, <2>1, MarksAreKnown
<1>4. \A i : Meets(after, i) <=> i > chunk.cursor
  BY DEF Meets, Holds, Cond
<1> HIDE DEF after
<1>5. cs \in Seq(Asks) /\ cs \in Seq(Known) /\ \A j \in DOMAIN cs : ~cs[j].or
  <2>1. asked.conds \in Seq(Asks)
    BY <1>1 DEF Question
  <2>2. CASE none
    BY <1>1, <2>1, <2>2, MarksAreKnown, SeqMonotonic
  <2>3. CASE ~none
    <3>1. /\ Append(asked.conds, after) \in Seq(Asks) /\ Len(asked.conds) \in Nat
          /\ Len(Append(asked.conds, after)) = Len(asked.conds) + 1
          /\ \A j \in 1 .. Len(asked.conds) : Append(asked.conds, after)[j] = asked.conds[j]
          /\ Append(asked.conds, after)[Len(asked.conds) + 1] = after
      BY <1>3, <2>1, <2>3, AppendProperties, LenProperties
    <3>2. DOMAIN asked.conds = 1 .. Len(asked.conds)
          /\ DOMAIN Append(asked.conds, after) = 1 .. Len(asked.conds) + 1
      BY <2>1, <3>1, LenProperties
    <3>3. \A j \in 1 .. Len(asked.conds) + 1 : ~Append(asked.conds, after)[j].or
      <4>1. ASSUME NEW j \in 1 .. Len(asked.conds) + 1 PROVE ~Append(asked.conds, after)[j].or
        <5>1. CASE j = Len(asked.conds) + 1
          BY <1>3, <2>3, <3>1, <5>1
        <5>2. CASE j # Len(asked.conds) + 1
          <6>1. j \in 1 .. Len(asked.conds)
            BY <3>1, <5>2
          <6> QED BY <1>1, <3>1, <3>2, <6>1
        <5> QED BY <5>1, <5>2
      <4> QED BY <4>1
    <3>4. Append(asked.conds, after) \in Seq(Known)
      BY <3>1, MarksAreKnown, SeqMonotonic
    <3> QED BY <2>3, <3>1, <3>2, <3>3, <3>4
  <2> QED BY <2>2, <2>3
<1>6. \A i : AsAsked(cs, i) <=> AsAsked(asked.conds, i) /\ (none \/ i > chunk.cursor)
  <2>1. CASE none
    BY <2>1
  <2>2. CASE ~none
    <3>1. asked.conds \in Seq(Known) /\ asked.conds \in Seq(Asks)
      BY <1>1, MarksAreKnown, SeqMonotonic DEF Question
    <3>2. ToSet(cs) = ToSet(asked.conds) \cup {after}
      BY <1>3, <2>2, <3>1, SetOfAppend
    <3>3. \A i : AsAsked(cs, i) <=> \A j \in DOMAIN cs : Meets(cs[j], i)
      <4> HIDE DEF cs
      <4> QED BY <1>5, AsAskedAnd
    <3>4. \A i : AsAsked(asked.conds, i) <=> \A j \in DOMAIN asked.conds : Meets(asked.conds[j], i)
      BY <1>1, <3>1, AsAskedAnd
    <3> HIDE DEF cs
    <3>5. \A i : AsAsked(cs, i) <=> \A c \in ToSet(cs) : Meets(c, i)
      BY <3>3 DEF ToSet
    <3>6. \A i : AsAsked(asked.conds, i) <=> \A c \in ToSet(asked.conds) : Meets(c, i)
      BY <3>4 DEF ToSet
    <3> QED BY <1>4, <2>2, <3>2, <3>5, <3>6
  <2> QED BY <2>1, <2>2
<1>7. /\ a \in Question /\ a.conds = cs /\ a.having = asked.having /\ a.mode = asked.mode
      /\ a.limit = asked.limit /\ a.offset = asked.offset
  <2> HIDE DEF cs
  <2> QED BY <1>1, <1>5 DEF Question
<1>8. /\ d \in Question /\ d.conds = cs /\ d.having = asked.having /\ d.mode = asked.mode
      /\ d.limit = chunk.size /\ d.offset = asked.offset
  <2> HIDE DEF cs
  <2> QED BY <1>1, <1>2, <1>5 DEF Question
<1> HIDE DEF a, d
<1>9. at \in Builder /\ at.excluded = b.excluded /\ at.applied = b.applied
  BY <1>1, <1>3, WhereIs
<1>10. Link(at, a)
  <2>1. CASE none
    <3>1. b.limit = asked.limit /\ b.offset = asked.offset
      BY <1>1 DEF Link, Carries
    <3> QED BY <1>1, <1>7, <2>1, <3>1, SameCarries
  <2>2. CASE ~none
    <3> DEFINE w == Where(b, after)
    <3>1. b.limit = asked.limit /\ b.offset = asked.offset
      BY <1>1 DEF Link, Carries
    <3>2. /\ w.wheres = Append(b.wheres, Text(after)) /\ w.bindings = b.bindings \o Values(after)
          /\ w.having = b.having /\ w.limit = b.limit /\ w.offset = b.offset
          /\ w.applied = b.applied /\ w.excluded = b.excluded
      BY <1>1, <1>3, <2>2, WhereIs
    <3> HIDE DEF w
    <3>3. Widened(w, b, asked, after)
      BY <1>1, <3>2 DEF Widened
    <3>4. a.conds = Append(asked.conds, after)
      BY <1>7, <2>2
    <3>5. Link(w, a)
      <4> HIDE DEF cs
      <4> QED BY <1>1, <1>3, <1>7, <2>2, <3>1, <3>2, <3>3, <3>4, WhereCarries
    <3> QED BY <2>2, <3>5 DEF w
  <2> QED BY <2>1, <2>2
<1> HIDE DEF cs, at
<1>11. m \in Builder /\ m.excluded = b.excluded /\ (Scoping(m) <=> scoped /\ ~b.excluded)
       /\ m.offset = at.offset
  BY <1>9, CompileIs
<1>12. Link(m, a)
  BY <1>1, <1>7, <1>9, <1>10, CompileCarries
<1> HIDE DEF m
<1>13. q = [m EXCEPT !.limit = chunk.size]
  BY DEF PageById, m, at, after
<1> HIDE DEF q
<1>14. /\ q \in Builder /\ q.wheres = m.wheres /\ q.bindings = m.bindings /\ q.having = m.having
       /\ q.limit = chunk.size /\ q.offset = m.offset /\ q.applied = m.applied /\ q.excluded = m.excluded
  BY <1>2, <1>11, <1>13 DEF Builder
<1>15. (Scoping(q) <=> Scoping(m)) /\ m.offset = a.offset
  BY <1>12, <1>14 DEF Scoping, Link, Carries
<1>16. Link(q, d)
  BY <1>7, <1>8, <1>12, <1>14, <1>15, SameCarries
<1>17. Fits(q) /\ Selected(q) = Meant(d)
  BY <1>5, <1>8, <1>11, <1>14, <1>15, <1>16, SelectedIsMeant
<1>18. Meant(d) = {i \in Meant(asked) : none \/ i > chunk.cursor}
  BY <1>6, <1>8, Zenon DEF Meant
<1>19. {i \in Meant(asked) : none \/ i > chunk.cursor} = {i \in Meant(asked) : i > chunk.cursor}
  <2>1. \A i \in Meant(asked) : i \in Nat
    BY DEF Meant, Present, Ids
  <2>2. none => \A i \in Nat : i > chunk.cursor
    BY DEF None
  <2> QED BY <2>1, <2>2
<1> QED BY <1>1, <1>7, <1>14, <1>15, <1>17, <1>18, <1>19 DEF q

\* One page of chunkById.
LEMMA PageGathers ==
    ASSUME QueryAssumption, CarriesTheQuestion, ChunkGathers, ChunkByIdPage
    PROVE  ChunkGathers'
<1> DEFINE q == PageById
           past == IF q.offset = None THEN 0 ELSE q.offset
           all == Selected(q)
           page == FirstOf(all, past + q.limit) \ FirstOf(all, past)
           items == InOrder(page)
           given == [chunk EXCEPT !.seen = @ \o items]
           S == Meant(asked)
           cursor == chunk.cursor
           seen == chunk.seen
<1>1. /\ chunk \in Progress /\ chunk.on = "run" /\ chunk.by = "id"
      /\ chunk' = IF ~Fits(q) \/ items = << >> THEN Ended(chunk)
                  ELSE IF Last(items) = chunk.cursor \/ Len(items) < chunk.size THEN Ended(given)
                       ELSE [given EXCEPT !.cursor = Last(items), !.page = 2]
      /\ soft' = soft /\ scoped' = scoped /\ rows' = rows /\ b' = b /\ asked' = asked
  BY DEF ChunkByIdPage, ChunkGathers
<1>2. all \subseteq Ids /\ page \subseteq Ids
  BY DEF Selected, Present, FirstOf
<1>3. /\ items \in Seq(Ids) /\ Len(items) = Cardinality(page) /\ Rising(items) /\ ToSet(items) = page
      /\ items = << >> <=> page = {}
  <2> HIDE DEF page
  <2> QED BY <1>2, InOrderIs
<1>4. /\ seen \in Seq(Ids) /\ cursor \in Bounds /\ chunk.size \in 1 .. 2
      /\ seen \o items \in Seq(Ids)
  BY <1>1, <1>3, ConcatProperties DEF Progress
<1>5. /\ given \in Progress /\ given.seen = seen \o items /\ given.stay = chunk.stay
      /\ given.on = "run" /\ given.by = "id" /\ given.size = chunk.size /\ given.cursor = cursor
  <2> HIDE DEF items
  <2> QED BY <1>1, <1>4 DEF Progress
<1>6. items # << >> => Last(items) \in Ids /\ Last(items) \in ToSet(items) /\ Last(items) \in Bounds
                       /\ \A i \in ToSet(items) : i <= Last(items)
  <2> HIDE DEF items
  <2>1. SUFFICES ASSUME items # << >>
                 PROVE  Last(items) \in Ids /\ Last(items) \in ToSet(items) /\ Last(items) \in Bounds
                        /\ \A i \in ToSet(items) : i <= Last(items)
    OBVIOUS
  <2>2. Len(items) \in Nat /\ Len(items) # 0 /\ DOMAIN items = 1 .. Len(items)
        /\ \A j \in 1 .. Len(items) : items[j] \in Ids
    BY <1>3, <2>1, LenProperties, EmptySeq, ElementOfSeq
  <2>3. Len(items) \in 1 .. Len(items) /\ Last(items) = items[Len(items)]
    BY <2>2 DEF Last
  <2>4. Last(items) \in Ids /\ Last(items) \in ToSet(items)
    BY <2>2, <2>3 DEF ToSet
  <2>5. \A i \in Ids : i \in Nat
    BY DEF Ids
  <2>6. ASSUME NEW j \in 1 .. Len(items) PROVE items[j] <= Last(items)
    <3>1. items[j] \in Nat /\ Last(items) \in Nat
      BY <2>2, <2>4, <2>5
    <3>2. j < Len(items) => items[j] < Last(items)
      BY <1>3, <2>2, <2>3 DEF Rising
    <3>3. j = Len(items) \/ j < Len(items)
      <4>1. PICK n \in Nat : n = Len(items)
        BY <2>2
      <4>2. j \in 1 .. n
        BY <4>1
      <4> QED BY <4>1, <4>2
    <3> QED BY <2>3, <3>1, <3>2, <3>3
  <2> QED BY <2>2, <2>4, <2>5, <2>6 DEF ToSet, Bounds
<1>7. chunk' \in Progress /\ chunk'.by = "id"
  <2>1. Ended(chunk) \in Progress /\ Ended(chunk).by = "id" /\ Ended(given) \in Progress /\ Ended(given).by = "id"
    <3> HIDE DEF given
    <3> QED BY <1>1, <1>5 DEF Ended, Progress
  <2>2. ASSUME items # << >>
        PROVE  [given EXCEPT !.cursor = Last(items), !.page = 2] \in Progress
               /\ [given EXCEPT !.cursor = Last(items), !.page = 2].by = "id"
    <3>1. Last(items) \in Bounds
      BY <1>6, <2>2
    <3> HIDE DEF given, items
    <3> QED BY <1>5, <3>1 DEF Progress
  <2> HIDE DEF given, items
  <2> QED BY <1>1, <2>1, <2>2
<1>8. ASSUME Conjunction(asked) PROVE Gathered(chunk', S)
  <2>1. Gathered(chunk, S)
    BY <1>1, <1>8 DEF ChunkGathers
  <2>2. /\ Fits(q) /\ q.offset = None /\ q.limit = chunk.size /\ all = {i \in S : i > cursor}
    BY <1>1, <1>8, PageIs
  <2>3. page = FirstOf(all, chunk.size)
    <3>1. past = 0 /\ past + q.limit = chunk.size
      BY <1>4, <2>2
    <3>2. FirstOf(all, 0) = {}
      <4> HIDE DEF all
      <4> QED BY <1>2, FirstOnes
    <3> HIDE DEF past, all
    <3> QED BY <3>1, <3>2 DEF page
  <2>4. /\ page \subseteq all
        /\ \A i \in page, k \in all : k <= i => k \in page
        /\ Cardinality(page) < chunk.size => page = all
    <3>1. chunk.size \in Nat
      BY <1>4
    <3> HIDE DEF all, page
    <3> QED BY <1>2, <2>3, <3>1, FirstOnes
  <2>5. /\ chunk.stay \subseteq S
        /\ \A i \in chunk.stay : i <= cursor => i \in ToSet(seen)
        /\ IF cursor = None THEN seen = << >> ELSE seen # << >> /\ cursor = Last(seen)
        /\ Rising(seen)
    BY <1>1, <2>1 DEF Gathered
  <2>6. \A i \in chunk.stay : i \in Nat /\ (i \in ToSet(seen) \/ i \in all)
    <3>1. \A i \in chunk.stay : i \in Nat
      BY <1>1 DEF Progress, Ids
    <3>2. cursor \in Int
      BY <1>4 DEF Bounds, None
    <3> QED BY <2>2, <2>5, <3>1, <3>2
  <2>7. \A i \in ToSet(seen), k \in page : i < k
    <3>1. CASE cursor = None
      <4>1. ToSet(seen) = {}
        BY <2>5, <3>1, NoneYet
      <4> QED BY <4>1
    <3>2. CASE cursor # None
      <4>1. seen # << >> /\ cursor = Last(seen) /\ cursor \in Nat
        BY <1>4, <2>5, <3>2 DEF Bounds
      <4>2. Len(seen) \in Nat /\ Len(seen) # 0 /\ DOMAIN seen = 1 .. Len(seen)
            /\ \A j \in 1 .. Len(seen) : seen[j] \in Ids
        BY <1>4, <4>1, LenProperties, EmptySeq, ElementOfSeq
      <4>3. Len(seen) \in 1 .. Len(seen) /\ cursor = seen[Len(seen)]
        BY <4>1, <4>2 DEF Last
      <4>4. \A j \in 1 .. Len(seen) : seen[j] \in Nat /\ seen[j] <= cursor
        <5>1. ASSUME NEW j \in 1 .. Len(seen) PROVE seen[j] \in Nat /\ seen[j] <= cursor
          <6>1. seen[j] \in Nat
            BY <4>2 DEF Ids
          <6>2. j < Len(seen) => seen[j] < cursor
            BY <2>5, <4>2, <4>3 DEF Rising
          <6>3. j = Len(seen) \/ j < Len(seen)
            BY <4>2
          <6> QED BY <4>1, <4>3, <6>1, <6>2, <6>3
        <5> QED BY <5>1
      <4>5. \A i \in ToSet(seen) : i \in Nat /\ i <= cursor
        BY <4>2, <4>4 DEF ToSet
      <4>6. \A k \in page : k \in Nat /\ k > cursor
        <5>1. \A k \in page : k \in Nat
          BY <1>2 DEF Ids
        <5> QED BY <2>2, <2>4, <5>1
      <4> HIDE DEF page, seen, cursor
      <4> QED BY <4>1, <4>5, <4>6
    <3> QED BY <3>1, <3>2
  <2>8. Rising(seen \o items) /\ ToSet(seen \o items) = ToSet(seen) \cup page
    <3> HIDE DEF items, page, seen
    <3> QED BY <1>3, <1>4, <2>5, <2>7, RisingJoin
  <2>9. CASE items = << >>
    <3>1. all = {}
      <4>1. page = {} /\ Cardinality(page) = 0
        <5> HIDE DEF page
        <5> QED BY <1>3, <2>9, FS_EmptySet
      <4>2. 0 < chunk.size
        BY <1>4
      <4> QED BY <2>4, <4>1, <4>2
    <3>2. chunk' = Ended(chunk)
      BY <1>1, <2>9
    <3>3. chunk'.seen = seen /\ chunk'.on = "done" /\ chunk'.stay = chunk.stay
      BY <1>1, <3>2 DEF Ended, Progress
    <3>4. chunk.stay \subseteq ToSet(seen)
      BY <2>6, <3>1
    <3> QED BY <2>5, <3>3, <3>4 DEF Gathered
  <2>10. CASE items # << >>
    <3>1. Last(items) \in page /\ Last(items) > cursor /\ Last(items) \in Nat /\ cursor \in Int
      <4>1. Last(items) \in page /\ Last(items) \in Ids
        BY <1>3, <1>6, <2>10
      <4> QED BY <1>4, <2>2, <2>4, <4>1 DEF Ids, Bounds, None
    <3>2. CASE Len(items) < chunk.size
      <4>1. page = all
        BY <1>3, <2>4, <3>2
      <4>2. chunk' = Ended(given)
        BY <1>1, <2>2, <2>10, <3>2
      <4>3. chunk'.seen = seen \o items /\ chunk'.on = "done" /\ chunk'.stay = chunk.stay
        <5> HIDE DEF given
        <5> QED BY <1>5, <4>2 DEF Ended, Progress
      <4>4. chunk.stay \subseteq ToSet(seen \o items)
        BY <2>6, <2>8, <4>1
      <4> QED BY <2>8, <4>3, <4>4 DEF Gathered
    <3>3. CASE ~(Len(items) < chunk.size)
      <4>1. Last(items) # cursor
        BY <3>1
      <4>2. chunk' = [given EXCEPT !.cursor = Last(items), !.page = 2]
        BY <1>1, <2>2, <2>10, <3>3, <4>1
      <4>3. chunk'.seen = seen \o items /\ chunk'.on = "run" /\ chunk'.stay = chunk.stay /\ chunk'.cursor = Last(items)
        <5> HIDE DEF given
        <5> QED BY <1>5, <4>2 DEF Progress
      <4>4. Len(seen) \in Nat /\ Len(items) \in Nat /\ Len(items) # 0 /\ Len(seen \o items) = Len(seen) + Len(items)
            /\ (seen \o items)[Len(seen) + Len(items)] = items[Len(items)]
        <5>1. Len(items) \in Nat /\ Len(items) # 0 /\ Len(seen) \in Nat
          BY <1>3, <1>4, <2>10, LenProperties, EmptySeq
        <5>2. Len(items) \in 1 .. Len(items)
          BY <5>1
        <5> HIDE DEF items, seen
        <5>3. /\ Len(seen \o items) = Len(seen) + Len(items)
              /\ \A j \in 1 .. Len(items) : (seen \o items)[Len(seen) + j] = items[j]
          <6>1. seen \in Seq(Ids) /\ items \in Seq(Ids)
            BY <1>3, <1>4
          <6>2. \A s, t \in Seq(Ids) : Len(s \o t) = Len(s) + Len(t)
                                       /\ \A j \in 1 .. Len(t) : (s \o t)[Len(s) + j] = t[j]
            BY ConcatProperties
          <6> QED BY <6>1, <6>2
        <5> QED BY <5>1, <5>2, <5>3
      <4>5. Last(items) # None /\ seen \o items # << >> /\ Last(items) = Last(seen \o items)
        <5>1. Last(items) # None
          BY <3>1 DEF None
        <5>2. Len(seen \o items) # 0
          BY <4>4
        <5>3. seen \o items # << >>
          BY <5>2
        <5> HIDE DEF items, seen
        <5> QED BY <4>4, <5>1, <5>3 DEF Last
      <4>6. \A i \in chunk.stay : i <= Last(items) => i \in ToSet(seen \o items)
        BY <2>4, <2>6, <2>8, <3>1
      <4> HIDE DEF items, seen
      <4> QED BY <2>5, <2>8, <4>3, <4>5, <4>6 DEF Gathered
    <3> QED BY <3>2, <3>3
  <2> QED BY <2>9, <2>10
<1>9. (Meant(asked))' = S
  BY <1>1, MeantKept
<1>10. Conjunction(asked)' <=> Conjunction(asked)
  BY <1>1 DEF Conjunction
<1> HIDE DEF S
<1>11. ((chunk.by = "id" /\ Conjunction(asked)) => Gathered(chunk, Meant(asked)))'
  <2>1. Gathered(chunk', S) => (Gathered(chunk, Meant(asked)))'
    BY <1>9 DEF Gathered, Rising
  <2> QED BY <1>8, <1>10, <2>1
<1>12. (chunk \in Progress)'
  BY <1>7 DEF Progress
<1> QED BY <1>11, <1>12 DEF ChunkGathers

\* Every step.
LEMMA ChunkGathersStep ==
    ASSUME QueryAssumption, CarriesTheQuestion, ChunkGathers, [QueryNext]_queryVars
    PROVE  ChunkGathers'
<1>a. Meant(asked) \subseteq Ids /\ (Meant(asked))' \subseteq Ids
  BY DEF Meant, Present
<1>1. CASE UNCHANGED queryVars
  <2>1. soft' = soft /\ scoped' = scoped /\ b' = b /\ asked' = asked /\ rows' = rows /\ chunk' = chunk
    BY <1>1 DEF queryVars
  <2>2. (Meant(asked))' = Meant(asked)
    BY <2>1, MeantKept
  <2> QED BY <2>1, <2>2 DEF ChunkGathers, Progress, Gathered, Rising, Conjunction
<1>2. CASE Build
  BY <1>2, IdleGathers DEF Build, AddWhere, AddGroup, AddHaving, SetLimit, SetOffset, SetTrashed,
       WithoutGlobalScope, FromTable, Call
<1>3. CASE Ask
  BY <1>3, IdleGathers DEF Ask, Get, First, Find, Count, Paginate, SimplePaginate
<1>4. CASE Write
  BY <1>4, IdleGathers DEF Write, Update, Delete, Increment, DeleteAll
<1>5. CASE StartChunk
  <2>1. PICK by \in {"id", "offset"}, n \in 1 .. 2 :
           chunk' = [Idle EXCEPT !.on = "run", !.by = by, !.size = n, !.stay = IF by = "id" THEN Meant(asked) ELSE {}]
    BY <1>5 DEF StartChunk
  <2>2. PICK none \in Seq(Ids) : none = << >>
    BY EmptySeq
  <2>3. /\ chunk' \in Progress /\ chunk'.seen = none /\ chunk'.cursor = None /\ chunk'.on = "run"
        /\ chunk'.by = by /\ chunk'.stay = IF by = "id" THEN Meant(asked) ELSE {}
    BY <1>a, <2>1, <2>2 DEF Idle, Progress, Bounds
  <2>4. (Meant(asked))' = Meant(asked)
    BY <1>5, MeantKept DEF StartChunk
  <2>5. Rising(none)
    BY <2>2 DEF Rising
  <2>6. \A i \in chunk'.stay : ~(i <= None)
    <3>1. \A i \in Ids : i \in Nat
      BY DEF Ids
    <3> QED BY <1>a, <2>3, <3>1 DEF None
  <2> QED BY <2>2, <2>3, <2>4, <2>5, <2>6 DEF ChunkGathers, Gathered, Progress, Rising
<1>6. CASE ChunkByIdPage
  BY <1>6, PageGathers
<1>7. CASE ChunkPage
  <2>1. chunk \in Progress /\ chunk.by = "offset"
    BY <1>7 DEF ChunkPage, ChunkGathers
  <2>2. chunk' = Ended(chunk) \/ chunk' = [chunk EXCEPT !.page = @ + 1]
    BY <1>7 DEF ChunkPage
  <2>3. chunk' \in Progress /\ chunk'.by = "offset"
    BY <2>1, <2>2 DEF Ended, Progress
  <2> QED BY <2>3 DEF ChunkGathers, Progress
<1>8. CASE Elsewhere
  <2>1. chunk \in Progress /\ chunk.on = "run" /\ asked' = asked
        /\ chunk' = [chunk EXCEPT !.stay = @ \cap (Meant(asked))']
    BY <1>8 DEF Elsewhere, ChunkGathers
  <2>2. /\ chunk' \in Progress /\ chunk'.stay = chunk.stay \cap (Meant(asked))' /\ chunk'.on = "run"
        /\ chunk'.by = chunk.by /\ chunk'.seen = chunk.seen /\ chunk'.cursor = chunk.cursor
    BY <2>1 DEF Progress
  <2>3. Conjunction(asked)' <=> Conjunction(asked)
    BY <2>1 DEF Conjunction
  <2>4. ASSUME chunk'.by = "id", Conjunction(asked)' PROVE (Gathered(chunk, Meant(asked)))'
    <3>1. Gathered(chunk, Meant(asked))
      BY <2>2, <2>3, <2>4 DEF ChunkGathers
    <3> QED BY <2>1, <2>2, <3>1 DEF Gathered, Rising
  <2> QED BY <2>2, <2>4 DEF ChunkGathers, Progress
<1> QED BY <1>1, <1>2, <1>3, <1>4, <1>5, <1>6, <1>7, <1>8 DEF QueryNext, Chunk

(* chunkById hands out its rows by increasing key, none twice, and when it ends it *)
(* has handed out every row that matched all along, for any table, page size and   *)
(* number of changes by callbacks and other sessions between its pages.            *)
THEOREM ChunksAreComplete == QuerySpec => []ChunkByIdIsComplete
<1>1. QueryInit => CarriesTheQuestion /\ ChunkGathers
  <2>1. ASSUME chunk = Idle PROVE ChunkGathers
    <3>1. Idle \in Progress /\ Idle.seen = << >> /\ Idle.on = "idle"
      BY EmptySeq DEF Idle, Progress, Bounds
    <3>2. Rising(<< >>)
      BY DEF Rising
    <3> QED BY <2>1, <3>1, <3>2 DEF ChunkGathers, Gathered
  <2> QED BY <2>1, CarriesFirst DEF QueryInit
<1>2. CarriesTheQuestion /\ ChunkGathers /\ [QueryNext]_queryVars => (CarriesTheQuestion /\ ChunkGathers)'
  BY CarriesStep, ChunkGathersStep, QueryAssumption
<1>3. ChunkGathers => ChunkByIdIsComplete
  BY DEF ChunkGathers, Gathered, Rising, ChunkByIdIsComplete
<1> QED BY <1>1, <1>2, <1>3, PTL DEF QuerySpec

===============================================================================
