----------------------------- MODULE JossQuery -----------------------------
(***************************************************************************)
(* The GranDB query builder (src/pkg/core/database.go, database_helpers.go,*)
(* database_read.go, database_update.go, database_delete.go, and the scopes*)
(* of src/pkg/core/model.go).                                              *)
(*                                                                         *)
(* A builder is a mutable object: each call appends the text of a condition*)
(* to _wheres and its values to _bindings, and a terminal (get, first,     *)
(* count, update, ...) compiles both into one statement whose placeholders *)
(* the driver fills BY POSITION.  Some terminals reset the builder, some   *)
(* give it back as it was, some work on a clone.  What the program asked is*)
(* kept beside it, with every value next to its condition, and the module  *)
(* compares the rows a statement reaches with the rows that were asked for.*)
(*                                                                         *)
(* The table has one data column "a", a key and a deletion mark; the names *)
(* of columns, joins, the selected columns, DISTINCT, GROUP BY, ORDER BY   *)
(* and the dialects are left out.  A statement that names no order may give*)
(* any rows of the right number.                                           *)
(***************************************************************************)
EXTENDS Integers, Sequences, FiniteSets, SequencesExt

CONSTANTS
    MaxId,          \* the keys are 1..MaxId
    Data,           \* values of the column a
    ScopeVal,       \* the value the model's global scope asks of a
    Table,          \* the rows at the start
    Conditions,     \* the conditions a call may add
    Callbacks,      \* what a callback of where() asks: conditions, a lost having
    MaxCalls,       \* bound: builder calls
    MaxStatements,  \* bound: statements
    MaxElsewhere    \* bound: writes of callbacks and other sessions

Ids == 1 .. MaxId
(* What a call of the where family may ask for. *)
Asking == {c \in [or : BOOLEAN, op : {"eq", "ne", "in", "never"}, vals : Seq(Data), sub : {<< >>}] :
             c.op \in {"eq", "ne"} => Len(c.vals) = 1}

NoRow == [a |-> 0, gone |-> FALSE, there |-> FALSE]
TableRow == [a : Data, gone : BOOLEAN, there : {TRUE}] \cup {NoRow}
None == -1

ASSUME QueryAssumption ==
    /\ MaxId \in Nat \ {0} /\ Data \subseteq Nat /\ ScopeVal \in Data /\ 0 \in Data
    /\ Table \in [Ids -> TableRow]
    /\ {MaxCalls, MaxStatements, MaxElsewhere} \subseteq Nat
    /\ \A c \in Conditions : c \in Asking
    /\ \A k \in Callbacks : k.conds \in Seq(Asking) /\ k.having \in Seq(Data)

VARIABLES
    soft,       \* the query is of a model with softDeletes
    scoped,     \* the model has a global scope
    rows,       \* the table
    b,          \* the builder
    asked,      \* what the program asked of it since it was last fresh
    last,       \* the last statement: the rows it reached and those asked for
    chunk,      \* the chunk or chunkById call in progress
    budget      \* calls, statements and other sessions' writes still allowed

queryVars == <<soft, scoped, rows, b, asked, last, chunk, budget>>

Present == {i \in Ids : rows[i].there}

-----------------------------------------------------------------------------
(* Conditions.  The program's condition holds its values; the builder keeps *)
(* its text, which only has a number of placeholders.                       *)

Cond(or, op, vs) == [or |-> or, op |-> op, vals |-> vs, sub |-> << >>]

(* whereIn with an empty list compiles to a constant and binds nothing. *)
In(or, vs) == Cond(or, IF vs = << >> THEN "never" ELSE "in", vs)

Group(or, conds) == [or |-> or, op |-> "group", vals |-> << >>, sub |-> conds]

(* Lists of values one after the other, and the sum of numbers. *)
Strung[vs \in Seq(Seq(Nat))] == IF vs = << >> THEN << >> ELSE Strung[Front(vs)] \o Last(vs)
Total[ns \in Seq(Nat)] == IF ns = << >> THEN 0 ELSE Total[Front(ns)] + Last(ns)

Values(c) == c.vals \o Strung[[k \in DOMAIN c.sub |-> c.sub[k].vals]]

Text(c) == [or |-> c.or, op |-> c.op, n |-> Len(Values(c)),
            sub |-> [k \in DOMAIN c.sub |-> [or |-> c.sub[k].or, op |-> c.sub[k].op,
                                             n |-> Len(c.sub[k].vals)]]]

Places(ts) == Total[[k \in DOMAIN ts |-> ts[k].n]]

(* The values that the placeholders of the j-th of the texts ts receive. *)
Given(ts, j, vs) ==
    LET before == Places(SubSeq(ts, 1, j - 1))
    IN  SubSeq(vs, before + 1, before + ts[j].n)

Holds(op, vs, i) ==
    CASE op = "live"  -> ~rows[i].gone
      [] op = "gone"  -> rows[i].gone
      [] op = "eq"    -> rows[i].a = vs[1]
      [] op = "ne"    -> rows[i].a # vs[1]
      [] op = "in"    -> \E v \in ToSet(vs) : rows[i].a = v
      [] op = "never" -> FALSE
      [] op = "key"   -> i = vs[1]
      [] op = "after" -> i > vs[1]

(* Conditions joined without parentheses: AND binds tighter than OR, and the *)
(* connective of the first one is dropped.  The set met has the places of    *)
(* those that hold.                                                          *)
Joined(cs, met) ==
    \/ cs = << >>
    \/ \E f \in DOMAIN cs :
          /\ f = 1 \/ cs[f].or
          /\ \A j \in f .. Len(cs) : j \in met \/ \E k \in (f + 1) .. j : cs[k].or

(* A condition holds of row i: with the values its text was given, and with *)
(* its own ones.                                                            *)
Filled(t, vs, i) ==
    IF t.op = "group"
    THEN Joined(t.sub, {k \in DOMAIN t.sub : Holds(t.sub[k].op, Given(t.sub, k, vs), i)})
    ELSE Holds(t.op, vs, i)

Meets(c, i) ==
    IF c.op = "group"
    THEN Joined(c.sub, {k \in DOMAIN c.sub : Holds(c.sub[k].op, c.sub[k].vals, i)})
    ELSE Holds(c.op, c.vals, i)

ByPlace(ts, vs, i) == Joined(ts, {j \in DOMAIN ts : Filled(ts[j], Given(ts, j, vs), i)})
AsAsked(cs, i) == Joined(cs, {j \in DOMAIN cs : Meets(cs[j], i)})

-----------------------------------------------------------------------------
(* The builder. *)

Live == Text(Cond(FALSE, "live", << >>))
Gone == Text(Cond(FALSE, "gone", << >>))

(* resetReadState: a builder of a model with softDeletes filters again. *)
Reset(q) ==
    [q EXCEPT !.wheres = IF soft THEN <<Live>> ELSE << >>, !.bindings = << >>,
              !.having = << >>, !.limit = None, !.offset = None, !.applied = FALSE]

Where(q, c) ==
    [q EXCEPT !.wheres = Append(@, Text(c)), !.bindings = @ \o Values(c)]

Having(q, c) ==
    [q EXCEPT !.having = Append(@, Text(c)), !.bindings = @ \o Values(c)]

(* The conditions without the filter of the model. *)
Ops == {"eq", "ne", "in", "never", "group", "live", "gone", "key", "after"}
Texts == [or : BOOLEAN, op : Ops, n : Nat, sub : Seq([or : BOOLEAN, op : Ops, n : Nat])]
Shown[ts \in Seq(Texts)] ==
    IF ts = << >> THEN << >>
    ELSE LET rest == Shown[Front(ts)]
         IN  IF Last(ts) \in {Live, Gone} THEN rest ELSE Append(rest, Last(ts))

(* withTrashed, onlyTrashed, withoutTrashed: the filter is taken out of the *)
(* conditions and the one asked for is put at their end.                    *)
Trashed(q, mode) ==
    LET rest == Shown[q.wheres]
    IN  [q EXCEPT !.wheres = CASE mode = "without" -> Append(rest, Live)
                               [] mode = "only"    -> Append(rest, Gone)
                               [] mode = "with"    -> rest]

(* applyPendingGlobalScopes. *)
Compile(q) ==
    IF q.applied \/ ~scoped THEN q
    ELSE LET marked == [q EXCEPT !.applied = TRUE]
         IN  IF q.excluded THEN marked ELSE Where(marked, Cond(FALSE, "eq", <<ScopeVal>>))

(* The rows a SELECT reaches; the driver refuses a statement whose values do *)
(* not fit its placeholders.                                                 *)
Fits(q) == Places(q.wheres) + Places(q.having) = Len(q.bindings)
Selected(q) ==
    {i \in Present :
        /\ Fits(q)
        /\ ByPlace(q.wheres, q.bindings, i)
        /\ ByPlace(q.having, SubSeq(q.bindings, Places(q.wheres) + 1, Len(q.bindings)), i)}

(* UPDATE and DELETE compile no HAVING, and still pass its values. *)
FitsWrite(q) == Places(q.wheres) = Len(q.bindings)
Reached(q) == {i \in Present : FitsWrite(q) /\ ByPlace(q.wheres, q.bindings, i)}

Cut(n, limit, offset) ==
    LET left == IF offset = None THEN n ELSE IF n > offset THEN n - offset ELSE 0
    IN  IF limit = None \/ limit > left THEN left ELSE limit

-----------------------------------------------------------------------------
(* What was asked. *)

Nothing == [conds |-> << >>, having |-> << >>, mode |-> "without", limit |-> None,
            offset |-> None, mixed |-> FALSE]

Filtered(a) == (soft /\ a.mode # "with") \/ (scoped /\ ~b.excluded)

(* The rows asked for: the model's filters, and the conditions as one unit. *)
Meant(a) ==
    {i \in Present :
        /\ soft => CASE a.mode = "without" -> ~rows[i].gone
                     [] a.mode = "only"    -> rows[i].gone
                     [] a.mode = "with"    -> TRUE
        /\ (scoped /\ ~b.excluded) => rows[i].a = ScopeVal
        /\ AsAsked(a.conds, i) /\ AsAsked(a.having, i)}

(* Questions the builder is known to answer differently: an OR beside the   *)
(* filters of the model, a condition with values after a HAVING, a builder  *)
(* used again after deleteAll.                                              *)
Clean(a) ==
    /\ ~a.mixed
    /\ Filtered(a) => \A j \in DOMAIN a.conds : ~a.conds[j].or

(* A global scope is such a condition, added when the builder is compiled. *)
Pending == scoped /\ ~b.applied /\ ~b.excluded
Compiled(a) == [a EXCEPT !.mixed = @ \/ (Pending /\ a.having # << >>)]

Idle == [on |-> "idle", by |-> "id", size |-> 1, cursor |-> None, page |-> 1,
         seen |-> << >>, stay |-> {}]

NoStatement == [op |-> "none", hit |-> {}, meant |-> {}, size |-> 0, bare |-> FALSE]

Fresh == [wheres |-> IF soft THEN <<Live>> ELSE << >>, bindings |-> << >>, having |-> << >>,
          limit |-> None, offset |-> None, applied |-> FALSE, excluded |-> FALSE]

QueryInit ==
    /\ soft \in BOOLEAN /\ scoped \in BOOLEAN
    /\ rows = Table
    /\ b = Fresh
    /\ asked = Nothing
    /\ last = NoStatement
    /\ chunk = Idle
    /\ budget = [calls |-> MaxCalls, statements |-> MaxStatements, elsewhere |-> MaxElsewhere]

-----------------------------------------------------------------------------
(* Calls that only change the builder. *)

Call ==
    /\ chunk.on # "run" /\ budget.calls > 0
    /\ budget' = [budget EXCEPT !.calls = @ - 1]
    /\ chunk' = Idle /\ last' = NoStatement
    /\ UNCHANGED <<soft, scoped, rows>>

(* where, orWhere, whereIn, whereNot, ...: one condition and its values. *)
AddWhere ==
    /\ Call
    /\ \E c \in Conditions :
          /\ b' = Where(b, c)
          /\ asked' = [asked EXCEPT !.conds = Append(@, c),
                                    !.mixed = @ \/ (b.having # << >> /\ Values(c) # << >>)]

(* where(callback): the callback fills a builder of its own, of which the    *)
(* conditions and the values are taken, but not the HAVING.                  *)
AddGroup ==
    /\ Call
    /\ \E or \in BOOLEAN, k \in Callbacks :
          LET g == Group(or, k.conds)
          IN  /\ b' = [Where(b, g) EXCEPT !.bindings = @ \o k.having]
              /\ asked' = [asked EXCEPT !.conds = Append(@, g),
                                        !.mixed = @ \/ b.having # << >> \/ k.having # << >>]

AddHaving ==
    /\ Call
    /\ \E c \in {d \in Conditions : d.op = "eq"} :
          /\ b' = Having(b, c)
          /\ asked' = [asked EXCEPT !.having = Append(@, c)]

SetLimit ==
    /\ Call
    /\ \E n \in 0 .. 1 : /\ b' = [b EXCEPT !.limit = n]
                         /\ asked' = [asked EXCEPT !.limit = n]

SetOffset ==
    /\ Call
    /\ b' = [b EXCEPT !.offset = 1]
    /\ asked' = [asked EXCEPT !.offset = 1]

SetTrashed ==
    /\ Call /\ soft
    /\ \E mode \in {"with", "without", "only"} :
          /\ b' = Trashed(b, mode)
          /\ asked' = [asked EXCEPT !.mode = mode]

(* withoutGlobalScope raises ModelScopeError once a statement was compiled. *)
WithoutGlobalScope ==
    /\ Call /\ scoped /\ ~b.applied
    /\ b' = [b EXCEPT !.excluded = TRUE]
    /\ UNCHANGED asked

-----------------------------------------------------------------------------
(* Terminals. *)

Statement ==
    /\ chunk.on # "run" /\ budget.statements > 0
    /\ budget' = [budget EXCEPT !.statements = @ - 1]
    /\ UNCHANGED <<soft, scoped>>

(* What is recorded of a statement: nothing when the question is one of those *)
(* that Clean excludes, or when the database refused it.                      *)
Record(op, a, hit, size, ok) ==
    IF ok /\ Clean(Compiled(a))
    THEN [op |-> op, hit |-> hit, meant |-> Meant(a), size |-> size, bare |-> a.conds = << >>]
    ELSE NoStatement

BackToFresh == b' = Reset(b) /\ asked' = Nothing

(* A terminal that gives up after compiling. *)
Unreset ==
    /\ b' = Compile(b) /\ asked' = Compiled(asked)
    /\ last' = NoStatement

(* buildSelectQuery compiles, resetReadState resets, the statement runs: one *)
(* that fails leaves a builder as fresh as one that succeeds.                 *)
Read(op, q, a) ==
    \E fails \in BOOLEAN, hit \in SUBSET Selected(Compile(q)) :
       LET c == Compile(q)
           n == Cut(Cardinality(Selected(c)), c.limit, c.offset)
       IN  /\ Cardinality(hit) = n
           /\ last' = Record(op, a, hit, Cut(Cardinality(Meant(a)), a.limit, a.offset),
                             ~fails /\ Fits(c))

(* get, pluck, findMany, sole. *)
Get ==
    /\ Statement
    /\ Read("get", b, asked) /\ BackToFresh
    /\ chunk' = Idle /\ UNCHANGED rows

(* first, firstWhere, value, exists: one row at most, and no offset. *)
First ==
    /\ Statement
    /\ Read("first", [b EXCEPT !.limit = 1, !.offset = None],
                     [asked EXCEPT !.limit = 1, !.offset = None])
    /\ BackToFresh
    /\ chunk' = Idle /\ UNCHANGED rows

(* MUTANT: the key is put before the values the conditions already have. *)
FindKeyFirst(k) ==
    /\ Statement
    /\ LET c == Cond(FALSE, "key", <<k>>)
       IN  Read("find", [Where(b, c) EXCEPT !.bindings = <<k>> \o b.bindings, !.limit = 1, !.offset = None],
                [asked EXCEPT !.conds = Append(@, c), !.limit = 1, !.offset = None,
                              !.mixed = @ \/ b.having # << >>])
    /\ BackToFresh
    /\ chunk' = Idle /\ UNCHANGED rows

(* find: the condition on the key is added to those already asked for. *)
Find(k) ==
    /\ Statement
    /\ LET c == Cond(FALSE, "key", <<k>>)
       IN  Read("find", [Where(b, c) EXCEPT !.limit = 1, !.offset = None],
                [asked EXCEPT !.conds = Append(@, c), !.limit = 1, !.offset = None,
                              !.mixed = @ \/ b.having # << >>])
    /\ BackToFresh
    /\ chunk' = Idle /\ UNCHANGED rows

(* count and the aggregates set order, limit and offset aside, leave the      *)
(* conditions in the builder, and reset nothing.                              *)
Count ==
    /\ Statement
    /\ LET c == Compile(b)
       IN  /\ b' = c
           /\ \E fails \in BOOLEAN :
                 last' = Record("count", asked, Selected(c), Cardinality(Meant(asked)),
                                ~fails /\ Fits(c))
    /\ asked' = Compiled(asked)
    /\ chunk' = Idle
    /\ UNCHANGED rows

(* paginate: a count, then a page of the same conditions. *)
Paginate ==
    /\ Statement
    /\ \E page \in 1 .. 2, counted \in BOOLEAN :
          IF counted /\ Fits(Compile(b))
          THEN LET at(x) == [x EXCEPT !.limit = 1, !.offset = page - 1]
               IN  Read("paginate", at(Compile(b)), at(asked)) /\ BackToFresh
          ELSE Unreset
    /\ chunk' = Idle /\ UNCHANGED rows

(* simplePaginate works on a clone and takes one row more than it shows. *)
SimplePaginate ==
    /\ Statement
    /\ \E page \in 1 .. 2 :
          LET at(x) == [x EXCEPT !.limit = 2, !.offset = page - 1]
          IN  Read("simplePaginate", at(b), at(asked))
    /\ chunk' = Idle /\ UNCHANGED <<rows, b, asked>>

-----------------------------------------------------------------------------
(* Writes: the values of SET come before those of the conditions. *)

Written(q, op, set(_)) ==
    \E fails \in BOOLEAN :
       LET ok == ~fails /\ FitsWrite(q)
       IN  /\ rows' = IF ok THEN [i \in Ids |-> IF i \in Reached(q) THEN set(rows[i]) ELSE rows[i]]
                            ELSE rows
           /\ last' = Record(op, asked, Reached(q), Cardinality(Meant(asked)), ok)

Refused == Unreset /\ UNCHANGED rows

Update ==
    /\ Statement
    /\ LET c == Compile(b)
       IN  IF c.wheres = << >> THEN Refused
           ELSE /\ \E v \in Data : Written(c, "update", LAMBDA r : [r EXCEPT !.a = v])
                /\ BackToFresh
    /\ chunk' = Idle

Delete ==
    /\ Statement
    /\ LET c == Compile(b)
       IN  IF c.wheres = << >> THEN Refused
           ELSE Written(c, "delete", LAMBDA r : NoRow) /\ BackToFresh
    /\ chunk' = Idle

(* increment accepts no conditions, and does not ask for the global scopes. *)
Increment ==
    /\ Statement
    /\ (scoped /\ ~b.excluded) => b.applied
    /\ Written(b, "increment", LAMBDA r : [r EXCEPT !.a = IF r.a + 1 \in Data THEN r.a + 1 ELSE r.a])
    /\ BackToFresh
    /\ chunk' = Idle

(* deleteAll and truncate reset the conditions and their values only. *)
DeleteAll ==
    /\ Statement
    /\ rows' \in {rows, [i \in Ids |-> NoRow]}
    /\ b' = [b EXCEPT !.wheres = << >>, !.bindings = << >>]
    /\ asked' = [Nothing EXCEPT !.mixed = TRUE]
    /\ last' = NoStatement /\ chunk' = Idle

(* table(): the builder starts again. *)
FromTable ==
    /\ chunk.on # "run" /\ b # Reset(b)
    /\ BackToFresh
    /\ chunk' = Idle /\ last' = NoStatement
    /\ UNCHANGED <<soft, scoped, rows, budget>>

-----------------------------------------------------------------------------
(* chunk and chunkById: page after page, the callback in between. *)

StartChunk ==
    /\ chunk.on # "run" /\ budget.statements > 0
    /\ \E by \in {"id", "offset"}, n \in 1 .. 2 :
          chunk' = [Idle EXCEPT !.on = "run", !.by = by, !.size = n,
                                !.stay = IF by = "id" THEN Meant(asked) ELSE {}]
    /\ budget' = [budget EXCEPT !.statements = @ - 1]
    /\ last' = NoStatement
    /\ UNCHANGED <<soft, scoped, rows, b, asked>>

Ended(ck) == [ck EXCEPT !.on = "done"]

(* MUTANT: the page is ordered by decreasing key. *)
LastOf(S, n) == {i \in S : Cardinality({j \in S : j > i}) < n}

(* The clone of the builder that reads the next page of chunkById. *)
PageById ==
    LET at == IF chunk.cursor = None THEN b ELSE Where(b, Cond(FALSE, "after", <<chunk.cursor>>))
    IN  [Compile(at) EXCEPT !.limit = chunk.size]

(* Keys in increasing order. *)
InOrder(S) ==
    CHOOSE s \in [1 .. Cardinality(S) -> S] : \A j, k \in DOMAIN s : j < k => s[j] < s[k]

FirstOf(S, n) == {i \in S : Cardinality({j \in S : j < i}) < n}

(* MUTANT: chunkById narrows the caller's builder instead of a clone. *)
ChunkByIdPageInPlace ==
    /\ chunk.on = "run" /\ chunk.by = "id"
    /\ LET items == InOrder(FirstOf(Selected(PageById), chunk.size))
       IN  chunk' = IF items = << >> THEN Ended(chunk)
                    ELSE [chunk EXCEPT !.seen = @ \o items, !.cursor = Last(items)]
    /\ b' = PageById
    /\ UNCHANGED <<soft, scoped, rows, asked, last, budget>>

ChunkByIdPage ==
    /\ chunk.on = "run" /\ chunk.by = "id"
    /\ LET q == PageById
           past == IF q.offset = None THEN 0 ELSE q.offset
           all == Selected(q)
           page == FirstOf(all, past + q.limit) \ FirstOf(all, past)
           items == InOrder(page)
       IN  chunk' = IF ~Fits(q) \/ items = << >> THEN Ended(chunk)
                    ELSE LET given == [chunk EXCEPT !.seen = @ \o items]
                         IN  IF Last(items) = chunk.cursor \/ Len(items) < chunk.size
                             THEN Ended(given)
                             ELSE [given EXCEPT !.cursor = Last(items), !.page = 2]
    /\ UNCHANGED <<soft, scoped, rows, b, asked, last, budget>>

(* chunk reads its pages through the builder itself, which get() resets. *)
ChunkPage ==
    /\ chunk.on = "run" /\ chunk.by = "offset"
    /\ LET q == [Compile(b) EXCEPT !.limit = chunk.size,
                                   !.offset = (chunk.page - 1) * chunk.size]
       IN  \E hit \in SUBSET Selected(q) :
              /\ Cardinality(hit) = Cut(Cardinality(Selected(q)), q.limit, q.offset)
              /\ chunk' = IF ~Fits(q) \/ Cardinality(hit) < chunk.size THEN Ended(chunk)
                          ELSE [chunk EXCEPT !.page = @ + 1]
    /\ BackToFresh
    /\ UNCHANGED <<soft, scoped, rows, last, budget>>

(* A callback or another session adds or removes a row between two pages. *)
Elsewhere ==
    /\ chunk.on = "run" /\ budget.elsewhere > 0
    /\ \E i \in Ids, v \in Data :
          rows' = [rows EXCEPT ![i] = IF @.there THEN NoRow
                                      ELSE [a |-> v, gone |-> FALSE, there |-> TRUE]]
    /\ budget' = [budget EXCEPT !.elsewhere = @ - 1]
    /\ UNCHANGED <<soft, scoped, b, asked, last>>
    /\ chunk' = [chunk EXCEPT !.stay = @ \cap Meant(asked)']

Build == AddWhere \/ AddGroup \/ AddHaving \/ SetLimit \/ SetOffset \/ SetTrashed
         \/ WithoutGlobalScope \/ FromTable
Ask == Get \/ First \/ (\E k \in Ids : Find(k)) \/ Count \/ Paginate \/ SimplePaginate
Write == Update \/ Delete \/ Increment \/ DeleteAll
Chunk == StartChunk \/ ChunkByIdPage \/ ChunkPage \/ Elsewhere

QueryNext == Build \/ Ask \/ Write \/ Chunk

QuerySpec == QueryInit /\ [][QueryNext]_queryVars

-----------------------------------------------------------------------------
(* Properties. *)

(* The builder, what was asked and the table have the expected form. *)
QueryTypeOK ==
    /\ soft \in BOOLEAN /\ scoped \in BOOLEAN
    /\ rows \in [Ids -> TableRow]
    /\ asked.mode \in {"with", "without", "only"}
    /\ Cardinality({j \in DOMAIN b.wheres : b.wheres[j] \in {Live, Gone}}) <= 1
    /\ last.hit \subseteq Ids /\ last.meant \subseteq Ids
    /\ chunk.on \in {"idle", "run", "done"}
    /\ chunk.stay \subseteq Ids /\ ToSet(chunk.seen) \subseteq Ids

(* A statement reaches exactly the rows that were asked for since the builder *)
(* was fresh, or as many of them as the limit and offset asked for leave: each *)
(* placeholder got the value of its own condition, and neither a condition nor *)
(* a limit of an earlier statement was left behind, whatever failed before.    *)
StatementsReachWhatWasAsked ==
    /\ last.hit \subseteq last.meant
    /\ Cardinality(last.hit) = last.size

(* A question without OR, HAVING or offset, which chunkById narrows page by *)
(* page with one more condition.                                            *)
Conjunction(a) ==
    /\ ~a.mixed /\ a.having = << >> /\ a.offset = None
    /\ \A j \in DOMAIN a.conds : ~a.conds[j].or

(* The documentation: chunkById gives batches by increasing key. *)

(* chunkById hands out its rows in increasing order, none twice, and when it  *)
(* ends it has handed out every row that matched all along, although rows     *)
(* were added, changed and removed between its pages.                         *)
ChunkByIdIsComplete ==
    (chunk.by = "id" /\ Conjunction(asked)) =>
        /\ \A j, k \in DOMAIN chunk.seen : j < k => chunk.seen[j] < chunk.seen[k]
        /\ chunk.on = "done" => chunk.stay \subseteq ToSet(chunk.seen)

(* chunkById and simplePaginate leave the builder to the caller as it was:    *)
(* the next statement still answers the question asked before them.           *)
PagesLeaveTheBuilder ==
    [][(chunk.on = "run" /\ chunk.by = "id") \/ last'.op = "simplePaginate" => UNCHANGED <<b, asked>>]_queryVars

(* The documentation: an update or a delete without where is refused. *)

=============================================================================
