--------------------------------- MODULE Listing ---------------------------------
(***************************************************************************)
(* The listings that the API answers page by page: notifications by filter *)
(* (List), the notifications of a batch (GetByBatchID) and templates.      *)
(* Each reply takes two statements, a COUNT and a SELECT ... ORDER BY ...  *)
(* LIMIT ... OFFSET, in no transaction; meanwhile rows are committed,      *)
(* notifications change their status and templates are deleted.            *)
(*                                                                         *)
(* A client walks through a listing: it asks for the page after the one it *)
(* got, until a page is short or, when it trusts the total, until the      *)
(* total is reached.                                                       *)
(***************************************************************************)
EXTENDS FiniteSets, Integers

CONSTANTS
    Rows,           \* the notifications, or templates, that may ever be there
    CreatedAt,      \* created_at, taken in Go before the INSERT
    GroupOf,        \* channel, priority, recipient or batch_id: what never changes
    Statuses,       \* the values of status, in the order the column sorts
    NewStatus,      \* the one a notification is inserted with
    RawSorts,       \* what clients send as sort_by
    RawOffsets,     \* what clients send as offset for the first page
    RawLimits,      \* what clients send as limit; Absent also when it is no number
    Absent,         \* a parameter or a filter that is not given
    DefaultLimit,
    MaxLimit,
    MaxLeft         \* bound: rows that leave a listing during one walk

ASSUME ListingAssumption ==
    /\ IsFiniteSet(Rows)
    /\ CreatedAt \in [Rows -> Int]
    /\ GroupOf \in [Rows -> Int]
    /\ Absent \notin Int
    /\ RawOffsets \cap (Nat \ {0}) = {}
    /\ Statuses \subseteq Int /\ NewStatus \in Statuses
    /\ DefaultLimit \in Nat \ {0} /\ MaxLimit \in Nat \ {0}
    /\ MaxLeft \in Nat

VARIABLES
    table,      \* whether each row is still to come, stored or deleted
    status,     \* the status it has
    walk        \* the request of the client and what it has got so far

vars == <<table, status, walk>>

--------------------------------------------------------------------------------
(***************************************************************************)
(* The queries.  A sortBy that is not on the whitelist sorts by created_at;*)
(* status stands for every column that changes (also updated_at).          *)
(***************************************************************************)
SortColumns == {"created_at", "group", "status"}

Groups == {GroupOf[r] : r \in Rows}

Query == [listing   : {"notifications", "batch", "templates"},
          group     : Groups \cup {Absent},
          status    : Statuses \cup {Absent},
          sortBy    : RawSorts \cup {"created_at"},
          ascending : BOOLEAN]

BatchQuery(batch) == [listing |-> "batch", group |-> batch, status |-> Absent,
                      sortBy |-> "created_at", ascending |-> TRUE]

TemplatesQuery == [listing |-> "templates", group |-> Absent, status |-> Absent,
                   sortBy |-> "created_at", ascending |-> FALSE]

Queries == {q \in Query : q.listing = "notifications" /\ q.sortBy \in RawSorts}
           \cup {BatchQuery(batch) : batch \in Groups}
           \cup {TemplatesQuery}

SortColumn(q) == IF q.sortBy \in SortColumns THEN q.sortBy ELSE "created_at"

SortKey(q, r) == [created_at |-> CreatedAt[r],
                  group      |-> GroupOf[r],
                  status     |-> status[r]][SortColumn(q)]

Before(q, r, s) == IF q.ascending THEN SortKey(q, r) < SortKey(q, s)
                                  ELSE SortKey(q, r) > SortKey(q, s)

\* The WHERE clause: every filter that is given has to hold.
Fits(q, r, value) == /\ q.group \in {Absent, GroupOf[r]}
                     /\ q.status \in {Absent, value}

Matching(q) == {r \in Rows : table[r] = "stored" /\ Fits(q, r, status[r])}

AtMost(i, j) == IF i <= j THEN i ELSE j

\* Mutant: the SELECT has no ORDER BY.
IsPageUnordered(q, offset, limit, skipped, page) ==
    /\ skipped \cap page = {}
    /\ Cardinality(skipped) = AtMost(offset, Cardinality(Matching(q)))
    /\ Cardinality(page) = AtMost(limit, Cardinality(Matching(q)) - Cardinality(skipped))

\* ORDER BY leaves rows with equal keys in any order, and in another one each
\* time: OFFSET skips some first rows, LIMIT takes some that come next.
IsPage(q, offset, limit, skipped, page) ==
    LET all == Matching(q)
        rest == all \ (skipped \cup page)
    IN  /\ skipped \cap page = {}
        /\ Cardinality(skipped) = AtMost(offset, Cardinality(all))
        /\ Cardinality(page) = AtMost(limit, Cardinality(all) - Cardinality(skipped))
        /\ \A r \in skipped, s \in page \cup rest : ~Before(q, s, r)
        /\ \A r \in page, s \in rest : ~Before(q, s, r)

\* parsePagination
ParseOffset(raw) == IF raw \in Nat THEN raw ELSE 0

\* Mutant: the limit is checked and not clamped.
ParseLimitUnclamped(raw) == IF raw \in Nat \ {0} THEN raw ELSE DefaultLimit

ParseLimit(raw) ==
    AtMost(IF raw \in Nat \ {0} THEN raw ELSE DefaultLimit, MaxLimit)

--------------------------------------------------------------------------------
(***************************************************************************)
(* pc is the statement that runs next.  seen is what the pages held so     *)
(* far.  owed, left and late only record what happened meanwhile: the rows *)
(* that have been in the listing ever since the walk began, how many rows  *)
(* left it, and how many entered between the last COUNT and its SELECT.    *)
(***************************************************************************)
Walk == [pc     : {"idle", "count", "select", "done"},
         query  : Query,
         hasty  : BOOLEAN,
         offset : Nat,
         limit  : 1 .. MaxLimit,
         total  : Nat,
         seen   : SUBSET Rows,
         owed   : SUBSET Rows,
         left   : Nat,
         late   : Nat]

\* What the client is going to walk through.
NoWalk(q) == [pc |-> "idle", query |-> q, hasty |-> FALSE, offset |-> 0, limit |-> 1,
              total |-> 0, seen |-> {}, owed |-> {}, left |-> 0, late |-> 0]

Init ==
    /\ table = [r \in Rows |-> "absent"]
    /\ status = [r \in Rows |-> NewStatus]
    /\ walk \in {NoWalk(q) : q \in Queries}

\* The client asks for the first page; hasty when it will trust the total.
Ask(raw, hasty) ==
    /\ walk.pc = "idle"
    /\ \E first \in RawOffsets :
          walk' = [walk EXCEPT !.pc     = "count",
                               !.hasty  = hasty,
                               !.offset = ParseOffset(first),
                               !.limit  = ParseLimit(raw),
                               !.owed   = Matching(walk.query)]
    /\ UNCHANGED <<table, status>>

\* Mutant: the page is counted, not the listing.
CountThePage ==
    /\ walk.pc = "count"
    /\ walk' = [walk EXCEPT !.pc    = "select",
                            !.total = AtMost(walk.limit, Cardinality(Matching(walk.query))),
                            !.late  = 0]
    /\ UNCHANGED <<table, status>>

Count ==
    /\ walk.pc = "count"
    /\ walk' = [walk EXCEPT !.pc    = "select",
                            !.total = Cardinality(Matching(walk.query)),
                            !.late  = 0]
    /\ UNCHANGED <<table, status>>

\* The client has got the last page, as far as it can tell.
LastPage(page) ==
    \/ Cardinality(page) < walk.limit
    \/ walk.hasty /\ walk.offset + walk.limit >= walk.total

\* The page, with the offset and the limit that were used; the client stops or
\* asks for the next one.
Select ==
    /\ walk.pc = "select"
    /\ \E skipped, page \in SUBSET Matching(walk.query) :
          /\ IsPage(walk.query, walk.offset, walk.limit, skipped, page)
          /\ IF LastPage(page)
             THEN walk' = [walk EXCEPT !.pc = "done", !.seen = @ \cup page]
             ELSE walk' = [walk EXCEPT !.pc     = "count",
                                       !.seen   = @ \cup page,
                                       !.offset = ParseOffset(@ + walk.limit)]
    /\ UNCHANGED <<table, status>>

Walking == walk.pc \in {"count", "select"}

\* A row that enters, or leaves, the listing of the walk.
Enters(r) == walk' = IF walk.pc = "select" THEN [walk EXCEPT !.late = @ + 1] ELSE walk

Leaves(r) == walk' = IF Walking THEN [walk EXCEPT !.left = @ + 1, !.owed = @ \ {r}]
                                ELSE walk

\* An INSERT is committed, in any order of created_at.
Insert(r) ==
    /\ table[r] = "absent"
    /\ table' = [table EXCEPT ![r] = "stored"]
    /\ IF Fits(walk.query, r, status[r]) THEN Enters(r) ELSE UNCHANGED walk
    /\ UNCHANGED status

\* The pipeline changes the status of a notification.
Update(r, value) ==
    /\ walk.query.listing # "templates"
    /\ table[r] = "stored" /\ value # status[r]
    /\ Walking => walk.left < MaxLeft
    /\ status' = [status EXCEPT ![r] = value]
    /\ CASE Fits(walk.query, r, status[r]) /\ ~Fits(walk.query, r, value) -> Leaves(r)
         [] ~Fits(walk.query, r, status[r]) /\ Fits(walk.query, r, value) -> Enters(r)
         [] OTHER -> UNCHANGED walk
    /\ UNCHANGED table

\* Only templates are ever deleted.
Delete(r) ==
    /\ walk.query.listing = "templates"
    /\ table[r] = "stored"
    /\ Walking => walk.left < MaxLeft
    /\ table' = [table EXCEPT ![r] = "deleted"]
    /\ Leaves(r)
    /\ UNCHANGED status

Next ==
    \/ \E raw \in RawLimits, hasty \in BOOLEAN : Ask(raw, hasty)
    \/ Count
    \/ Select
    \/ \E r \in Rows : Insert(r) \/ Delete(r)
    \/ \E r \in Rows, value \in Statuses : Update(r, value)

Spec == Init /\ [][Next]_vars

--------------------------------------------------------------------------------
\* The limit that is used, and told to the client, is between 1 and the maximum,
\* and every other variable has the shape the code gives it.
TypeOK ==
    /\ table \in [Rows -> {"absent", "stored", "deleted"}]
    /\ status \in [Rows -> Statuses]
    /\ walk \in Walk

\* The rows whose place in the order is fixed: the column does not change, and no
\* other row has the same value in it.
Placed(q) ==
    {r \in Rows : /\ SortColumn(q) # "status"
                  /\ \A s \in Rows \ {r} : SortKey(q, s) # SortKey(q, r)}

\* What was in the listing all the time and came on no page.
Missed == (walk.owed \cap Placed(walk.query)) \ walk.seen

\* A client that goes on to the first short page misses no more rows than left
\* the listing while it walked, whatever was inserted meanwhile, wherever it
\* sorts: with a filter on what never changes, it misses none.  The limit and the
\* offset that parsePagination made, ORDER BY and OFFSET have to work together.
ShortPageMissesOnlyLeavers ==
    walk.pc = "done" /\ ~walk.hasty => Cardinality(Missed) <= walk.left

\* One that stops when the total is reached may also miss a row for each that
\* entered between the COUNT and the SELECT of its last page, and no more.
TotalMissesOnlyLatecomers ==
    walk.pc = "done" => Cardinality(Missed) <= walk.left + walk.late
================================================================================
