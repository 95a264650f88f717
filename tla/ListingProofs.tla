------------------------------ MODULE ListingProofs ------------------------------
(***************************************************************************)
(* The walks through a listing, for any number of rows, any order in which *)
(* they are committed and any limits.                                      *)
(***************************************************************************)
EXTENDS Listing, FiniteSetTheorems, TLAPS

(***************************************************************************)
(* A sort order as a key, smallest first; the rows that come before a row, *)
(* and how many they are: its position in the listing when its key is      *)
(* unique.                                                                 *)
(***************************************************************************)
Ahead(key, rows, r) == {s \in rows : key[s] < key[r]}

Rank(key, rows, r) == Cardinality(Ahead(key, rows, r))

Key(q) == [r \in Rows |-> IF q.ascending THEN SortKey(q, r) ELSE 0 - SortKey(q, r)]

\* The rows that are owed and that the pages so far have passed over.
PassedOver(q) ==
    {r \in (walk.owed \cap Placed(q)) \ walk.seen :
        Rank(Key(q), Matching(q), r) < walk.offset}

(***************************************************************************)
(* ShortPageMissesOnlyLeavers is about the end of a walk; on its way every *)
(* row that is owed and not seen is still to come, but for as many as left.*)
(***************************************************************************)
OnTheWay(q) ==
    /\ walk.owed \subseteq Matching(q)
    /\ Cardinality(PassedOver(q)) <= walk.left

WalkInv ==
    /\ TypeOK
    /\ \A q \in Query : walk.query = q /\ Walking => OnTheWay(q)
    /\ ShortPageMissesOnlyLeavers

--------------------------------------------------------------------------------
\* A row that comes later has more rows before it.
LEMMA RankStrict ==
    ASSUME NEW M, IsFiniteSet(M), NEW key \in [Rows -> Int], M \subseteq Rows,
           NEW r \in M, NEW s \in Rows, key[r] < key[s]
    PROVE  Rank(key, M, r) < Rank(key, M, s)
<1>1. Ahead(key, M, r) \subseteq Ahead(key, M, s) /\ Ahead(key, M, s) \subseteq M
  <2>1. \A x \in M : key[x] < key[r] => key[x] < key[s]
    <3>1. \A x \in M : key[x] \in Int /\ key[r] \in Int /\ key[s] \in Int
      OBVIOUS
    <3> QED
      BY <3>1
  <2> QED
    BY <2>1 DEF Ahead
<1>2. r \in Ahead(key, M, s) /\ r \notin Ahead(key, M, r)
  <2>1. key[r] \in Int
    OBVIOUS
  <2> QED
    BY <2>1 DEF Ahead
<1>3. IsFiniteSet(Ahead(key, M, s))
  BY <1>1, FS_Subset
<1>4. /\ IsFiniteSet(Ahead(key, M, r))
      /\ Cardinality(Ahead(key, M, r)) <= Cardinality(Ahead(key, M, s))
      /\ Cardinality(Ahead(key, M, r)) # Cardinality(Ahead(key, M, s))
  BY <1>1, <1>2, <1>3, FS_Subset
<1>5. /\ Cardinality(Ahead(key, M, r)) \in Nat
      /\ Cardinality(Ahead(key, M, s)) \in Nat
  BY <1>3, <1>4, FS_CardinalityType
<1> QED
  BY <1>4, <1>5 DEF Rank

LEMMA RankType ==
    ASSUME NEW M, IsFiniteSet(M), NEW key, NEW r
    PROVE  Rank(key, M, r) \in Nat /\ IsFiniteSet(Ahead(key, M, r))
<1>1. Ahead(key, M, r) \subseteq M
  BY DEF Ahead
<1>2. IsFiniteSet(Ahead(key, M, r))
  BY <1>1, FS_Subset
<1> QED
  BY <1>2, FS_CardinalityType DEF Rank

\* Rows that are added before or after never bring a row forward.
LEMMA RankGrows ==
    ASSUME NEW N, IsFiniteSet(N), NEW M \in SUBSET N, NEW key, NEW r
    PROVE  Rank(key, M, r) <= Rank(key, N, r)
<1>1. Ahead(key, M, r) \subseteq Ahead(key, N, r)
  BY DEF Ahead
<1> QED
  BY <1>1, RankType, FS_Subset DEF Rank

\* One that is removed brings a row forward by one place at most.
LEMMA RankOfOneLess ==
    ASSUME NEW M, IsFiniteSet(M), NEW key, NEW r, NEW x
    PROVE  Rank(key, M, r) <= Rank(key, M \ {x}, r) + 1
<1>1. Ahead(key, M, r) \ {x} = Ahead(key, M \ {x}, r)
  BY DEF Ahead
<1>2. IsFiniteSet(Ahead(key, M, r)) /\ Cardinality(Ahead(key, M, r)) \in Nat
  BY RankType DEF Rank
<1>3. \/ Cardinality(Ahead(key, M, r) \ {x}) = Cardinality(Ahead(key, M, r))
      \/ Cardinality(Ahead(key, M, r) \ {x}) = Cardinality(Ahead(key, M, r)) - 1
  BY <1>2, FS_RemoveElement
<1>4. /\ Rank(key, M, r) = Cardinality(Ahead(key, M, r))
      /\ Rank(key, M \ {x}, r) = Cardinality(Ahead(key, M, r) \ {x})
  BY <1>1 DEF Rank
<1> QED
  BY <1>2, <1>3, <1>4

\* What OFFSET skips has places before the offset, and what LIMIT leaves for later
\* places from the offset plus the limit on.
LEMMA PageHolds ==
    ASSUME NEW M, IsFiniteSet(M), NEW key \in [Rows -> Int], M \subseteq Rows,
           NEW offset \in Nat, NEW limit \in Nat \ {0},
           NEW S \in SUBSET M, NEW P \in SUBSET M, S \cap P = {},
           Cardinality(S) = AtMost(offset, Cardinality(M)),
           Cardinality(P) = AtMost(limit, Cardinality(M) - Cardinality(S)),
           \A s \in S, x \in M \ S : ~(key[x] < key[s]),
           \A p \in P, x \in M \ (S \cup P) : ~(key[x] < key[p]),
           NEW r \in M \ P, \A x \in M \ {r} : key[x] # key[r]
    PROVE  \/ Rank(key, M, r) < offset
           \/ Cardinality(P) = limit /\ Rank(key, M, r) >= offset + limit
<1>1. /\ IsFiniteSet(S) /\ IsFiniteSet(P)
      /\ Cardinality(S) \in Nat /\ Cardinality(P) \in Nat /\ Cardinality(M) \in Nat
      /\ Cardinality(S) <= Cardinality(M)
  BY FS_Subset, FS_CardinalityType
<1>2. Rank(key, M, r) \in Nat /\ IsFiniteSet(Ahead(key, M, r))
  BY RankType
<1>3. \A x \in M : key[x] \in Int
  OBVIOUS
<1>4. CASE r \in S
  <2>1. Ahead(key, M, r) \subseteq S \ {r}
    <3>1. \A x \in M \ S : ~(key[x] < key[r])
      BY <1>4
    <3>2. ~(key[r] < key[r])
      BY <1>3
    <3> QED
      BY <3>1, <3>2 DEF Ahead
  <2>2. IsFiniteSet(S \ {r}) /\ Cardinality(S \ {r}) = Cardinality(S) - 1
    BY <1>1, <1>4, FS_RemoveElement
  <2>3. Rank(key, M, r) <= Cardinality(S) - 1
    BY <2>1, <2>2, FS_Subset DEF Rank
  <2>4. Cardinality(S) <= offset
    BY <1>1 DEF AtMost
  <2> QED
    BY <1>1, <1>2, <2>3, <2>4
<1>5. CASE r \notin S
  <2>1. S \cup P \subseteq Ahead(key, M, r)
    <3>1. ASSUME NEW x \in S \cup P
          PROVE  key[x] < key[r]
      <4>1. x \in M \ {r} /\ r \in M \ (S \cup P)
        BY <1>5, <3>1
      <4>2. ~(key[r] < key[x]) /\ key[x] # key[r]
        BY <3>1, <4>1
      <4> QED
        BY <1>3, <4>1, <4>2
    <3> QED
      BY <3>1 DEF Ahead
  <2>2. Cardinality(S \cup P) = Cardinality(S) + Cardinality(P)
    <3>1. Cardinality(S \cup P) = Cardinality(S) + Cardinality(P) - Cardinality(S \cap P)
      BY <1>1, FS_Union
    <3>2. Cardinality(S \cap P) = 0
      BY FS_EmptySet
    <3> QED
      BY <1>1, <3>1, <3>2
  <2>3. Cardinality(S) + Cardinality(P) <= Rank(key, M, r)
    BY <1>2, <2>1, <2>2, FS_Subset DEF Rank
  <2>4. Rank(key, M, r) < Cardinality(M)
    <3>1. Ahead(key, M, r) \subseteq M \ {r}
      BY <1>3 DEF Ahead
    <3>2. IsFiniteSet(M \ {r}) /\ Cardinality(M \ {r}) = Cardinality(M) - 1
      BY FS_RemoveElement
    <3>3. Rank(key, M, r) <= Cardinality(M) - 1
      BY <3>1, <3>2, FS_Subset DEF Rank
    <3> QED
      BY <1>1, <1>2, <3>3
  <2>5. Cardinality(S) + Cardinality(P) < Cardinality(M)
    BY <1>1, <1>2, <2>3, <2>4
  <2>6. Cardinality(P) = limit
    BY <1>1, <2>5 DEF AtMost
  <2>7. Cardinality(S) = offset
    BY <1>1, <2>5, <2>6 DEF AtMost
  <2> QED
    BY <2>3, <2>6, <2>7
<1> QED
  BY <1>4, <1>5

--------------------------------------------------------------------------------
LEMMA QueryTypes ==
    /\ Queries \subseteq Query
    /\ \A q \in Query : SortColumn(q) \in SortColumns /\ q.ascending \in BOOLEAN
<1>1. \A batch \in Groups : BatchQuery(batch) \in Query
  BY DEF BatchQuery, Query
<1>2. TemplatesQuery \in Query
  BY DEF TemplatesQuery, Query
<1>3. Queries \subseteq Query
  BY <1>1, <1>2 DEF Queries, Query
<1>4. \A q \in Query : SortColumn(q) \in SortColumns /\ q.ascending \in BOOLEAN
  BY DEF SortColumn, SortColumns, Query
<1> QED
  BY <1>3, <1>4

\* A column that does not change gives every row a key for good.
LEMMA KeyFixed ==
    ASSUME NEW q \in Query, SortColumn(q) # "status"
    PROVE  /\ \A r \in Rows : SortKey(q, r) \in Int
           /\ \A r \in Rows : SortKey(q, r)' = SortKey(q, r)
           /\ Key(q) \in [Rows -> Int]
           /\ Key(q)' = Key(q)
           /\ \A r, s \in Rows : Before(q, r, s) <=> Key(q)[r] < Key(q)[s]
           /\ \A r, s \in Rows : Key(q)[r] = Key(q)[s] <=> SortKey(q, r) = SortKey(q, s)
<1>1. \A r \in Rows : SortKey(q, r) \in Int /\ SortKey(q, r)' = SortKey(q, r)
  <2>1. CASE SortColumn(q) = "created_at"
    <3>1. \A r \in Rows : SortKey(q, r) = CreatedAt[r] /\ SortKey(q, r)' = CreatedAt[r]
      BY <2>1 DEF SortKey
    <3> QED
      BY <3>1, ListingAssumption
  <2>2. CASE SortColumn(q) = "group"
    <3>1. \A r \in Rows : SortKey(q, r) = GroupOf[r] /\ SortKey(q, r)' = GroupOf[r]
      BY <2>2 DEF SortKey
    <3> QED
      BY <3>1, ListingAssumption
  <2> QED
    BY <2>1, <2>2, QueryTypes DEF SortColumns
<1>2. CASE q.ascending
  <2>1. Key(q) = [r \in Rows |-> SortKey(q, r)] /\ Key(q)' = [r \in Rows |-> SortKey(q, r)']
    BY <1>2 DEF Key
  <2>2. \A r, s \in Rows : Before(q, r, s) <=> SortKey(q, r) < SortKey(q, s)
    BY <1>2 DEF Before
  <2> QED
    BY <1>1, <2>1, <2>2
<1>3. CASE ~q.ascending
  <2>1. /\ Key(q) = [r \in Rows |-> 0 - SortKey(q, r)]
        /\ Key(q)' = [r \in Rows |-> 0 - SortKey(q, r)']
    BY <1>3 DEF Key
  <2>2. \A r, s \in Rows : Before(q, r, s) <=> SortKey(q, r) > SortKey(q, s)
    BY <1>3 DEF Before
  <2> QED
    BY <1>1, <2>1, <2>2
<1> QED
  BY <1>2, <1>3

LEMMA MatchingFinite ==
    ASSUME NEW q
    PROVE  /\ Matching(q) \subseteq Rows /\ IsFiniteSet(Matching(q))
           /\ Matching(q)' \subseteq Rows /\ IsFiniteSet(Matching(q)')
<1>1. Matching(q) \subseteq Rows /\ Matching(q)' \subseteq Rows
  BY DEF Matching
<1> QED
  BY <1>1, ListingAssumption, FS_Subset

LEMMA TypeInit == Init => TypeOK
<1> SUFFICES ASSUME Init PROVE TypeOK
  OBVIOUS
<1>1. PICK q \in Queries : walk = NoWalk(q)
  BY DEF Init
<1>2. q \in Query /\ 1 \in 1 .. MaxLimit
  BY QueryTypes, ListingAssumption
<1>3. walk \in Walk
  BY <1>1, <1>2 DEF NoWalk, Walk
<1> QED
  BY <1>3, ListingAssumption DEF Init, TypeOK

\* The limit that is used is one the code allows.
LEMMA LimitType == \A raw : ParseLimit(raw) \in 1 .. MaxLimit
  BY ListingAssumption DEF ParseLimit, AtMost

\* A walk begins at the start.
LEMMA FirstOffset == \A first \in RawOffsets : ParseOffset(first) = 0
  BY ListingAssumption DEF ParseOffset

LEMMA TypeStep == TypeOK /\ [Next]_vars => TypeOK'
<1> SUFFICES ASSUME TypeOK, [Next]_vars PROVE TypeOK'
  OBVIOUS
<1>1. walk \in Walk /\ MaxLimit \in Nat /\ walk.limit \in Nat
  BY ListingAssumption DEF TypeOK, Walk
<1>2. \A q : IsFiniteSet(Matching(q)) /\ Matching(q) \subseteq Rows
             /\ Cardinality(Matching(q)) \in Nat
  BY MatchingFinite, FS_CardinalityType
<1>3. ASSUME NEW raw, NEW hasty \in BOOLEAN, Ask(raw, hasty)
      PROVE  TypeOK'
  <2>1. /\ \A first \in RawOffsets : ParseOffset(first) \in Nat
        /\ ParseLimit(raw) \in 1 .. MaxLimit
    BY LimitType, FirstOffset
  <2>2. Matching(walk.query) \in SUBSET Rows
    BY <1>2
  <2>3. walk' \in Walk
    <3>1. PICK first \in RawOffsets :
             walk' = [walk EXCEPT !.pc     = "count",
                                  !.hasty  = hasty,
                                  !.offset = ParseOffset(first),
                                  !.limit  = ParseLimit(raw),
                                  !.owed   = Matching(walk.query)]
      BY <1>3 DEF Ask
    <3> QED
      BY <1>1, <2>1, <2>2, <3>1 DEF Walk
  <2> QED
    BY <1>3, <2>3 DEF Ask, TypeOK
<1>4. CASE Count
  <2>1. walk' \in Walk
    BY <1>1, <1>2, <1>4 DEF Count, Walk
  <2> QED
    BY <1>4, <2>1 DEF Count, TypeOK
<1>5. CASE Select
  <2>1. PICK page \in SUBSET Matching(walk.query) :
           \/ walk' = [walk EXCEPT !.pc = "done", !.seen = @ \cup page]
           \/ walk' = [walk EXCEPT !.pc     = "count",
                                   !.seen   = @ \cup page,
                                   !.offset = ParseOffset(@ + walk.limit)]
    BY <1>5 DEF Select
  <2>2. walk.seen \cup page \in SUBSET Rows
    BY <1>1, <1>2 DEF Walk
  <2>3. ParseOffset(walk.offset + walk.limit) \in Nat
    BY DEF ParseOffset
  <2>4. walk' \in Walk
    BY <1>1, <2>1, <2>2, <2>3 DEF Walk
  <2> QED
    BY <1>5, <2>4 DEF Select, TypeOK
<1>6. ASSUME NEW r \in Rows, Enters(r) \/ Leaves(r) \/ UNCHANGED walk
      PROVE  walk' \in Walk
  <2>1. CASE walk' = [walk EXCEPT !.late = @ + 1]
    BY <1>1, <2>1 DEF Walk
  <2>2. CASE walk' = [walk EXCEPT !.left = @ + 1, !.owed = @ \ {r}]
    <3>1. walk.owed \ {r} \in SUBSET Rows /\ walk.left + 1 \in Nat
      BY <1>1 DEF Walk
    <3> QED
      BY <1>1, <2>2, <3>1 DEF Walk
  <2> QED
    BY <1>1, <1>6, <2>1, <2>2 DEF Enters, Leaves
<1>7. ASSUME NEW r \in Rows, Insert(r) \/ Delete(r)
      PROVE  TypeOK'
  <2>1. walk' \in Walk
    BY <1>6, <1>7 DEF Insert, Delete
  <2> QED
    BY <1>7, <2>1 DEF Insert, Delete, TypeOK
<1>8. ASSUME NEW r \in Rows, NEW value \in Statuses, Update(r, value)
      PROVE  TypeOK'
  <2>1. walk' \in Walk
    BY <1>6, <1>8 DEF Update
  <2> QED
    BY <1>8, <2>1 DEF Update, TypeOK
<1>9. CASE UNCHANGED vars
  BY <1>9 DEF vars, TypeOK
<1> QED
  BY <1>3, <1>4, <1>5, <1>7, <1>8, <1>9 DEF Next

\* The limit in use is between 1 and the maximum, whatever clients send.
THEOREM ListingTypeCorrect == Spec => []TypeOK
<1> QED
  BY TypeInit, TypeStep, PTL DEF Spec

\* Rows enter the listing, which the walk only counts, or one leaves it.
LEMMA RowStepForms ==
    ASSUME TypeOK, NEW q \in Query, walk.query = q, Walking, Next, ~Count, ~Select
    PROVE  \/ /\ Matching(q) \subseteq Matching(q)'
              /\ walk' = walk \/ walk' = [walk EXCEPT !.late = @ + 1]
           \/ \E r \in Rows :
                 /\ Matching(q)' = Matching(q) \ {r}
                 /\ walk' = [walk EXCEPT !.left = @ + 1, !.owed = @ \ {r}]
<1>1. ASSUME NEW r \in Rows, Insert(r)
      PROVE  /\ Matching(q) \subseteq Matching(q)'
             /\ walk' = walk \/ walk' = [walk EXCEPT !.late = @ + 1]
  <2>1. Matching(q) \subseteq Matching(q)'
    BY <1>1 DEF Insert, Matching, Fits, TypeOK
  <2> QED
    BY <1>1, <2>1 DEF Insert, Enters
<1>2. ASSUME NEW r \in Rows, Delete(r)
      PROVE  /\ Matching(q)' = Matching(q) \ {r}
             /\ walk' = [walk EXCEPT !.left = @ + 1, !.owed = @ \ {r}]
  <2>1. Matching(q)' = Matching(q) \ {r}
    BY <1>2 DEF Delete, Matching, Fits, TypeOK
  <2> QED
    BY <1>2, <2>1 DEF Delete, Leaves
<1>3. ASSUME NEW r \in Rows, NEW value \in Statuses, Update(r, value)
      PROVE  \/ /\ Matching(q) \subseteq Matching(q)'
                /\ walk' = walk \/ walk' = [walk EXCEPT !.late = @ + 1]
             \/ /\ Matching(q)' = Matching(q) \ {r}
                /\ walk' = [walk EXCEPT !.left = @ + 1, !.owed = @ \ {r}]
  <2>1. /\ status' = [status EXCEPT ![r] = value] /\ UNCHANGED table
        /\ status \in [Rows -> Statuses]
    BY <1>3 DEF Update, TypeOK
  <2>2. \A s \in Rows \ {r} : s \in Matching(q)' <=> s \in Matching(q)
    BY <2>1 DEF Matching
  <2>3. CASE Fits(q, r, value) \/ ~Fits(q, r, status[r])
    <3>1. Matching(q) \subseteq Matching(q)'
      <4>1. r \in Matching(q) => r \in Matching(q)'
        BY <2>1, <2>3 DEF Matching
      <4>2. Matching(q) \subseteq Rows
        BY DEF Matching
      <4> QED
        BY <2>2, <4>1, <4>2
    <3>2. walk' = walk \/ walk' = [walk EXCEPT !.late = @ + 1]
      BY <1>3, <2>3 DEF Update, Enters
    <3> QED
      BY <3>1, <3>2
  <2>4. CASE Fits(q, r, status[r]) /\ ~Fits(q, r, value)
    <3>1. Matching(q)' = Matching(q) \ {r}
      <4>1. r \notin Matching(q)'
        BY <2>1, <2>4 DEF Matching
      <4>2. Matching(q) \subseteq Rows /\ Matching(q)' \subseteq Rows
        BY DEF Matching
      <4> QED
        BY <2>2, <4>1, <4>2
    <3>2. walk' = [walk EXCEPT !.left = @ + 1, !.owed = @ \ {r}]
      BY <1>3, <2>4 DEF Update, Leaves
    <3> QED
      BY <3>1, <3>2
  <2> QED
    BY <2>3, <2>4
<1>4. ~(\E raw \in RawLimits, hasty \in BOOLEAN : Ask(raw, hasty))
  BY DEF Ask, Walking
<1> QED
  BY <1>1, <1>2, <1>3, <1>4 DEF Next

--------------------------------------------------------------------------------
LEMMA PlacedFixed ==
    ASSUME NEW q \in Query
    PROVE  /\ Placed(q)' = Placed(q)
           /\ Placed(q) # {} =>
                 /\ SortColumn(q) # "status"
                 /\ \A r \in Placed(q) : \A s \in Rows \ {r} : Key(q)[s] # Key(q)[r]
<1>1. CASE SortColumn(q) = "status"
  BY <1>1 DEF Placed
<1>2. CASE SortColumn(q) # "status"
  <2>1. \A r \in Rows : SortKey(q, r)' = SortKey(q, r)
    BY <1>2, KeyFixed
  <2>2. \A r, s \in Rows : Key(q)[r] = Key(q)[s] <=> SortKey(q, r) = SortKey(q, s)
    BY <1>2, KeyFixed
  <2> QED
    BY <1>2, <2>1, <2>2 DEF Placed
<1> QED
  BY <1>1, <1>2

LEMMA PassedOverType ==
    ASSUME TypeOK, NEW q
    PROVE  /\ walk.owed \subseteq Rows
           /\ IsFiniteSet(PassedOver(q)) /\ Cardinality(PassedOver(q)) \in Nat
           /\ walk.left \in Nat /\ walk.offset \in Nat /\ walk.limit \in Nat \ {0}
<1>1. walk.owed \subseteq Rows /\ walk.left \in Nat /\ walk.offset \in Nat
      /\ walk.limit \in Nat \ {0}
  BY ListingAssumption DEF TypeOK, Walk
<1>2. PassedOver(q) \subseteq Rows
  BY <1>1 DEF PassedOver
<1> QED
  BY <1>1, <1>2, ListingAssumption, FS_Subset, FS_CardinalityType

\* An order that does not change: a row whose place is fixed is passed over after
\* a step when its new rank is below the new offset.
LEMMA PassedOverNext ==
    ASSUME NEW q \in Query, NEW r \in PassedOver(q)'
    PROVE  /\ r \in (walk'.owed \cap Placed(q)) \ walk'.seen
           /\ SortColumn(q) # "status"
           /\ Key(q) \in [Rows -> Int]
           /\ Rank(Key(q), Matching(q)', r) < walk'.offset
<1>1. /\ r \in (walk'.owed \cap Placed(q)) \ walk'.seen
      /\ Rank(Key(q)', Matching(q)', r) < walk'.offset
  BY PlacedFixed DEF PassedOver, Rank, Ahead
<1>2. SortColumn(q) # "status"
  BY <1>1, PlacedFixed
<1> QED
  BY <1>1, <1>2, KeyFixed

\* Rows that enter bring no owed row before the offset; one that leaves brings one.
LEMMA RowsMove ==
    ASSUME TypeOK, NEW q \in Query, walk.query = q, Walking, OnTheWay(q),
           Next, ~Count, ~Select
    PROVE  OnTheWay(q)'
<1>1. /\ IsFiniteSet(Matching(q)) /\ Matching(q) \subseteq Rows
      /\ IsFiniteSet(Matching(q)') /\ Matching(q)' \subseteq Rows
  BY MatchingFinite
<1>2. /\ walk.owed \subseteq Matching(q) /\ Cardinality(PassedOver(q)) <= walk.left
      /\ walk \in Walk
  BY DEF OnTheWay, TypeOK
<1>3. CASE /\ Matching(q) \subseteq Matching(q)'
           /\ walk' = walk \/ walk' = [walk EXCEPT !.late = @ + 1]
  <2>1. /\ walk'.owed = walk.owed /\ walk'.seen = walk.seen
        /\ walk'.offset = walk.offset /\ walk'.left = walk.left
    BY <1>2, <1>3 DEF Walk
  <2>2. PassedOver(q)' \subseteq PassedOver(q)
    <3>1. ASSUME NEW r \in PassedOver(q)'
          PROVE  r \in PassedOver(q)
      <4>1. /\ r \in (walk.owed \cap Placed(q)) \ walk.seen
            /\ Rank(Key(q), Matching(q)', r) < walk.offset
        BY <2>1, <3>1, PassedOverNext
      <4>2. Rank(Key(q), Matching(q), r) <= Rank(Key(q), Matching(q)', r)
        BY <1>1, <1>3, RankGrows
      <4>3. Rank(Key(q), Matching(q), r) \in Nat /\ Rank(Key(q), Matching(q)', r) \in Nat
        BY <1>1, RankType
      <4>4. Rank(Key(q), Matching(q), r) < walk.offset
        BY <4>1, <4>2, <4>3, PassedOverType
      <4> QED
        BY <4>1, <4>4 DEF PassedOver
    <3> QED
      BY <3>1
  <2>3. IsFiniteSet(PassedOver(q)') /\ Cardinality(PassedOver(q)') <= Cardinality(PassedOver(q))
    BY <2>2, PassedOverType, FS_Subset
  <2>4. Cardinality(PassedOver(q)') \in Nat
    BY <2>3, FS_CardinalityType
  <2>5. Cardinality(PassedOver(q)') <= walk'.left
    BY <1>2, <2>1, <2>3, <2>4, PassedOverType
  <2>6. walk'.owed \subseteq Matching(q)'
    BY <1>2, <1>3, <2>1
  <2> QED
    BY <2>5, <2>6 DEF OnTheWay
<1>4. ASSUME NEW x \in Rows,
             Matching(q)' = Matching(q) \ {x},
             walk' = [walk EXCEPT !.left = @ + 1, !.owed = @ \ {x}]
      PROVE  OnTheWay(q)'
  <2> DEFINE Next1 == {r \in (walk.owed \cap Placed(q)) \ walk.seen :
                          Rank(Key(q), Matching(q), r) = walk.offset}
  <2>1. /\ walk'.owed = walk.owed \ {x} /\ walk'.seen = walk.seen
        /\ walk'.offset = walk.offset /\ walk'.left = walk.left + 1
    BY <1>2, <1>4 DEF Walk
  <2>2. PassedOver(q)' \subseteq PassedOver(q) \cup Next1
    <3>1. ASSUME NEW r \in PassedOver(q)'
          PROVE  r \in PassedOver(q) \cup Next1
      <4>1. /\ r \in (walk.owed \cap Placed(q)) \ walk.seen
            /\ Rank(Key(q), Matching(q) \ {x}, r) < walk.offset
        BY <1>4, <2>1, <3>1, PassedOverNext
      <4>2. Rank(Key(q), Matching(q), r) <= Rank(Key(q), Matching(q) \ {x}, r) + 1
        BY <1>1, RankOfOneLess
      <4>3. Rank(Key(q), Matching(q), r) \in Nat
        BY <1>1, RankType
      <4>4. Rank(Key(q), Matching(q) \ {x}, r) \in Nat
        BY <1>1, <1>4, RankType
      <4>5. \/ Rank(Key(q), Matching(q), r) < walk.offset
            \/ Rank(Key(q), Matching(q), r) = walk.offset
        BY <4>1, <4>2, <4>3, <4>4, PassedOverType
      <4> QED
        BY <4>1, <4>5 DEF PassedOver
    <3> QED
      BY <3>1
  <2>3. \A r, s \in Next1 : r = s
    <3>1. ASSUME NEW r \in Next1, NEW s \in Next1, r # s
          PROVE  FALSE
      <4>1. r \in Matching(q) /\ s \in Matching(q) /\ r \in Rows /\ s \in Rows
            /\ r \in Placed(q) /\ s \in Placed(q)
        BY <1>1, <1>2, <3>1
      <4>2. SortColumn(q) # "status"
        BY <4>1, PlacedFixed
      <4>3. Key(q) \in [Rows -> Int]
        BY <4>2, KeyFixed
      <4>4. Key(q)[s] # Key(q)[r]
        BY <3>1, <4>1, PlacedFixed
      <4>5. Key(q)[r] < Key(q)[s] \/ Key(q)[s] < Key(q)[r]
        <5>1. Key(q)[r] \in Int /\ Key(q)[s] \in Int
          BY <4>1, <4>3
        <5> QED
          BY <4>4, <5>1
      <4>6. \/ Rank(Key(q), Matching(q), r) < Rank(Key(q), Matching(q), s)
            \/ Rank(Key(q), Matching(q), s) < Rank(Key(q), Matching(q), r)
        BY <1>1, <4>1, <4>3, <4>5, RankStrict
      <4>7. Rank(Key(q), Matching(q), r) = walk.offset /\ Rank(Key(q), Matching(q), s) = walk.offset
        BY <3>1
      <4> QED
        BY <4>6, <4>7, PassedOverType
    <3> QED
      BY <3>1
  <2>4. /\ IsFiniteSet(PassedOver(q) \cup Next1)
        /\ Cardinality(PassedOver(q) \cup Next1) <= Cardinality(PassedOver(q)) + 1
    <3>1. CASE Next1 = {}
      <4>1. PassedOver(q) \cup Next1 = PassedOver(q)
        BY <3>1
      <4> QED
        BY <4>1, PassedOverType
    <3>2. CASE Next1 # {}
      <4>1. PICK r \in Next1 : TRUE
        BY <3>2
      <4>2. PassedOver(q) \cup Next1 = PassedOver(q) \cup {r}
        BY <2>3, <4>1
      <4>3. /\ IsFiniteSet(PassedOver(q) \cup {r})
            /\ \/ Cardinality(PassedOver(q) \cup {r}) = Cardinality(PassedOver(q))
               \/ Cardinality(PassedOver(q) \cup {r}) = Cardinality(PassedOver(q)) + 1
        BY PassedOverType, FS_AddElement
      <4> QED
        BY <4>2, <4>3, PassedOverType
    <3> QED
      BY <3>1, <3>2
  <2>5. /\ IsFiniteSet(PassedOver(q)')
        /\ Cardinality(PassedOver(q)') <= Cardinality(PassedOver(q) \cup Next1)
    BY <2>2, <2>4, FS_Subset
  <2>6. Cardinality(PassedOver(q)') \in Nat /\ Cardinality(PassedOver(q) \cup Next1) \in Nat
    BY <2>4, <2>5, FS_CardinalityType
  <2>7. Cardinality(PassedOver(q)') <= walk'.left
    BY <1>2, <2>1, <2>4, <2>5, <2>6, PassedOverType
  <2>8. walk'.owed \subseteq Matching(q)'
    BY <1>2, <1>4, <2>1
  <2> QED
    BY <2>7, <2>8 DEF OnTheWay
<1> QED
  BY <1>3, <1>4, RowStepForms

\* A row whose place is fixed and that is not on the page was passed over before,
\* or comes later; and nothing comes later than a short page.
LEMMA PageOfWalk ==
    ASSUME TypeOK, NEW q \in Query, OnTheWay(q),
           NEW skipped \in SUBSET Matching(q), NEW page \in SUBSET Matching(q),
           IsPage(q, walk.offset, walk.limit, skipped, page),
           NEW r \in (walk.owed \cap Placed(q)) \ (walk.seen \cup page)
    PROVE  \/ r \in PassedOver(q)
           \/ /\ Cardinality(page) = walk.limit
              /\ Rank(Key(q), Matching(q), r) >= walk.offset + walk.limit
<1>1. /\ IsFiniteSet(Matching(q)) /\ Matching(q) \subseteq Rows
      /\ walk.offset \in Nat /\ walk.limit \in Nat \ {0}
  BY MatchingFinite, PassedOverType
<1>2. r \in Matching(q) \ page /\ SortColumn(q) # "status"
  BY PlacedFixed DEF OnTheWay
<1>3. /\ Key(q) \in [Rows -> Int]
      /\ \A x, y \in Rows : Before(q, x, y) <=> Key(q)[x] < Key(q)[y]
  BY <1>2, KeyFixed
<1>4. \A x \in Matching(q) \ {r} : Key(q)[x] # Key(q)[r]
  BY <1>1, <1>2, PlacedFixed
<1>5. /\ skipped \cap page = {}
      /\ Cardinality(skipped) = AtMost(walk.offset, Cardinality(Matching(q)))
      /\ Cardinality(page) = AtMost(walk.limit, Cardinality(Matching(q)) - Cardinality(skipped))
  BY DEF IsPage
<1>6. \A s \in skipped, x \in Matching(q) \ skipped : ~(Key(q)[x] < Key(q)[s])
  <2>1. \A s \in skipped, x \in Matching(q) \ skipped : ~Before(q, x, s)
    BY DEF IsPage
  <2> QED
    BY <1>1, <1>3, <2>1
<1>7. \A p \in page, x \in Matching(q) \ (skipped \cup page) : ~(Key(q)[x] < Key(q)[p])
  <2>1. \A p \in page, x \in Matching(q) \ (skipped \cup page) : ~Before(q, x, p)
    BY DEF IsPage
  <2> QED
    BY <1>1, <1>3, <2>1
<1>8. \/ Rank(Key(q), Matching(q), r) < walk.offset
      \/ /\ Cardinality(page) = walk.limit
         /\ Rank(Key(q), Matching(q), r) >= walk.offset + walk.limit
  BY <1>1, <1>2, <1>3, <1>4, <1>5, <1>6, <1>7, PageHolds
<1> QED
  BY <1>8 DEF PassedOver

LEMMA MissedForms ==
    ASSUME NEW q \in Query
    PROVE  /\ walk.query = q => Missed = (walk.owed \cap Placed(q)) \ walk.seen
           /\ walk'.query = q => Missed' = (walk'.owed \cap Placed(q)) \ walk'.seen
<1>1. walk.query = q => Missed = (walk.owed \cap Placed(q)) \ walk.seen
  BY DEF Missed
<1>2. walk'.query = q => Missed' = (walk'.owed \cap Placed(q)') \ walk'.seen
  BY DEF Missed, Placed, SortKey
<1> QED
  BY <1>1, <1>2, PlacedFixed

\* A walk begins with every row ahead.
LEMMA WalkBegins ==
    ASSUME TypeOK, NEW q \in Query, walk.query = q,
           NEW raw \in RawLimits, NEW hasty \in BOOLEAN, Ask(raw, hasty)
    PROVE  OnTheWay(q)'
<1>1. \A first \in RawOffsets : ParseOffset(first) = 0
  BY FirstOffset
<1>2. /\ walk'.owed = Matching(q) /\ walk'.offset = 0 /\ walk'.left = walk.left
      /\ Matching(q)' = Matching(q)
  BY <1>1 DEF Ask, TypeOK, Walk, Matching
<1>3. PassedOver(q)' = {}
  <2>1. ASSUME NEW r \in PassedOver(q)'
        PROVE  FALSE
    <3>1. Rank(Key(q), Matching(q), r) < 0
      BY <1>2, <2>1, PassedOverNext
    <3>2. Rank(Key(q), Matching(q), r) \in Nat
      BY MatchingFinite, RankType
    <3> QED
      BY <3>1, <3>2
  <2> QED
    BY <2>1
<1>4. Cardinality(PassedOver(q)') = 0
  BY <1>3, FS_EmptySet
<1>5. Cardinality(PassedOver(q)') <= walk'.left
  BY <1>2, <1>4, PassedOverType
<1> QED
  BY <1>2, <1>5 DEF OnTheWay

\* A page brings the walk forward, and nobody owed is left behind.
LEMMA WalkContinues ==
    ASSUME TypeOK, NEW q \in Query, walk.query = q, walk.pc = "select", OnTheWay(q), Select,
           walk'.pc # "done"
    PROVE  OnTheWay(q)'
<1>1. PICK skipped, page \in SUBSET Matching(q) :
         /\ IsPage(q, walk.offset, walk.limit, skipped, page)
         /\ walk' = [walk EXCEPT !.pc     = "count",
                                 !.seen   = @ \cup page,
                                 !.offset = ParseOffset(@ + walk.limit)]
  BY DEF Select, TypeOK, Walk
<1>2. /\ walk.offset \in Nat /\ walk.limit \in Nat \ {0} /\ walk.left \in Nat
      /\ walk \in Walk
  BY PassedOverType DEF TypeOK
<1>3. ParseOffset(walk.offset + walk.limit) = walk.offset + walk.limit
  BY <1>2 DEF ParseOffset
<1>4. /\ walk'.owed = walk.owed /\ walk'.seen = walk.seen \cup page
      /\ walk'.offset = walk.offset + walk.limit /\ walk'.left = walk.left
  BY <1>1, <1>2, <1>3 DEF Walk
<1>5. Matching(q)' = Matching(q)
  BY DEF Select, Matching
<1>6. PassedOver(q)' \subseteq PassedOver(q)
  <2>1. ASSUME NEW r \in PassedOver(q)'
        PROVE  r \in PassedOver(q)
    <3>1. /\ r \in (walk.owed \cap Placed(q)) \ (walk.seen \cup page)
          /\ Rank(Key(q), Matching(q), r) < walk.offset + walk.limit
      BY <1>4, <1>5, <2>1, PassedOverNext
    <3>2. Rank(Key(q), Matching(q), r) \in Nat
      BY MatchingFinite, RankType
    <3>3. ~(Rank(Key(q), Matching(q), r) >= walk.offset + walk.limit)
      BY <1>2, <3>1, <3>2
    <3> QED
      BY <1>1, <3>1, <3>3, PageOfWalk
  <2> QED
    BY <2>1
<1>7. IsFiniteSet(PassedOver(q)') /\ Cardinality(PassedOver(q)') <= Cardinality(PassedOver(q))
  BY <1>6, PassedOverType, FS_Subset
<1>8. Cardinality(PassedOver(q)') \in Nat
  BY <1>7, FS_CardinalityType
<1>9. Cardinality(PassedOver(q)') <= walk'.left
  BY <1>2, <1>4, <1>7, <1>8, PassedOverType DEF OnTheWay
<1> QED
  BY <1>4, <1>5, <1>9 DEF OnTheWay

\* After a short page only what was passed over is missing.
LEMMA WalkEnds ==
    ASSUME TypeOK, NEW q \in Query, walk.query = q, OnTheWay(q), Select,
           walk'.pc = "done", ~walk'.hasty
    PROVE  Cardinality(Missed') <= walk'.left
<1>1. PICK skipped, page \in SUBSET Matching(q) :
         /\ IsPage(q, walk.offset, walk.limit, skipped, page)
         /\ LastPage(page)
         /\ walk' = [walk EXCEPT !.pc = "done", !.seen = @ \cup page]
  BY DEF Select, TypeOK, Walk
<1>2. /\ walk'.owed = walk.owed /\ walk'.seen = walk.seen \cup page
      /\ walk'.query = q /\ walk'.left = walk.left /\ walk'.hasty = walk.hasty
      /\ walk.left \in Nat
  BY <1>1 DEF TypeOK, Walk
<1>3. Cardinality(page) < walk.limit /\ walk.limit \in Nat
  BY <1>1, <1>2, PassedOverType DEF LastPage
<1>4. Missed' \subseteq PassedOver(q)
  <2>1. ASSUME NEW r \in Missed'
        PROVE  r \in PassedOver(q)
    <3>1. r \in (walk.owed \cap Placed(q)) \ (walk.seen \cup page)
      BY <1>2, <2>1, MissedForms
    <3>2. Cardinality(page) # walk.limit
      <4>1. IsFiniteSet(page)
        BY MatchingFinite, FS_Subset
      <4>2. Cardinality(page) \in Nat
        BY <4>1, FS_CardinalityType
      <4> QED
        BY <1>3, <4>2
    <3> QED
      BY <1>1, <3>1, <3>2, PageOfWalk
  <2> QED
    BY <2>1
<1>5. IsFiniteSet(Missed') /\ Cardinality(Missed') <= Cardinality(PassedOver(q))
  BY <1>4, PassedOverType, FS_Subset
<1>6. Cardinality(Missed') \in Nat
  BY <1>5, FS_CardinalityType
<1> QED
  BY <1>2, <1>5, <1>6, PassedOverType DEF OnTheWay

\* Nothing happens to a walk, or to what it misses, while it is not on its way.
LEMMA WalkRests ==
    ASSUME TypeOK, NEW q \in Query, walk'.query = q, walk' = walk
    PROVE  /\ Missed' = Missed
           /\ ShortPageMissesOnlyLeavers => ShortPageMissesOnlyLeavers'
<1>1. Missed' = Missed
  BY MissedForms
<1> QED
  BY <1>1 DEF ShortPageMissesOnlyLeavers

LEMMA WalkInit == Init => WalkInv
<1> SUFFICES ASSUME Init PROVE WalkInv
  OBVIOUS
<1>1. PICK q \in Queries : walk = NoWalk(q)
  BY DEF Init
<1>2. walk.pc = "idle"
  BY <1>1 DEF NoWalk
<1> QED
  BY <1>2, TypeInit DEF WalkInv, Walking, ShortPageMissesOnlyLeavers

LEMMA WalkStep == WalkInv /\ [Next]_vars => WalkInv'
<1> SUFFICES ASSUME WalkInv, [Next]_vars PROVE WalkInv'
  OBVIOUS
<1>1. TypeOK /\ TypeOK' /\ walk \in Walk /\ walk' \in Walk
  BY TypeStep DEF WalkInv, TypeOK
<1>2. ASSUME NEW q \in Query, walk'.query = q
      PROVE  (Walking' => OnTheWay(q)') /\ ShortPageMissesOnlyLeavers'
  <2>1. ASSUME NEW raw \in RawLimits, NEW hasty \in BOOLEAN, Ask(raw, hasty)
        PROVE  (Walking' => OnTheWay(q)') /\ ShortPageMissesOnlyLeavers'
    <3>1. walk.query = q /\ walk'.pc = "count"
      BY <1>1, <1>2, <2>1 DEF Ask, Walk
    <3> QED
      BY <1>1, <2>1, <3>1, WalkBegins DEF ShortPageMissesOnlyLeavers
  <2>2. CASE Count
    <3>1. /\ walk.query = q /\ walk.pc = "count" /\ walk'.pc = "select"
          /\ walk'.owed = walk.owed /\ walk'.seen = walk.seen
          /\ walk'.offset = walk.offset /\ walk'.left = walk.left
      BY <1>1, <1>2, <2>2 DEF Count, Walk
    <3>2. OnTheWay(q)
      BY <3>1 DEF WalkInv, Walking
    <3>3. Matching(q)' = Matching(q)
      BY <2>2 DEF Count, Matching
    <3>4. PassedOver(q)' = PassedOver(q)
      <4>1. ASSUME SortColumn(q) # "status"
            PROVE  Key(q)' = Key(q)
        BY <4>1, KeyFixed
      <4>2. CASE SortColumn(q) = "status"
        <5>1. Placed(q) = {} /\ Placed(q)' = {}
          BY <4>2, PlacedFixed
        <5> QED
          BY <5>1 DEF PassedOver
      <4>3. CASE SortColumn(q) # "status"
        BY <3>1, <3>3, <4>1, <4>3, PlacedFixed DEF PassedOver, Rank, Ahead
      <4> QED
        BY <4>2, <4>3
    <3> QED
      BY <3>1, <3>2, <3>3, <3>4 DEF OnTheWay, ShortPageMissesOnlyLeavers
  <2>3. CASE Select
    <3>1. walk.query = q /\ walk.pc = "select" /\ walk'.pc \in {"count", "done"}
      BY <1>1, <1>2, <2>3 DEF Select, Walk
    <3>2. OnTheWay(q)
      BY <3>1 DEF WalkInv, Walking
    <3>3. Walking' => OnTheWay(q)'
      BY <1>1, <2>3, <3>1, <3>2, WalkContinues DEF Walking
    <3>4. ShortPageMissesOnlyLeavers'
      <4>1. walk'.pc = "done" /\ ~walk'.hasty => Cardinality(Missed') <= walk'.left
        BY <1>1, <2>3, <3>1, <3>2, WalkEnds
      <4> QED
        BY <4>1 DEF ShortPageMissesOnlyLeavers
    <3> QED
      BY <3>3, <3>4
  <2>4. CASE Next /\ ~Count /\ ~Select /\ Walking
    <3>1. walk.query = q /\ walk'.pc = walk.pc
      BY <1>1, <1>2, <2>4, RowStepForms DEF Walk
    <3>2. OnTheWay(q)
      BY <2>4, <3>1 DEF WalkInv
    <3>3. OnTheWay(q)'
      BY <1>1, <2>4, <3>1, <3>2, RowsMove
    <3> QED
      BY <2>4, <3>1, <3>3 DEF Walking, ShortPageMissesOnlyLeavers
  <2>5. ASSUME walk' = walk, ~Walking
        PROVE  (Walking' => OnTheWay(q)') /\ ShortPageMissesOnlyLeavers'
    BY <1>1, <1>2, <2>5, WalkRests DEF Walking, WalkInv
  <2>6. ASSUME Next, ~Walking, ~Count, ~Select,
               ~(\E raw \in RawLimits, hasty \in BOOLEAN : Ask(raw, hasty))
        PROVE  walk' = walk
    BY <2>6 DEF Next, Insert, Delete, Update, Enters, Leaves, Walking
  <2>7. CASE UNCHANGED vars
    <3>1. walk' = walk
      BY <2>7 DEF vars
    <3>2. CASE Walking
      <4>1. walk.query = q
        BY <1>2, <3>1
      <4>2. OnTheWay(q)
        BY <3>2, <4>1 DEF WalkInv
      <4>3. Matching(q)' = Matching(q) /\ Placed(q)' = Placed(q) /\ PassedOver(q)' = PassedOver(q)
        BY <2>7 DEF vars, Matching, Placed, SortKey, PassedOver, Rank, Ahead, Key
      <4> QED
        BY <3>1, <3>2, <4>2, <4>3 DEF OnTheWay, Walking, ShortPageMissesOnlyLeavers
    <3> QED
      BY <2>5, <3>1, <3>2
  <2> QED
    BY <2>1, <2>2, <2>3, <2>4, <2>5, <2>6, <2>7 DEF Next
<1>3. walk'.query \in Query
  BY <1>1 DEF Walk
<1> QED
  BY <1>1, <1>2, <1>3 DEF WalkInv

\* A client that pages to the first short page misses no more than what left the
\* listing while it walked, whatever was inserted and committed meanwhile.
THEOREM ShortPageMissesOnlyLeaversCorrect == Spec => []ShortPageMissesOnlyLeavers
<1>1. WalkInv => ShortPageMissesOnlyLeavers
  BY DEF WalkInv
<1> QED
  BY <1>1, WalkInit, WalkStep, PTL DEF Spec

--------------------------------------------------------------------------------
(***************************************************************************)
(* A client that stops at the total: what it did not ask for any more is   *)
(* what the total does not count.                                          *)
(***************************************************************************)
\* What the listing holds at the SELECT was counted, or entered after the COUNT.
Counted(q) == Cardinality(Matching(q)) <= walk.total + walk.late

\* TotalMissesOnlyLatecomers with what it needs to be inductive.
TotalInv ==
    /\ WalkInv
    /\ \A q \in Query : walk.query = q /\ walk.pc = "select" => Counted(q)
    /\ TotalMissesOnlyLatecomers

\* Between the COUNT and the SELECT a row that enters is counted as late.
LEMMA LateForms ==
    ASSUME TypeOK, NEW q \in Query, walk.query = q, walk.pc = "select", Next, ~Select
    PROVE  \/ /\ Matching(q)' \subseteq Matching(q)
              /\ walk'.total = walk.total /\ walk'.late = walk.late
           \/ \E r \in Rows :
                 /\ Matching(q)' \subseteq Matching(q) \cup {r}
                 /\ walk'.total = walk.total /\ walk'.late = walk.late + 1
<1>1. walk \in Walk /\ ~Count /\ Walking
  BY DEF TypeOK, Count, Walking
<1>2. ASSUME NEW r \in Rows, Insert(r)
      PROVE  \/ /\ Matching(q)' \subseteq Matching(q)
                /\ walk'.total = walk.total /\ walk'.late = walk.late
             \/ /\ Matching(q)' \subseteq Matching(q) \cup {r}
                /\ walk'.total = walk.total /\ walk'.late = walk.late + 1
  <2>1. Matching(q)' \subseteq Matching(q) \cup {r}
    BY <1>2 DEF Insert, Matching, Fits, TypeOK
  <2>2. CASE Fits(q, r, status[r])
    <3>1. walk' = [walk EXCEPT !.late = @ + 1]
      BY <1>2, <2>2 DEF Insert, Enters
    <3> QED
      BY <1>1, <2>1, <3>1 DEF Walk
  <2>3. CASE ~Fits(q, r, status[r])
    <3>1. walk' = walk /\ r \notin Matching(q)'
      BY <1>2, <2>3 DEF Insert, Matching, Fits
    <3> QED
      BY <2>1, <3>1
  <2> QED
    BY <2>2, <2>3
<1>3. ASSUME NEW r \in Rows, Delete(r)
      PROVE  /\ Matching(q)' \subseteq Matching(q)
             /\ walk'.total = walk.total /\ walk'.late = walk.late
  <2>1. Matching(q)' \subseteq Matching(q)
    BY <1>3 DEF Delete, Matching, Fits, TypeOK
  <2>2. walk' = [walk EXCEPT !.left = @ + 1, !.owed = @ \ {r}]
    BY <1>1, <1>3 DEF Delete, Leaves
  <2> QED
    BY <1>1, <2>1, <2>2 DEF Walk
<1>4. ASSUME NEW r \in Rows, NEW value \in Statuses, Update(r, value)
      PROVE  \/ /\ Matching(q)' \subseteq Matching(q)
                /\ walk'.total = walk.total /\ walk'.late = walk.late
             \/ /\ Matching(q)' \subseteq Matching(q) \cup {r}
                /\ walk'.total = walk.total /\ walk'.late = walk.late + 1
  <2>1. /\ status' = [status EXCEPT ![r] = value] /\ UNCHANGED table
        /\ status \in [Rows -> Statuses]
        /\ table[r] = "stored"
    BY <1>4 DEF Update, TypeOK
  <2>2. Matching(q)' \subseteq Matching(q) \cup {r}
    BY <2>1 DEF Matching
  <2>3. CASE ~Fits(q, r, status[r]) /\ Fits(q, r, value)
    <3>1. walk' = [walk EXCEPT !.late = @ + 1]
      BY <1>4, <2>3 DEF Update, Enters
    <3> QED
      BY <1>1, <2>2, <3>1 DEF Walk
  <2>4. CASE Fits(q, r, status[r]) \/ ~Fits(q, r, value)
    <3>1. Matching(q)' \subseteq Matching(q)
      <4>1. r \in Matching(q)' => r \in Matching(q)
        BY <2>1, <2>4 DEF Matching
      <4> QED
        BY <2>2, <4>1
    <3>2. walk' = walk \/ walk' = [walk EXCEPT !.left = @ + 1, !.owed = @ \ {r}]
      BY <1>4, <2>4 DEF Update, Leaves
    <3>3. walk'.total = walk.total /\ walk'.late = walk.late
      BY <1>1, <3>2 DEF Walk
    <3> QED
      BY <3>1, <3>3
  <2> QED
    BY <2>3, <2>4
<1>5. ~(\E raw \in RawLimits, hasty \in BOOLEAN : Ask(raw, hasty))
  BY DEF Ask
<1> QED
  BY <1>1, <1>2, <1>3, <1>4, <1>5 DEF Next

LEMMA CountedStays ==
    ASSUME TypeOK, NEW q \in Query, walk.query = q, walk.pc = "select", Next, ~Select,
           Counted(q)
    PROVE  Counted(q)'
<1>1. /\ IsFiniteSet(Matching(q)) /\ IsFiniteSet(Matching(q)')
      /\ Cardinality(Matching(q)) \in Nat /\ Cardinality(Matching(q)') \in Nat
      /\ walk.total \in Nat /\ walk.late \in Nat
  BY MatchingFinite, FS_CardinalityType DEF TypeOK, Walk
<1>2. CASE /\ Matching(q)' \subseteq Matching(q)
           /\ walk'.total = walk.total /\ walk'.late = walk.late
  <2>1. Cardinality(Matching(q)') <= Cardinality(Matching(q))
    BY <1>1, <1>2, FS_Subset
  <2> QED
    BY <1>1, <1>2, <2>1 DEF Counted
<1>3. ASSUME NEW r \in Rows,
             Matching(q)' \subseteq Matching(q) \cup {r},
             walk'.total = walk.total /\ walk'.late = walk.late + 1
      PROVE  Counted(q)'
  <2>1. /\ IsFiniteSet(Matching(q) \cup {r})
        /\ \/ Cardinality(Matching(q) \cup {r}) = Cardinality(Matching(q))
           \/ Cardinality(Matching(q) \cup {r}) = Cardinality(Matching(q)) + 1
    BY <1>1, FS_AddElement
  <2>2. Cardinality(Matching(q)') <= Cardinality(Matching(q) \cup {r})
    BY <1>3, <2>1, FS_Subset
  <2> QED
    BY <1>1, <1>3, <2>1, <2>2 DEF Counted
<1> QED
  BY <1>2, <1>3, LateForms

\* What OFFSET skips has places before the number of the rows skipped.
LEMMA SkippedRank ==
    ASSUME TypeOK, NEW q \in Query,
           NEW skipped \in SUBSET Matching(q), NEW page \in SUBSET Matching(q),
           IsPage(q, walk.offset, walk.limit, skipped, page),
           NEW r \in skipped, r \in Placed(q)
    PROVE  Rank(Key(q), Matching(q), r) < Cardinality(skipped)
<1>1. /\ IsFiniteSet(skipped) /\ Matching(q) \subseteq Rows
      /\ Cardinality(skipped) \in Nat
  BY MatchingFinite, FS_Subset, FS_CardinalityType
<1>2. SortColumn(q) # "status" /\ r \in Rows
  BY <1>1, PlacedFixed
<1>3. /\ Key(q) \in [Rows -> Int]
      /\ \A x, y \in Rows : Before(q, x, y) <=> Key(q)[x] < Key(q)[y]
  BY <1>2, KeyFixed
<1>4. Ahead(Key(q), Matching(q), r) \subseteq skipped \ {r}
  <2>1. \A x \in Matching(q) \ skipped : ~Before(q, x, r)
    BY DEF IsPage
  <2>2. \A x \in Matching(q) \ skipped : ~(Key(q)[x] < Key(q)[r])
    BY <1>1, <1>2, <1>3, <2>1
  <2>3. ~(Key(q)[r] < Key(q)[r])
    <3>1. Key(q)[r] \in Int
      BY <1>2, <1>3
    <3> QED
      BY <3>1
  <2> QED
    BY <2>2, <2>3 DEF Ahead
<1>5. IsFiniteSet(skipped \ {r}) /\ Cardinality(skipped \ {r}) = Cardinality(skipped) - 1
  BY <1>1, FS_RemoveElement
<1>6. Cardinality(Ahead(Key(q), Matching(q), r)) <= Cardinality(skipped) - 1
  BY <1>4, <1>5, FS_Subset
<1>7. Rank(Key(q), Matching(q), r) \in Nat
  BY MatchingFinite, RankType
<1> QED
  BY <1>1, <1>6, <1>7 DEF Rank

\* At the last page what is missing was passed over before, or lies beyond a full
\* page, where there are no more rows than the total does not count.
LEMMA TotalEnds ==
    ASSUME TypeOK, NEW q \in Query, walk.query = q, OnTheWay(q), Counted(q), Select,
           walk'.pc = "done"
    PROVE  Cardinality(Missed') <= walk'.left + walk'.late
<1>1. PICK skipped, page \in SUBSET Matching(q) :
         /\ IsPage(q, walk.offset, walk.limit, skipped, page)
         /\ LastPage(page)
         /\ walk' = [walk EXCEPT !.pc = "done", !.seen = @ \cup page]
  BY DEF Select, TypeOK, Walk
<1>2. /\ walk'.owed = walk.owed /\ walk'.seen = walk.seen \cup page
      /\ walk'.query = q /\ walk'.left = walk.left /\ walk'.late = walk.late
      /\ walk.left \in Nat /\ walk.late \in Nat /\ walk.total \in Nat
      /\ walk.offset \in Nat /\ walk.limit \in Nat \ {0}
  BY <1>1, PassedOverType DEF TypeOK, Walk
<1>3. /\ IsFiniteSet(Matching(q)) /\ Matching(q) \subseteq Rows
      /\ IsFiniteSet(page) /\ IsFiniteSet(skipped)
      /\ Cardinality(Matching(q)) \in Nat /\ Cardinality(page) \in Nat
      /\ Cardinality(skipped) \in Nat
  BY MatchingFinite, FS_Subset, FS_CardinalityType
<1> DEFINE beyond == {r \in (walk.owed \cap Placed(q)) \ (walk.seen \cup page) :
                         r \notin PassedOver(q)}
<1>4. Missed' \subseteq PassedOver(q) \cup beyond
  BY <1>2, MissedForms
<1>5. beyond # {} => Cardinality(page) = walk.limit
  BY <1>1, PageOfWalk
<1>6. IsFiniteSet(beyond) /\ Cardinality(beyond) <= walk.late
  <2>1. CASE beyond = {}
    BY <1>2, <2>1, FS_EmptySet
  <2>2. CASE beyond # {}
    <3>1. Cardinality(page) = walk.limit /\ walk.offset + walk.limit >= walk.total
      BY <1>1, <1>2, <1>5, <2>2 DEF LastPage
    <3>2. /\ Cardinality(skipped) = AtMost(walk.offset, Cardinality(Matching(q)))
          /\ Cardinality(page) = AtMost(walk.limit, Cardinality(Matching(q)) - Cardinality(skipped))
          /\ skipped \cap page = {}
      BY <1>1 DEF IsPage
    <3>3. Cardinality(skipped) = walk.offset
      BY <1>2, <1>3, <3>1, <3>2 DEF AtMost
    <3>4. beyond \cap skipped = {}
      <4>1. ASSUME NEW r \in beyond, r \in skipped
            PROVE  FALSE
        <5>1. Rank(Key(q), Matching(q), r) >= walk.offset + walk.limit
          BY <1>1, <4>1, PageOfWalk
        <5>2. Rank(Key(q), Matching(q), r) < Cardinality(skipped)
          BY <1>1, <4>1, SkippedRank
        <5>3. Rank(Key(q), Matching(q), r) \in Nat
          BY <1>3, RankType
        <5> QED
          BY <1>2, <3>3, <5>1, <5>2, <5>3
      <4> QED
        BY <4>1
    <3>5. beyond \subseteq Matching(q) \ (skipped \cup page)
      BY <3>4 DEF OnTheWay
    <3>6. Cardinality(skipped \cup page) = walk.offset + walk.limit
      <4>1. Cardinality(skipped \cup page)
               = Cardinality(skipped) + Cardinality(page) - Cardinality(skipped \cap page)
        BY <1>3, FS_Union
      <4>2. Cardinality(skipped \cap page) = 0
        BY <3>2, FS_EmptySet
      <4> QED
        BY <1>2, <3>1, <3>3, <4>1, <4>2
    <3>7. /\ IsFiniteSet(Matching(q) \ (skipped \cup page))
          /\ Cardinality(Matching(q) \ (skipped \cup page))
                = Cardinality(Matching(q)) - Cardinality(Matching(q) \cap (skipped \cup page))
      BY <1>3, FS_Difference
    <3>8. Matching(q) \cap (skipped \cup page) = skipped \cup page
      OBVIOUS
    <3>9. /\ IsFiniteSet(beyond)
          /\ Cardinality(beyond) <= Cardinality(Matching(q)) - (walk.offset + walk.limit)
      <4>1. Cardinality(Matching(q) \ (skipped \cup page))
               = Cardinality(Matching(q)) - (walk.offset + walk.limit)
        BY <3>6, <3>7, <3>8
      <4>2. /\ IsFiniteSet(beyond)
            /\ Cardinality(beyond) <= Cardinality(Matching(q) \ (skipped \cup page))
        <5> HIDE DEF beyond
        <5> QED
          BY <3>5, <3>7, FS_Subset
      <4> QED
        BY <4>1, <4>2
    <3>10. Cardinality(beyond) \in Nat
      BY <3>9, FS_CardinalityType
    <3> QED
      BY <1>2, <1>3, <3>1, <3>9, <3>10 DEF Counted
  <2> QED
    BY <2>1, <2>2
<1>7. /\ IsFiniteSet(PassedOver(q) \cup beyond)
      /\ Cardinality(PassedOver(q) \cup beyond) <= Cardinality(PassedOver(q)) + Cardinality(beyond)
  <2>1. /\ IsFiniteSet(PassedOver(q) \cup beyond)
        /\ Cardinality(PassedOver(q) \cup beyond)
              = Cardinality(PassedOver(q)) + Cardinality(beyond)
                   - Cardinality(PassedOver(q) \cap beyond)
    BY <1>6, PassedOverType, FS_Union
  <2>2. PassedOver(q) \cap beyond = {}
    OBVIOUS
  <2>3. Cardinality(PassedOver(q) \cap beyond) = 0
    BY <2>2, FS_EmptySet
  <2>4. Cardinality(PassedOver(q)) \in Nat /\ Cardinality(beyond) \in Nat
    BY <1>6, PassedOverType, FS_CardinalityType
  <2> QED
    BY <2>1, <2>3, <2>4
<1>8. IsFiniteSet(Missed') /\ Cardinality(Missed') <= Cardinality(PassedOver(q) \cup beyond)
  BY <1>4, <1>7, FS_Subset
<1>9. /\ Cardinality(Missed') \in Nat /\ Cardinality(PassedOver(q) \cup beyond) \in Nat
      /\ Cardinality(PassedOver(q)) \in Nat /\ Cardinality(beyond) \in Nat
  BY <1>6, <1>7, <1>8, PassedOverType, FS_CardinalityType
<1>10. Cardinality(PassedOver(q)) <= walk.left
  BY DEF OnTheWay
<1> QED
  BY <1>2, <1>6, <1>7, <1>8, <1>9, <1>10

LEMMA TotalInit == Init => TotalInv
<1> SUFFICES ASSUME Init PROVE TotalInv
  OBVIOUS
<1>1. PICK q \in Queries : walk = NoWalk(q)
  BY DEF Init
<1>2. walk.pc = "idle"
  BY <1>1 DEF NoWalk
<1> QED
  BY <1>2, WalkInit DEF TotalInv, TotalMissesOnlyLatecomers

LEMMA TotalStep == TotalInv /\ [Next]_vars => TotalInv'
<1> SUFFICES ASSUME TotalInv, [Next]_vars PROVE TotalInv'
  OBVIOUS
<1>1. /\ WalkInv /\ WalkInv' /\ TypeOK /\ TotalMissesOnlyLatecomers
      /\ walk \in Walk /\ walk' \in Walk
  BY WalkStep DEF TotalInv, WalkInv, TypeOK
<1>2. ASSUME NEW q \in Query, walk'.query = q
      PROVE  (walk'.pc = "select" => Counted(q)') /\ TotalMissesOnlyLatecomers'
  <2>1. ASSUME NEW raw \in RawLimits, NEW hasty \in BOOLEAN, Ask(raw, hasty)
        PROVE  walk'.pc = "count"
    BY <1>1, <2>1 DEF Ask, Walk
  <2>2. CASE Count
    <3>1. /\ walk.query = q /\ walk'.pc = "select" /\ walk'.late = 0
          /\ walk'.total = Cardinality(Matching(q))
      BY <1>1, <1>2, <2>2 DEF Count, Walk
    <3>2. Matching(q)' = Matching(q)
      BY <2>2 DEF Count, Matching
    <3>3. Cardinality(Matching(q)) \in Nat
      BY MatchingFinite, FS_CardinalityType
    <3>4. Counted(q)'
      BY <3>1, <3>2, <3>3 DEF Counted
    <3> QED
      BY <3>1, <3>4 DEF TotalMissesOnlyLatecomers
  <2>3. CASE Select
    <3>1. walk.query = q /\ walk.pc = "select" /\ walk'.pc \in {"count", "done"}
      BY <1>1, <1>2, <2>3 DEF Select, Walk
    <3>2. OnTheWay(q) /\ Counted(q)
      BY <1>1, <3>1 DEF WalkInv, TotalInv, Walking
    <3>3. walk'.pc = "done" => Cardinality(Missed') <= walk'.left + walk'.late
      BY <1>1, <2>3, <3>1, <3>2, TotalEnds
    <3> QED
      BY <3>1, <3>3 DEF TotalMissesOnlyLatecomers
  <2>4. CASE Next /\ ~Count /\ ~Select /\ Walking
    <3>1. walk.query = q /\ walk'.pc = walk.pc
      BY <1>1, <1>2, <2>4, RowStepForms DEF Walk
    <3>2. walk.pc = "select" => Counted(q)'
      BY <1>1, <2>4, <3>1, CountedStays DEF TotalInv
    <3> QED
      BY <2>4, <3>1, <3>2 DEF Walking, TotalMissesOnlyLatecomers
  <2>5. ASSUME walk' = walk, ~Walking
        PROVE  (walk'.pc = "select" => Counted(q)') /\ TotalMissesOnlyLatecomers'
    <3>1. Missed' = Missed
      BY <1>1, <1>2, <2>5, WalkRests
    <3> QED
      BY <1>1, <2>5, <3>1 DEF Walking, TotalMissesOnlyLatecomers
  <2>6. ASSUME Next, ~Walking, ~Count, ~Select,
               ~(\E raw \in RawLimits, hasty \in BOOLEAN : Ask(raw, hasty))
        PROVE  walk' = walk
    BY <2>6 DEF Next, Insert, Delete, Update, Enters, Leaves, Walking
  <2>7. CASE UNCHANGED vars
    <3>1. walk' = walk
      BY <2>7 DEF vars
    <3>2. CASE Walking
      <4>1. walk.query = q
        BY <1>2, <3>1
      <4>2. Matching(q)' = Matching(q)
        BY <2>7 DEF vars, Matching
      <4>3. walk.pc = "select" => Counted(q)'
        BY <3>1, <4>1, <4>2 DEF TotalInv, Counted
      <4> QED
        BY <3>1, <3>2, <4>3 DEF Walking, TotalMissesOnlyLatecomers
    <3> QED
      BY <2>5, <3>1, <3>2
  <2>8. walk'.pc = "count" =>
           (walk'.pc = "select" => Counted(q)') /\ TotalMissesOnlyLatecomers'
    BY DEF TotalMissesOnlyLatecomers
  <2> QED
    BY <2>1, <2>2, <2>3, <2>4, <2>5, <2>6, <2>7, <2>8 DEF Next
<1>3. walk'.query \in Query
  BY <1>1 DEF Walk
<1> QED
  BY <1>1, <1>2, <1>3 DEF TotalInv

\* A client that stops when the total is reached may also miss a row for each that
\* entered between the COUNT and the SELECT of its last page, and no more, however
\* many pages it asked for and whatever it sorts by.
THEOREM TotalMissesOnlyLatecomersCorrect == Spec => []TotalMissesOnlyLatecomers
<1>1. TotalInv => TotalMissesOnlyLatecomers
  BY DEF TotalInv
<1> QED
  BY <1>1, TotalInit, TotalStep, PTL DEF Spec
================================================================================
