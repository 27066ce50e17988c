--------------------------- MODULE Catalog_proofs ---------------------------
(***************************************************************************)
(* Proofs about Catalog, for any number of requests, keys, quantities and  *)
(* faults: what is stored is what was acknowledged, and a refusal that     *)
(* names another's row is true.                                            *)
(***************************************************************************)
EXTENDS Catalog, FiniteSetTheorems, TLAPS

-----------------------------------------------------------------------------
(* The invariant                                                           *)

Types ==
    /\ ask \in [Requests -> Asks]
    /\ rows \in [DOMAIN rows -> RowType]
    /\ at \in [Requests -> {"check", "insert", "update", "commit", "refresh", "done"}]
    /\ pending \in [Requests -> RowType \cup {None}]
    /\ answer \in [Requests -> Codes \cup {None}]
    /\ failed \in SUBSET Requests

\* A transaction holds a row from its write to its commit, one transaction per key.
OneWriter ==
    /\ \A r \in Requests : pending[r] # None <=> at[r] = "commit"
    /\ \A r, s \in Requests :
          pending[r] # None /\ pending[s] # None /\ ask[r].key = ask[s].key => r = s

\* `row' is what r has to write over what is committed: nobody else's change is lost.
WritesOver(r, row) ==
    \/ ask[r].key \notin DOMAIN rows /\ row = NewRow(r)
    \/ /\ ask[r].key \in DOMAIN rows
       /\ \/ /\ ask[r].kind = "adjust"
             /\ row = [rows[ask[r].key] EXCEPT !.available = @ + ask[r].amount]
          \/ /\ ask[r].kind = "threshold"
             /\ row = [rows[ask[r].key] EXCEPT !.threshold = ask[r].amount]

NothingLost == \A r \in Requests : pending[r] # None => WritesOver(r, pending[r])

\* How the answers go with the steps: an update is for a row that exists, a request is
\* answered when it is done, and an interrupted one is told INTERNAL_ERROR.
Answers ==
    /\ \A r \in Requests : at[r] = "update" => ask[r].key \in DOMAIN rows
    /\ \A r \in Requests : answer[r] # None <=> at[r] = "done"
    /\ \A r \in failed : answer[r] = "INTERNAL_ERROR"

\* The code says that somebody else's row is there.
RefusedForRow(r) ==
    \/ answer[r] \in {"DUPLICATE_SKU", "SKIPPED"}
    \/ answer[r] = "INVALID_REQUEST" /\ ask[r].kind = "register"
    \/ answer[r] = "INTERNAL_ERROR" /\ r \notin failed

RowStays == \A r \in Requests : RefusedForRow(r) => ask[r].key \in DOMAIN rows

Keys == DOMAIN rows \cup {ask[r].key : r \in Requests}

Effective(S) == Told("OK") \cup S \cup Committed

\* With S the interrupted requests that took effect, what is stored is what was done, and
\* a row is by a request that took effect or was there before.
Explains(S) ==
    /\ \A k \in Keys : Stores(k, Done(S, k))
    /\ \A k \in DOMAIN rows : rows[k].by \in Effective(S) \cup {None}

Discipline == Types /\ OneWriter /\ NothingLost /\ Answers /\ RowStays

CatalogInv == Discipline /\ \E S \in SUBSET failed : Explains(S)

-----------------------------------------------------------------------------
(* Facts about the operators                                               *)

LEMMA AskFacts ==
    ASSUME Types, NEW r \in Requests
    PROVE  /\ ask[r].amount \in Int
           /\ ask[r].kind = "threshold" => ask[r].amount \in Thresholds
           /\ ask[r].kind \in {"adjust", "threshold"} => ask[r].key \in Pairs
           /\ NewRow(r) \in RowType
<1>1. ask[r] \in Asks
  BY DEF Types
<1>2. /\ ask[r].amount \in Int
      /\ ask[r].kind = "threshold" => ask[r].amount \in Thresholds
      /\ ask[r].kind \in {"adjust", "threshold"} => ask[r].key \in Pairs
  <2>1. CASE ask[r] \in [kind: {"adjust"}, key: Pairs, amount: Quantities]
    BY <2>1, RequestsAssumption
  <2>2. CASE ask[r] \in [kind: {"threshold"}, key: Pairs, amount: Thresholds]
    <3>1. ask[r].kind = "threshold" /\ ask[r].key \in Pairs /\ ask[r].amount \in Thresholds
      BY <2>2
    <3>2. Thresholds \subseteq Int
      BY RequestsAssumption
    <3> QED
      BY <3>1, <3>2
  <2>3. CASE \/ ask[r] \in [kind: {"product"}, key: Skus, amount: {0}]
             \/ ask[r] \in [kind: {"register"}, key: Emails, amount: {0}]
             \/ ask[r] \in [kind: {"bootstrap"}, key: {DefaultAdmin}, amount: {0}]
             \/ ask[r] \in [kind: {"warehouse"}, key: Warehouses, amount: {0}]
    BY <2>3
  <2> QED
    BY <1>1, <2>1, <2>2, <2>3 DEF Asks
<1>3. NewRow(r) \in RowType
  BY <1>2 DEF NewRow, Row, RowType
<1> QED
  BY <1>2, <1>3

\* The units of finitely many requests are finitely many.
LEMMA UnionFinite ==
    ASSUME NEW R, IsFiniteSet(R), NEW f, \A r \in R : IsFiniteSet(f[r])
    PROVE  IsFiniteSet(UNION {f[r] : r \in R})
<1> DEFINE T == {f[r] : r \in R}
           g == [r \in R |-> f[r]]
<1>1. g \in Surjection(R, T)
  BY DEF Surjection
<1>2. IsFiniteSet(T)
  BY <1>1, FS_Surjection
<1> QED
  BY <1>2, FS_UNION

\* n units of one request are n, none if n is not positive.
LEMMA OneAsk ==
    ASSUME NEW r, NEW n \in Int
    PROVE  /\ IsFiniteSet({r} \X (1 .. n))
           /\ Cardinality({r} \X (1 .. n)) = IF n >= 1 THEN n ELSE 0
<1>1. IsFiniteSet(1 .. n) /\ Cardinality(1 .. n) = IF 1 > n THEN 0 ELSE n - 1 + 1
  BY FS_Interval
<1>2. IsFiniteSet({r}) /\ Cardinality({r}) = 1
  BY FS_Singleton
<1>3. /\ IsFiniteSet({r} \X (1 .. n))
      /\ Cardinality({r} \X (1 .. n)) = Cardinality({r}) * Cardinality(1 .. n)
  BY <1>1, <1>2, FS_Product, Zenon
<1>4. Cardinality({r} \X (1 .. n)) = 1 * (IF 1 > n THEN 0 ELSE n - 1 + 1)
  BY <1>1, <1>2, <1>3, Zenon
<1> QED
  BY <1>3, <1>4

LEMMA UnitsFinite ==
    ASSUME Types, NEW R \in SUBSET Requests
    PROVE  /\ IsFiniteSet(Added(R)) /\ Cardinality(Added(R)) \in Nat
           /\ IsFiniteSet(Removed(R)) /\ Cardinality(Removed(R)) \in Nat
<1> DEFINE f == [r \in Adjusts(R) |-> {r} \X (1 .. ask[r].amount)]
           g == [r \in Adjusts(R) |-> {r} \X (1 .. -ask[r].amount)]
<1>1. IsFiniteSet(Adjusts(R))
  BY RequestsAssumption, FS_Subset DEF Adjusts
<1>2. \A r, n : n \in Int => IsFiniteSet({r} \X (1 .. n))
  BY OneAsk
<1>3. \A r \in Adjusts(R) : r \in Requests /\ ask[r].amount \in Int /\ -ask[r].amount \in Int
  BY AskFacts DEF Adjusts
<1>4. \A r \in Adjusts(R) : IsFiniteSet(f[r]) /\ IsFiniteSet(g[r])
  BY <1>2, <1>3
<1>5. Added(R) = UNION {f[r] : r \in Adjusts(R)} /\ Removed(R) = UNION {g[r] : r \in Adjusts(R)}
  BY DEF Added, Removed
<1>6. IsFiniteSet(Added(R)) /\ IsFiniteSet(Removed(R))
  <2> HIDE DEF f, g
  <2> QED
    BY <1>1, <1>4, <1>5, UnionFinite
<1> QED
  BY <1>6, FS_CardinalityType

LEMMA TotalOfNone == Total({}) = 0 /\ Sets({}) = {}
<1>1. Added({}) = {} /\ Removed({}) = {}
  BY DEF Added, Removed, Adjusts
<1> QED
  BY <1>1, FS_EmptySet DEF Total, Sets

\* One more request adds its quantity if it is an adjustment, and its threshold if it sets
\* one.
LEMMA OneMore ==
    ASSUME Types, NEW R \in SUBSET Requests, NEW r \in Requests, r \notin R
    PROVE  /\ Total(R) \in Int
           /\ Total(R \cup {r}) = Total(R) + (IF ask[r].kind = "adjust" THEN ask[r].amount ELSE 0)
           /\ Sets(R \cup {r}) = Sets(R) \cup (IF ask[r].kind = "threshold"
                                               THEN {ask[r].amount} ELSE {})
<1>1. Sets(R \cup {r}) = Sets(R) \cup (IF ask[r].kind = "threshold"
                                       THEN {ask[r].amount} ELSE {})
  BY DEF Sets
<1>2. Total(R) \in Int
  BY UnitsFinite DEF Total
<1>3. CASE ask[r].kind # "adjust"
  <2>1. Adjusts(R \cup {r}) = Adjusts(R)
    BY <1>3 DEF Adjusts
  <2>2. Total(R \cup {r}) = Total(R)
    BY <2>1 DEF Total, Added, Removed
  <2> QED
    BY <1>1, <1>2, <1>3, <2>2
<1>4. CASE ask[r].kind = "adjust"
  <2> DEFINE Plus  == {r} \X (1 .. ask[r].amount)
             Minus == {r} \X (1 .. -ask[r].amount)
  <2>1. Adjusts(R \cup {r}) = Adjusts(R) \cup {r}
    BY <1>4 DEF Adjusts
  <2>2. Added(R \cup {r}) = Added(R) \cup Plus /\ Removed(R \cup {r}) = Removed(R) \cup Minus
    BY <2>1 DEF Added, Removed
  <2>3. Added(R) \cap Plus = {} /\ Removed(R) \cap Minus = {}
    BY DEF Added, Removed, Adjusts
  <2>4. ask[r].amount \in Int /\ -ask[r].amount \in Int
    BY AskFacts
  <2>6. /\ IsFiniteSet(Plus) /\ Cardinality(Plus) = IF ask[r].amount >= 1 THEN ask[r].amount ELSE 0
        /\ IsFiniteSet(Minus)
        /\ Cardinality(Minus) = IF -ask[r].amount >= 1 THEN -ask[r].amount ELSE 0
    BY <2>4, OneAsk
  <2>7. /\ Cardinality(Added(R) \cup Plus)
             = Cardinality(Added(R)) + Cardinality(Plus) - Cardinality({})
        /\ Cardinality(Removed(R) \cup Minus)
             = Cardinality(Removed(R)) + Cardinality(Minus) - Cardinality({})
    <3> HIDE DEF Plus, Minus
    <3> QED
      BY <2>3, <2>6, UnitsFinite, FS_Union
  <2>8. Total(R \cup {r}) = Total(R) + ask[r].amount
    <3>1. Cardinality({}) = 0
      BY FS_EmptySet
    <3>2. Cardinality(Added(R)) \in Nat /\ Cardinality(Removed(R)) \in Nat
      BY UnitsFinite
    <3>3. Cardinality(Plus) - Cardinality(Minus) = ask[r].amount
      BY <2>4, <2>6
    <3>4. Cardinality(Plus) \in Int /\ Cardinality(Minus) \in Int
      BY <2>4, <2>6
    <3>5. Total(R \cup {r}) = Cardinality(Added(R) \cup Plus) - Cardinality(Removed(R) \cup Minus)
      BY <2>2 DEF Total
    <3>6. Total(R) = Cardinality(Added(R)) - Cardinality(Removed(R))
      BY DEF Total
    <3> HIDE DEF Plus, Minus
    <3> QED
      BY <2>4, <2>7, <3>1, <3>2, <3>3, <3>4, <3>5, <3>6
  <2> QED
    BY <1>1, <1>2, <1>4, <2>8
<1> QED
  BY <1>3, <1>4

\* What a set of requests did depends only on what they asked.
LEMMA SameAsk ==
    ASSUME UNCHANGED ask, NEW S, NEW k, NEW D, Done(S, k)' = D
    PROVE  Total(Done(S, k))' = Total(D) /\ Sets(Done(S, k))' = Sets(D)
  BY DEF Total, Added, Removed, Adjusts, Sets

-----------------------------------------------------------------------------
(* The steps                                                               *)

LEMMA InitInv == Init => CatalogInv
<1> SUFFICES ASSUME Init PROVE CatalogInv
  OBVIOUS
<1>1. PICK K \in SUBSET (Skus \cup Warehouses) : rows = [k \in K |-> Row(None, 0, None)]
  BY DEF Init
<1>2. Row(None, 0, None) \in RowType
  BY DEF Row, RowType
<1>3. Types
  BY <1>1, <1>2 DEF Init, Types
<1>4. None # "OK" /\ None # "DUPLICATE_SKU" /\ None # "SKIPPED" /\ None # "INVALID_REQUEST"
      /\ None # "INTERNAL_ERROR"
  BY NoneAssumption DEF Codes
<1>5. Discipline
  BY <1>3, <1>4 DEF Init, Discipline, OneWriter, NothingLost, Answers, RowStays, RefusedForRow
<1>6. Effective({}) = {} /\ \A k : Done({}, k) = {}
  BY <1>4 DEF Init, Effective, Done, Told, Committed
<1>7. \A k \in Keys : Stores(k, {})
  BY <1>1, TotalOfNone DEF Stores, Row
<1>8. Explains({})
  BY <1>1, <1>6, <1>7 DEF Explains, Row
<1> QED
  BY <1>5, <1>8 DEF CatalogInv

\* A step that neither commits nor changes which requests took effect.
LEMMA QuietExplains ==
    ASSUME NEW S, NEW T, UNCHANGED <<rows, ask>>, Effective(T)' = Effective(S), Explains(S)
    PROVE  Explains(T)'
<1>1. \A k : Done(T, k)' = Done(S, k)
  BY DEF Done, Effective
<1>2. \A k : /\ Total(Done(T, k))' = Total(Done(S, k))
             /\ Sets(Done(T, k))' = Sets(Done(S, k))
  BY <1>1, SameAsk
<1>3. ASSUME NEW k \in Keys' PROVE Stores(k, Done(T, k))'
  <2>1. Stores(k, Done(S, k))
    BY <1>3 DEF Explains, Keys
  <2> QED
    BY <1>1, <1>2, <2>1 DEF Stores
<1> QED
  BY <1>3 DEF Explains

\* A check that passes.
LEMMA GoToKeeps ==
    ASSUME CatalogInv, NEW r \in Requests, NEW step \in {"insert", "update"},
           at[r] = "check", GoTo(r, step), step = "update" => Exists(ask[r].key),
           UNCHANGED <<rows, ask, failed>>
    PROVE  CatalogInv'
<1> USE DEF CatalogInv, Discipline
<1>1. Types'
  BY DEF GoTo, Types
<1>2. OneWriter'
  BY DEF GoTo, OneWriter, Types
<1>3. NothingLost'
  BY DEF GoTo, NothingLost, WritesOver, NewRow
<1>4. Answers'
  BY DEF GoTo, Answers, Exists, Types
<1>5. RowStays'
  BY DEF GoTo, RowStays, RefusedForRow
<1>6. PICK S \in SUBSET failed : Explains(S)
  OBVIOUS
<1>7. Effective(S)' = Effective(S)
  BY DEF GoTo, Effective, Told, Committed, Types
<1>8. Explains(S)'
  BY <1>6, <1>7, QuietExplains
<1> QED
  BY <1>1, <1>2, <1>3, <1>4, <1>5, <1>8

\* An answer: to a request that took effect, to one refused, or to one interrupted.
LEMMA ReplyKeeps ==
    ASSUME CatalogInv, NEW r \in Requests, NEW code \in Codes, at[r] # "done", Reply(r, code),
           UNCHANGED <<rows, ask>>,
           \/ failed' = failed /\ (code = "OK" <=> at[r] = "refresh")
           \/ failed' = failed \cup {r} /\ code = "INTERNAL_ERROR",
           RefusedForRow(r)' => ask[r].key \in DOMAIN rows
    PROVE  CatalogInv'
<1> USE DEF CatalogInv, Discipline
<1>1. Types'
  BY DEF Reply, Types
<1>2. /\ answer'[r] = code /\ at'[r] = "done" /\ pending'[r] = None
      /\ code # None
      /\ \A s \in Requests : s # r =>
            answer'[s] = answer[s] /\ at'[s] = at[s] /\ pending'[s] = pending[s]
  BY NoneAssumption DEF Reply, Types
<1>3. OneWriter'
  BY <1>2 DEF OneWriter
<1>4. NothingLost'
  BY <1>2 DEF NothingLost, WritesOver, NewRow
<1>5. r \notin failed
  BY NoneAssumption DEF Answers, Codes
<1>6. Answers'
  BY <1>2, <1>5 DEF Answers, Types
<1>7. RowStays'
  <2>1. \A s \in Requests : s # r => (s \in failed' <=> s \in failed)
    OBVIOUS
  <2> QED
    BY <1>2, <2>1 DEF RowStays, RefusedForRow
<1>8. PICK S \in SUBSET failed : Explains(S)
  OBVIOUS
<1>9. answer[r] = None /\ None # "OK"
  BY NoneAssumption DEF Answers, Codes
<1>10. CASE at[r] = "refresh" /\ failed' = failed \cup {r} /\ code = "INTERNAL_ERROR"
  <2>1. Effective(S \cup {r})' = Effective(S)
    BY <1>2, <1>9, <1>10 DEF Effective, Told, Committed
  <2>2. Explains(S \cup {r})'
    BY <1>8, <2>1, QuietExplains
  <2>3. S \cup {r} \in SUBSET failed'
    BY <1>10
  <2> QED
    BY <1>1, <1>3, <1>4, <1>6, <1>7, <2>2, <2>3
<1>11. CASE code = "OK" <=> at[r] = "refresh"
  <2>1. Effective(S)' = Effective(S)
    BY <1>2, <1>9, <1>11 DEF Effective, Told, Committed
  <2>2. Explains(S)'
    BY <1>8, <2>1, QuietExplains
  <2> QED
    BY <1>1, <1>3, <1>4, <1>6, <1>7, <2>2
<1> QED
  BY <1>10, <1>11

\* A statement that writes a row: it has waited for the others' rows of the same key.
LEMMA WriteKeeps ==
    ASSUME CatalogInv, NEW r \in Requests, NEW row \in RowType,
           at[r] \in {"insert", "update"}, ~Locked(r), Write(r, row), WritesOver(r, row)
    PROVE  CatalogInv'
<1> USE DEF CatalogInv, Discipline
<1>1. Types'
  BY DEF Write, Types
<1>2. /\ at'[r] = "commit" /\ pending'[r] = row /\ row # None
      /\ \A s \in Requests : s # r => at'[s] = at[s] /\ pending'[s] = pending[s]
      /\ UNCHANGED <<answer, failed, rows, ask>>
  BY NoneAssumption DEF Write, Types
<1>3. OneWriter'
  BY <1>2 DEF OneWriter, Locked
<1>4. NothingLost'
  BY <1>2 DEF NothingLost, WritesOver, NewRow
<1>5. Answers'
  BY <1>2 DEF Answers
<1>6. RowStays'
  BY <1>2 DEF RowStays, RefusedForRow
<1>7. PICK S \in SUBSET failed : Explains(S)
  OBVIOUS
<1>8. Effective(S)' = Effective(S)
  BY <1>2 DEF Effective, Told, Committed
<1>9. Explains(S)'
  BY <1>2, <1>7, <1>8, QuietExplains
<1> QED
  BY <1>1, <1>2, <1>3, <1>4, <1>5, <1>6, <1>9

\* What the committed row says, if r writes it over what the requests D did.
LEMMA WrittenRow ==
    ASSUME Types, NEW r \in Requests, NEW row, WritesOver(r, row),
           NEW D \in SUBSET Requests, r \notin D, Stores(ask[r].key, D)
    PROVE  /\ ask[r].key \notin Pairs => D \cup {r} = {row.by} \ {None}
           /\ ask[r].key \in Pairs =>
                 /\ row.available = Total(D \cup {r})
                 /\ row.threshold \in (IF Sets(D \cup {r}) = {} THEN {None} ELSE Sets(D \cup {r}))
           /\ row.by = r \/ (ask[r].key \in DOMAIN rows /\ row.by = rows[ask[r].key].by)
<1> DEFINE k == ask[r].key
<1>1. /\ Total(D) \in Int
      /\ Total(D \cup {r}) = Total(D) + (IF ask[r].kind = "adjust" THEN ask[r].amount ELSE 0)
      /\ Sets(D \cup {r}) = Sets(D) \cup (IF ask[r].kind = "threshold" THEN {ask[r].amount} ELSE {})
  BY OneMore
<1>2. /\ ask[r].amount \in Int
      /\ ask[r].kind \in {"adjust", "threshold"} => k \in Pairs
      /\ r # None
  BY AskFacts, NoneAssumption
<1>3. CASE k \notin DOMAIN rows
  <2>1. D = {} /\ row = NewRow(r)
    BY <1>3 DEF WritesOver, Stores
  <2>2. Total(D) = 0 /\ Sets(D) = {}
    BY <2>1, TotalOfNone
  <2>3. /\ row.by = r
        /\ row.available = IF ask[r].kind = "adjust" THEN ask[r].amount ELSE 0
        /\ row.threshold = IF ask[r].kind = "threshold" THEN ask[r].amount ELSE None
    BY <2>1 DEF NewRow, Row
  <2>4. row.available = Total(D \cup {r})
    BY <1>1, <1>2, <2>2, <2>3
  <2>5. Sets(D \cup {r}) = IF ask[r].kind = "threshold" THEN {ask[r].amount} ELSE {}
    BY <1>1, <2>2
  <2>6. row.threshold \in (IF Sets(D \cup {r}) = {} THEN {None} ELSE Sets(D \cup {r}))
    BY <2>3, <2>5
  <2>7. D \cup {r} = {row.by} \ {None}
    BY <1>2, <2>1, <2>3
  <2> QED
    BY <2>3, <2>4, <2>6, <2>7
<1>4. CASE k \in DOMAIN rows
  <2>1. k \in Pairs /\ rows[k] \in RowType
    BY <1>2, <1>4 DEF WritesOver, Types
  <2>2. rows[k].available = Total(D)
        /\ rows[k].threshold \in (IF Sets(D) = {} THEN {None} ELSE Sets(D))
    BY <1>4, <2>1 DEF Stores
  <2>3. CASE ask[r].kind = "adjust" /\ row = [rows[k] EXCEPT !.available = @ + ask[r].amount]
    <3>1. /\ row.by = rows[k].by /\ row.threshold = rows[k].threshold
          /\ row.available = rows[k].available + ask[r].amount
      BY <2>1, <2>3 DEF RowType
    <3> QED
      BY <1>1, <1>4, <2>1, <2>2, <2>3, <3>1
  <2>4. CASE ask[r].kind = "threshold" /\ row = [rows[k] EXCEPT !.threshold = ask[r].amount]
    <3>1. /\ row.by = rows[k].by /\ row.available = rows[k].available
          /\ row.threshold = ask[r].amount
      BY <2>1, <2>4 DEF RowType
    <3>2. row.available = Total(D \cup {r})
      BY <1>1, <2>2, <2>4, <3>1
    <3>3. Sets(D \cup {r}) = Sets(D) \cup {ask[r].amount}
      BY <1>1, <2>4
    <3>4. row.threshold \in (IF Sets(D \cup {r}) = {} THEN {None} ELSE Sets(D \cup {r}))
      BY <3>1, <3>3
    <3> QED
      BY <1>4, <2>1, <3>1, <3>2, <3>4
  <2> QED
    BY <1>4, <2>3, <2>4 DEF WritesOver
<1> QED
  BY <1>3, <1>4

\* The commit: one more request has taken effect, and no other writer's row is touched.
LEMMA CommitKeeps ==
    ASSUME CatalogInv, NEW r \in Requests, Commit(r)
    PROVE  CatalogInv'
<1> USE DEF CatalogInv, Discipline
<1>1. /\ DOMAIN rows' = DOMAIN rows \cup {ask[r].key}
      /\ rows'[ask[r].key] = pending[r]
      /\ \A k \in DOMAIN rows : k # ask[r].key => rows'[k] = rows[k]
      /\ rows' = [k \in DOMAIN rows' |-> rows'[k]]
      /\ UNCHANGED <<ask, failed>>
  BY DEF Commit
<1>2. /\ at[r] = "commit" /\ pending[r] # None /\ pending[r] \in RowType
      /\ answer[r] = None /\ r \notin failed
  BY NoneAssumption DEF Commit, OneWriter, Types, Answers, Codes
<1>3. /\ pending'[r] = None
      /\ \/ at'[r] = "refresh" /\ answer'[r] = answer[r]
         \/ at'[r] = "done" /\ answer'[r] = "OK"
      /\ \A s \in Requests : s # r =>
            answer'[s] = answer[s] /\ at'[s] = at[s] /\ pending'[s] = pending[s]
  BY DEF Commit, Types
<1>4. Types'
  <2>1. \A k \in DOMAIN rows' : rows'[k] \in RowType
    BY <1>1, <1>2 DEF Types
  <2>2. rows' \in [DOMAIN rows' -> RowType]
    BY <1>1, <2>1
  <2>3. at' \in [Requests -> {"check", "insert", "update", "commit", "refresh", "done"}]
    BY DEF Commit, Types
  <2>4. pending' \in [Requests -> RowType \cup {None}]
    BY DEF Commit, Types
  <2>5. answer' \in [Requests -> Codes \cup {None}]
    BY DEF Commit, Types, Codes
  <2> QED
    BY <1>1, <2>2, <2>3, <2>4, <2>5 DEF Types
<1>5. OneWriter'
  BY <1>1, <1>3 DEF OneWriter
<1>6. NothingLost'
  <2> SUFFICES ASSUME NEW s \in Requests, pending'[s] # None
               PROVE  WritesOver(s, pending[s])'
    BY DEF NothingLost
  <2>1. s # r /\ pending'[s] = pending[s] /\ pending[s] # None /\ ask[s].key # ask[r].key
    BY <1>2, <1>3 DEF OneWriter
  <2>2. WritesOver(s, pending[s])
    BY <2>1 DEF NothingLost
  <2> QED
    BY <1>1, <2>1, <2>2 DEF WritesOver, NewRow
<1>7. Answers'
  <2>1. None # "OK"
    BY NoneAssumption DEF Codes
  <2>2. \A s \in Requests : at'[s] = "update" => ask'[s].key \in DOMAIN rows'
    BY <1>1, <1>3 DEF Answers
  <2>3. \A s \in Requests : answer'[s] # None <=> at'[s] = "done"
    BY <1>2, <1>3, <2>1 DEF Answers
  <2>4. \A s \in failed' : answer'[s] = "INTERNAL_ERROR"
    BY <1>1, <1>2, <1>3 DEF Answers, Types
  <2> QED
    BY <2>2, <2>3, <2>4 DEF Answers
<1>8. RowStays'
  BY <1>1, <1>2, <1>3 DEF RowStays, RefusedForRow
<1>9. PICK S \in SUBSET failed : Explains(S)
  OBVIOUS
<1>10. Effective(S)' = Effective(S) \cup {r} /\ r \notin Effective(S)
  BY <1>2, <1>3, NoneAssumption DEF Effective, Told, Committed, Codes
<1>11. /\ \A k : k # ask[r].key => Done(S, k)' = Done(S, k)
       /\ Done(S, ask[r].key)' = Done(S, ask[r].key) \cup {r}
       /\ r \notin Done(S, ask[r].key)
  BY <1>1, <1>10 DEF Done, Effective
<1>12. /\ Done(S, ask[r].key) \in SUBSET Requests
       /\ Stores(ask[r].key, Done(S, ask[r].key))
       /\ WritesOver(r, pending[r])
  BY <1>2, <1>9 DEF Done, Told, Committed, Types, Explains, Keys, NothingLost
<1>13. ASSUME NEW k \in Keys' PROVE Stores(k, Done(S, k))'
  <2>1. CASE k # ask[r].key
    <3>1. Stores(k, Done(S, k))
      BY <1>1, <1>9, <1>13, <2>1 DEF Explains, Keys
    <3>2. Total(Done(S, k))' = Total(Done(S, k)) /\ Sets(Done(S, k))' = Sets(Done(S, k))
      BY <1>1, <1>11, <2>1, SameAsk
    <3> QED
      BY <1>1, <1>11, <2>1, <3>1, <3>2 DEF Stores
  <2>2. CASE k = ask[r].key
    <3>1. /\ Total(Done(S, k))' = Total(Done(S, k) \cup {r})
          /\ Sets(Done(S, k))' = Sets(Done(S, k) \cup {r})
          /\ Done(S, k)' = Done(S, k) \cup {r}
      BY <1>1, <1>11, <2>2, SameAsk
    <3>2. /\ k \notin Pairs => Done(S, k) \cup {r} = {pending[r].by} \ {None}
          /\ k \in Pairs =>
                /\ pending[r].available = Total(Done(S, k) \cup {r})
                /\ pending[r].threshold \in (IF Sets(Done(S, k) \cup {r}) = {} THEN {None}
                                             ELSE Sets(Done(S, k) \cup {r}))
      BY <1>11, <1>12, <2>2, WrittenRow
    <3> QED
      BY <1>1, <2>2, <3>1, <3>2 DEF Stores
  <2> QED
    BY <2>1, <2>2
<1>14. ASSUME NEW k \in DOMAIN rows' PROVE rows'[k].by \in Effective(S)' \cup {None}
  <2>1. \/ pending[r].by = r
        \/ ask[r].key \in DOMAIN rows /\ pending[r].by = rows[ask[r].key].by
    BY <1>11, <1>12, WrittenRow
  <2> QED
    BY <1>1, <1>9, <1>10, <2>1 DEF Explains
<1>15. Explains(S)'
  BY <1>13, <1>14 DEF Explains
<1> QED
  BY <1>1, <1>4, <1>5, <1>6, <1>7, <1>8, <1>15

LEMMA NextInv == CatalogInv /\ [Next]_vars => CatalogInv'
<1> SUFFICES ASSUME CatalogInv, [Next]_vars PROVE CatalogInv'
  OBVIOUS
<1> USE DEF Codes
<1>1. CASE UNCHANGED vars
  <2>1. Discipline'
    BY <1>1 DEF vars, CatalogInv, Discipline, Types, OneWriter, NothingLost, WritesOver, NewRow,
                Answers, RowStays, RefusedForRow
  <2>2. PICK S \in SUBSET failed : Explains(S)
    BY DEF CatalogInv
  <2>3. Effective(S)' = Effective(S) /\ UNCHANGED <<rows, ask, failed>>
    BY <1>1 DEF vars, Effective, Told, Committed
  <2> QED
    BY <2>1, <2>2, <2>3, QuietExplains DEF CatalogInv
<1>2. ASSUME NEW r \in Requests, Check(r) PROVE CatalogInv'
  <2>1. at[r] = "check" /\ UNCHANGED <<rows, ask, failed>>
    BY <1>2 DEF Check, CheckProduct, CheckRegister, CheckBootstrap, CheckWarehouse,
                CheckAdjust, CheckThreshold, Asked
  <2>2. \/ \E step \in {"insert", "update"} :
              GoTo(r, step) /\ (step = "update" => Exists(ask[r].key))
        \/ \E code \in Codes \ {"OK", "INTERNAL_ERROR"} :
              /\ Reply(r, code)
              /\ \/ code \in {"DUPLICATE_SKU", "SKIPPED"}
                 \/ code = "INVALID_REQUEST" /\ ask[r].kind = "register"
                 => Exists(ask[r].key)
    <3>1. CASE CheckProduct(r) \/ CheckRegister(r) \/ CheckBootstrap(r) \/ CheckWarehouse(r)
      BY <3>1 DEF CheckProduct, CheckRegister, CheckBootstrap, CheckWarehouse
    <3>2. CASE CheckAdjust(r)
      BY <3>2 DEF CheckAdjust, Asked
    <3>3. CASE CheckThreshold(r)
      BY <3>3 DEF CheckThreshold, Asked
    <3> QED
      BY <1>2, <3>1, <3>2, <3>3 DEF Check
  <2>3. CASE \E step \in {"insert", "update"} :
                GoTo(r, step) /\ (step = "update" => Exists(ask[r].key))
    BY <2>1, <2>3, GoToKeeps
  <2>4. ASSUME NEW code \in Codes \ {"OK", "INTERNAL_ERROR"}, Reply(r, code),
               \/ code \in {"DUPLICATE_SKU", "SKIPPED"}
               \/ code = "INVALID_REQUEST" /\ ask[r].kind = "register"
               => Exists(ask[r].key)
        PROVE  CatalogInv'
    <3>1. RefusedForRow(r)' => ask[r].key \in DOMAIN rows
      BY <2>1, <2>4 DEF Reply, RefusedForRow, Exists, CatalogInv, Discipline, Types
    <3> QED
      BY <2>1, <2>4, <3>1, ReplyKeeps
  <2> QED
    BY <2>2, <2>3, <2>4
<1>3. ASSUME NEW r \in Requests, Insert(r) PROVE CatalogInv'
  <2>1. CASE ~Exists(ask[r].key) /\ Write(r, NewRow(r))
    BY <1>3, <2>1, AskFacts, WriteKeeps DEF Insert, WritesOver, Exists, CatalogInv, Discipline
  <2>2. CASE Exists(ask[r].key) /\ Reply(r, "INTERNAL_ERROR") /\ UNCHANGED <<rows, ask, failed>>
    BY <1>3, <2>2, ReplyKeeps DEF Insert, Exists
  <2> QED
    BY <1>3, <2>1, <2>2 DEF Insert
<1>4. ASSUME NEW r \in Requests, UpdateAvailable(r) PROVE CatalogInv'
  <2> DEFINE row == rows[ask[r].key]
             sum == row.available + ask[r].amount
  <2>1. /\ ask[r].kind = "adjust" /\ at[r] = "update" /\ ~Locked(r)
        /\ ask[r].key \in DOMAIN rows /\ row \in RowType /\ ask[r].amount \in Int
    BY <1>4, AskFacts DEF UpdateAvailable, Asked, CatalogInv, Discipline, Answers, Types
  <2>2. CASE Write(r, [row EXCEPT !.available = sum])
    <3>1. [row EXCEPT !.available = sum] \in RowType
      BY <2>1 DEF RowType
    <3>2. WritesOver(r, [row EXCEPT !.available = sum])
      BY <2>1 DEF WritesOver
    <3> QED
      BY <2>1, <2>2, <3>1, <3>2, WriteKeeps
  <2>3. CASE Reply(r, "INVALID_REQUEST") /\ UNCHANGED <<rows, ask, failed>>
    BY <2>1, <2>3, ReplyKeeps
  <2> QED
    BY <1>4, <2>2, <2>3 DEF UpdateAvailable
<1>5. ASSUME NEW r \in Requests, UpdateThreshold(r) PROVE CatalogInv'
  <2> DEFINE row == rows[ask[r].key]
  <2>1. /\ ask[r].kind = "threshold" /\ at[r] = "update" /\ ~Locked(r)
        /\ ask[r].key \in DOMAIN rows /\ row \in RowType /\ ask[r].amount \in Thresholds
    BY <1>5, AskFacts DEF UpdateThreshold, Asked, CatalogInv, Discipline, Answers, Types
  <2>2. [row EXCEPT !.threshold = ask[r].amount] \in RowType
    BY <2>1 DEF RowType
  <2>3. WritesOver(r, [row EXCEPT !.threshold = ask[r].amount])
    BY <2>1 DEF WritesOver
  <2> QED
    BY <1>5, <2>1, <2>2, <2>3, WriteKeeps DEF UpdateThreshold
<1>6. ASSUME NEW r \in Requests, Respond(r) PROVE CatalogInv'
  <2>1. RefusedForRow(r)' => ask[r].key \in DOMAIN rows
    BY <1>6 DEF Respond, Reply, RefusedForRow, CatalogInv, Discipline, Types
  <2> QED
    BY <1>6, <2>1, ReplyKeeps DEF Respond
<1>7. ASSUME NEW r \in Requests, Fail(r) PROVE CatalogInv'
  <2>1. RefusedForRow(r)' => ask[r].key \in DOMAIN rows
    BY <1>7 DEF Fail, Reply, RefusedForRow, CatalogInv, Discipline, Types
  <2> QED
    BY <1>7, <2>1, ReplyKeeps DEF Fail
<1> QED
  BY <1>1, <1>2, <1>3, <1>4, <1>5, <1>6, <1>7, CommitKeeps DEF Next, Step

LEMMA CatalogInvariant == Spec => []CatalogInv
  BY InitInv, NextInv, PTL DEF Spec

-----------------------------------------------------------------------------
(* The theorems                                                            *)

\* However the requests interleave and fail, what is stored under each SKU, email,
\* warehouse and pair is what the acknowledged requests did, and the interrupted ones that
\* had committed: no effect is lost, made up or counted twice.
THEOREM EffectsAreAcknowledged == Spec => []EffectsMatchAnswers
<1>1. CatalogInv => EffectsMatchAnswers
  BY DEF CatalogInv, Explains, Keys, EffectsMatchAnswers
<1> QED
  BY <1>1, CatalogInvariant, PTL

\* A request refused because of somebody else's row was refused for a committed row that
\* another request, or nobody in this run, inserted, and that is still there.
THEOREM RefusalsNameARow == Spec => []RefusalsAreTrue
<1>1. CatalogInv => RefusalsAreTrue
  <2> SUFFICES ASSUME CatalogInv, NEW r \in Requests, RefusedForRow(r)
               PROVE  ask[r].key \in DOMAIN rows /\ rows[ask[r].key].by # r
    BY DEF RefusalsAreTrue, RefusedForRow
  <2>1. ask[r].key \in DOMAIN rows
    BY DEF CatalogInv, Discipline, RowStays
  <2>2. PICK S \in SUBSET failed : Explains(S)
    BY DEF CatalogInv
  <2>3. answer[r] # "OK" /\ answer[r] # None /\ r \notin failed
    BY NoneAssumption DEF RefusedForRow, Codes, CatalogInv, Discipline, Answers
  <2>4. r \notin Effective(S) /\ r # None
    BY <2>3, NoneAssumption DEF Effective, Told, Committed, CatalogInv, Discipline, Answers
  <2> QED
    BY <2>1, <2>2, <2>4 DEF Explains
<1> QED
  BY <1>1, CatalogInvariant, PTL

=============================================================================
