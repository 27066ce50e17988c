------------------------------ MODULE Catalog ------------------------------
(***************************************************************************)
(* The admin requests that may insert a row another request is inserting   *)
(* at the same time: products by SKU, users by email (registration and the *)
(* default admin of bootstrap.py), and the first inventory row of a        *)
(* (product, warehouse) pair, which an adjustment or a threshold creates.  *)
(* Each reads, decides, writes and commits in one READ COMMITTED           *)
(* transaction; between the reading and the writing the others run.        *)
(*                                                                         *)
(* `rows' is the committed database. A product is known by its SKU and a   *)
(* warehouse by its generated id; a pair is <<sku, warehouse>>. A row      *)
(* records the request that inserted it and, for a pair, the available     *)
(* quantity and the threshold (the low-stock flag and the reserved counter *)
(* are StockLedger's subject). `pending' is the row a transaction has      *)
(* written and not committed: it also is the lock that PostgreSQL holds on *)
(* the index entry or on the row.                                          *)
(***************************************************************************)
EXTENDS Integers, FiniteSets

CONSTANTS Requests, Skus, Emails, Warehouses, None,
          DefaultAdmin,    \* settings.default_admin_email
          Quantities,      \* adjustment quantities, negative ones included
          Thresholds,
          MaxFaults        \* how many requests an error or a crash interrupts

Codes == {"OK", "DUPLICATE_SKU", "INVALID_REQUEST", "SKIPPED", "NOT_FOUND", "INTERNAL_ERROR"}

\* The rows of all tables, None standing for NULL or for what was there before.
RowType ==
    [by: Requests \cup {None}, available: Int, threshold: Thresholds \cup {None}]

ASSUME RequestsAssumption ==
    /\ IsFiniteSet(Requests)
    /\ DefaultAdmin \in Emails
    /\ Quantities \subseteq Int
    /\ Thresholds \subseteq Nat

\* None is no value of any column, and no row.
ASSUME NoneAssumption ==
    /\ None \notin Requests
    /\ None \notin Nat
    /\ None \notin Codes
    /\ None \notin RowType

VARIABLES rows, ask, at, pending, answer, failed

vars == <<rows, ask, at, pending, answer, failed>>

Pairs == Skus \X Warehouses

Asks == [kind: {"product"},   key: Skus,           amount: {0}]
   \cup [kind: {"register"},  key: Emails,         amount: {0}]
   \cup [kind: {"bootstrap"}, key: {DefaultAdmin}, amount: {0}]
   \cup [kind: {"warehouse"}, key: Warehouses,     amount: {0}]
   \cup [kind: {"adjust"},    key: Pairs,          amount: Quantities]
   \cup [kind: {"threshold"}, key: Pairs,          amount: Thresholds]

Row(by, available, threshold) == [by |-> by, available |-> available, threshold |-> threshold]

\* Any products and warehouses may be there already. generate_id gives each warehouse its
\* own id.
Init ==
    /\ ask \in [Requests -> Asks]
    /\ \E K \in SUBSET (Skus \cup Warehouses) :
          /\ rows = [k \in K |-> Row(None, 0, None)]
          /\ \A r \in Requests : ask[r].kind = "warehouse" => ask[r].key \notin K
    /\ \A r, s \in Requests : ask[r].kind = "warehouse" /\ ask[r] = ask[s] => r = s
    /\ at = [r \in Requests |-> "check"]
    /\ pending = [r \in Requests |-> None]
    /\ answer = [r \in Requests |-> None]
    /\ failed = {}
-----------------------------------------------------------------------------
\* Closing the session rolls back whatever was not committed.
Reply(r, code) ==
    /\ answer' = [answer EXCEPT ![r] = code]
    /\ at' = [at EXCEPT ![r] = "done"]
    /\ pending' = [pending EXCEPT ![r] = None]

GoTo(r, step) == at' = [at EXCEPT ![r] = step] /\ UNCHANGED <<answer, pending>>

Write(r, row) ==
    /\ pending' = [pending EXCEPT ![r] = row]
    /\ at' = [at EXCEPT ![r] = "commit"]
    /\ UNCHANGED <<answer, failed, rows, ask>>

Asked(r, kind, step) == ask[r].kind = kind /\ at[r] = step

\* Mutant: a check that trusts a row before it is committed.
ExistsUncommitted(key) ==
    key \in DOMAIN rows \/ \E r \in Requests : ask[r].key = key /\ pending[r] # None

\* A SELECT sees what is committed.
Exists(key) == key \in DOMAIN rows

\* Mutant: the quantity is read, changed and written back without a lock.
LockedNever(r) == FALSE

\* An INSERT of the same index entry and an UPDATE of the same row wait for the other
\* transaction.
Locked(r) == \E s \in Requests \ {r} : ask[s].key = ask[r].key /\ pending[s] # None
-----------------------------------------------------------------------------
\* The reads and the decision of each service.
CheckProduct(r) ==
    /\ Asked(r, "product", "check")
    /\ IF Exists(ask[r].key) THEN Reply(r, "DUPLICATE_SKU") ELSE GoTo(r, "insert")
    /\ UNCHANGED <<rows, ask, failed>>

CheckRegister(r) ==
    /\ Asked(r, "register", "check")
    /\ IF Exists(ask[r].key) THEN Reply(r, "INVALID_REQUEST") ELSE GoTo(r, "insert")
    /\ UNCHANGED <<rows, ask, failed>>

CheckBootstrap(r) ==
    /\ Asked(r, "bootstrap", "check")
    /\ IF Exists(ask[r].key) THEN Reply(r, "SKIPPED") ELSE GoTo(r, "insert")
    /\ UNCHANGED <<rows, ask, failed>>

\* create_warehouse reads nothing.
CheckWarehouse(r) ==
    /\ Asked(r, "warehouse", "check")
    /\ GoTo(r, "insert")
    /\ UNCHANGED <<rows, ask, failed>>

PairKnown(r) == Exists(ask[r].key[1]) /\ Exists(ask[r].key[2])

CheckAdjust(r) ==
    /\ Asked(r, "adjust", "check")
    /\ \/ ~PairKnown(r) /\ Reply(r, "NOT_FOUND")
       \/ PairKnown(r) /\ Exists(ask[r].key) /\ GoTo(r, "update")
       \/ PairKnown(r) /\ ~Exists(ask[r].key) /\ ask[r].amount < 0 /\ Reply(r, "INVALID_REQUEST")
       \/ PairKnown(r) /\ ~Exists(ask[r].key) /\ ask[r].amount >= 0 /\ GoTo(r, "insert")
    /\ UNCHANGED <<rows, ask, failed>>

CheckThreshold(r) ==
    /\ Asked(r, "threshold", "check")
    /\ \/ ~PairKnown(r) /\ Reply(r, "NOT_FOUND")
       \/ PairKnown(r) /\ GoTo(r, IF Exists(ask[r].key) THEN "update" ELSE "insert")
    /\ UNCHANGED <<rows, ask, failed>>
-----------------------------------------------------------------------------
\* What each service inserts.
NewRow(r) ==
    CASE ask[r].kind = "adjust"    -> Row(r, ask[r].amount, None)
      [] ask[r].kind = "threshold" -> Row(r, 0, ask[r].amount)
      [] OTHER                     -> Row(r, 0, None)

\* The flush of repository.create: it waits for an uncommitted row of the same key, and
\* raises IntegrityError when the row is committed. No service catches it: create_product's
\* try block begins after the flush, so the loser of the race gets INTERNAL_ERROR, and the
\* start command of a second API container fails.
Insert(r) ==
    /\ at[r] = "insert"
    /\ ~Locked(r)
    /\ \/ ~Exists(ask[r].key) /\ Write(r, NewRow(r))
       \/ Exists(ask[r].key) /\ Reply(r, "INTERNAL_ERROR") /\ UNCHANGED <<rows, ask, failed>>

\* adjust_available: the condition is evaluated on the row as it is once the lock is
\* granted.
UpdateAvailable(r) ==
    /\ Asked(r, "adjust", "update")
    /\ ~Locked(r)
    /\ LET row == rows[ask[r].key]
           sum == row.available + ask[r].amount
       IN  \/ sum >= 0 /\ Write(r, [row EXCEPT !.available = sum])
           \/ sum < 0 /\ Reply(r, "INVALID_REQUEST") /\ UNCHANGED <<rows, ask, failed>>

UpdateThreshold(r) ==
    /\ Asked(r, "threshold", "update")
    /\ ~Locked(r)
    /\ Write(r, [rows[ask[r].key] EXCEPT !.threshold = ask[r].amount])

\* After the commit the services read the row again for the response (db.refresh);
\* bootstrap does not.
Commit(r) ==
    /\ at[r] = "commit"
    /\ rows' = [k \in DOMAIN rows \cup {ask[r].key} |->
                   IF k = ask[r].key THEN pending[r] ELSE rows[k]]
    /\ pending' = [pending EXCEPT ![r] = None]
    /\ \/ ask[r].kind # "bootstrap" /\ at' = [at EXCEPT ![r] = "refresh"] /\ UNCHANGED answer
       \/ /\ ask[r].kind = "bootstrap"
          /\ at' = [at EXCEPT ![r] = "done"]
          /\ answer' = [answer EXCEPT ![r] = "OK"]
    /\ UNCHANGED <<ask, failed>>

Respond(r) ==
    /\ at[r] = "refresh"
    /\ Reply(r, "OK")
    /\ UNCHANGED <<rows, ask, failed>>

\* Mutant: the session is not closed when the request fails.
FailKeepsTransaction(r) ==
    /\ at[r] # "done"
    /\ Cardinality(failed) < MaxFaults
    /\ failed' = failed \cup {r}
    /\ answer' = [answer EXCEPT ![r] = "INTERNAL_ERROR"]
    /\ at' = [at EXCEPT ![r] = "done"]
    /\ UNCHANGED <<rows, ask, pending>>

\* A database error, or the end of the process, at any statement: also at the refresh, when
\* the change is already committed and the client is told INTERNAL_ERROR or nothing.
Fail(r) ==
    /\ at[r] # "done"
    /\ Cardinality(failed) < MaxFaults
    /\ failed' = failed \cup {r}
    /\ Reply(r, "INTERNAL_ERROR")
    /\ UNCHANGED <<rows, ask>>

-----------------------------------------------------------------------------
Check(r) ==
    \/ CheckProduct(r) \/ CheckRegister(r) \/ CheckBootstrap(r)
    \/ CheckWarehouse(r) \/ CheckAdjust(r) \/ CheckThreshold(r)

Step(r) ==
    \/ Check(r) \/ Insert(r) \/ UpdateAvailable(r) \/ UpdateThreshold(r)
    \/ Commit(r) \/ Respond(r)

Next == \E r \in Requests : Step(r) \/ Fail(r)

\* A handler's thread keeps running, and PostgreSQL wakes a waiting statement when the lock
\* is free.
Spec == Init /\ [][Next]_vars /\ \A r \in Requests : WF_vars(Step(r))
-----------------------------------------------------------------------------
Told(code) == {r \in Requests : answer[r] = code}
Committed  == {r \in Requests : at[r] = "refresh"}

\* The sum of the adjustments among R, by counting the units they add and remove.
Adjusts(R) == {r \in R : ask[r].kind = "adjust"}
Added(R)   == UNION {{r} \X (1 .. ask[r].amount) : r \in Adjusts(R)}
Removed(R) == UNION {{r} \X (1 .. -ask[r].amount) : r \in Adjusts(R)}
Total(R)   == Cardinality(Added(R)) - Cardinality(Removed(R))

\* The requests for k that took effect, if S are those that did although interrupted.
Done(S, k) == {r \in Told("OK") \cup S \cup Committed : ask[r].key = k}

Sets(R) == {ask[r].amount : r \in {q \in R : ask[q].kind = "threshold"}}

\* What is stored under k is what the requests D did.
Stores(k, D) ==
    IF k \notin DOMAIN rows THEN D = {}
    ELSE IF k \notin Pairs THEN D = {rows[k].by} \ {None}
    ELSE /\ rows[k].available = Total(D)
         /\ rows[k].threshold \in (IF Sets(D) = {} THEN {None} ELSE Sets(D))

\* What the database holds is what the requests were told. Every SKU and email has one
\* request that was told it created it, the one that inserted the row; a pair's available
\* quantity is the sum of the acknowledged adjustments, and its threshold one that was
\* acknowledged: a first adjustment and a first threshold that race leave either's effect
\* or both, never a lost one. Only a request that a fault interrupted may have taken effect
\* without an acknowledgement, and only once (product_service.py:26-32,
\* auth_service.py:17-19, inventory_service.py:64-101, low_stock_service.py:36-56).
EffectsMatchAnswers ==
    \E S \in SUBSET failed :
        \A k \in DOMAIN rows \cup {ask[r].key : r \in Requests} : Stores(k, Done(S, k))

\* A request refused because somebody else's row is there was refused for a row that is
\* committed and stays, never for one that was rolled back: the pre-checks see committed
\* rows, and a flush that collides waits for the other transaction to end before it raises.
\* An INTERNAL_ERROR that no fault caused is such a collision (product_service.py:22-26,
\* auth_service.py:13-17, bootstrap.py:27-36).
RefusalsAreTrue ==
    \A r \in Requests :
        \/ answer[r] \in {"DUPLICATE_SKU", "SKIPPED"}
        \/ answer[r] = "INVALID_REQUEST" /\ ask[r].kind = "register"
        \/ answer[r] = "INTERNAL_ERROR" /\ r \notin failed
        => ask[r].key \in DOMAIN rows /\ rows[ask[r].key].by # r

\* Every request is answered: each transaction inserts or updates one row, so the requests
\* that wait for one another's index entries and rows never form a cycle, and an
\* interrupted one lets go of its lock (api/deps.py:25-30 closes the session).
RequestsAnswered == \A r \in Requests : <>(at[r] = "done")
=============================================================================
