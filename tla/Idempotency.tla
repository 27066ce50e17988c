----------------------------- MODULE Idempotency ----------------------------
(***************************************************************************)
(* The Idempotency-Key protocol around order creation: idempotency_service *)
(* and its repository, as create_order uses them.                          *)
(*                                                                         *)
(* A request is one run of create_order; a client's retry is another       *)
(* request with the same key.  The claim, the order and the completed key  *)
(* are one transaction, so the claim is only visible as the lock on its    *)
(* index entry until COMMIT: an INSERT of the same key waits for it.       *)
(*                                                                         *)
(* Abstracted: the creation itself (StockReservation), which succeeds or   *)
(* fails; a request's body, and its hash, are one value; an order is       *)
(* named by the request that creates it.                                   *)
(***************************************************************************)
EXTENDS Integers, FiniteSets

CONSTANTS
    Requests,
    Keys,
    Bodies,   \* payloads, up to their SHA-256 hash
    NoKey,    \* the key of a request without the header
    EmptyKey, \* the key of a request whose header is the empty string
    NoOrder

\* The keys for which create_order makes no claim: `if idempotency_key:`.
Falsy == {NoKey, EmptyKey}

ASSUME KeysAssumption ==
    NoKey # EmptyKey /\ Falsy \cap Keys = {} /\ NoOrder \notin Requests

VARIABLES
    key,      \* key[r], body[r]: what request r sends, never changed
    body,
    step,     \* step[r]: where r is in create_order
    claimant, \* claimant[k]: the running requests whose uncommitted row has key k
    row,      \* row[k]: the committed idempotency_keys row
    orders,   \* the committed orders
    answer    \* answer[r]: the order in the response to r

vars == <<key, body, step, claimant, row, orders, answer>>

Absent == [status |-> "ABSENT"]

InProgress(b) == [status |-> "IN_PROGRESS", hash |-> b]
Completed(b, o) == [status |-> "COMPLETED", hash |-> b, order |-> o]

-----------------------------------------------------------------------------
(* idempotency_service.begin                                               *)

\* No header, or an empty one: no claim.
WithoutKey(r) ==
    /\ step[r] = "start"
    /\ key[r] \in Falsy
    /\ step' = [step EXCEPT ![r] = "creating"]
    /\ UNCHANGED <<key, body, claimant, row, orders, answer>>

\* The INSERT of try_claim, at once or after the wait.
Claiming(r) == step[r] \in {"start", "waiting"} /\ key[r] \in Keys

\* Mutant: the check that the key is free does not see claims in progress.
UnclaimedCommitted(k) == row[k] = Absent

Unclaimed(k) == claimant[k] = {} /\ row[k] = Absent

\* Mutant: the claim is committed on its own, before the order is created.
ClaimCommitted(r) ==
    /\ Claiming(r)
    /\ Unclaimed(key[r])
    /\ row' = [row EXCEPT ![key[r]] = InProgress(body[r])]
    /\ step' = [step EXCEPT ![r] = "creating"]
    /\ UNCHANGED <<key, body, claimant, orders, answer>>

Claim(r) ==
    /\ Claiming(r)
    /\ Unclaimed(key[r])
    /\ claimant' = [claimant EXCEPT ![key[r]] = @ \cup {r}]
    /\ step' = [step EXCEPT ![r] = "creating"]
    /\ UNCHANGED <<key, body, row, orders, answer>>

\* Another transaction has inserted the key and not ended: the INSERT waits.
Wait(r) ==
    /\ step[r] = "start"
    /\ key[r] \in Keys
    /\ claimant[key[r]] # {}
    /\ step' = [step EXCEPT ![r] = "waiting"]
    /\ UNCHANGED <<key, body, claimant, row, orders, answer>>

\* The key is there: IntegrityError, the savepoint is rolled back.
Collide(r) ==
    /\ Claiming(r)
    /\ claimant[key[r]] = {}
    /\ row[key[r]] # Absent
    /\ step' = [step EXCEPT ![r] = "looking"]
    /\ UNCHANGED <<key, body, claimant, row, orders, answer>>

\* Mutant: any body will do.
SameBodyUnchecked(r) == TRUE

SameBody(r) == row[key[r]].hash = body[r]

Answer(r, how, order) ==
    /\ step' = [step EXCEPT ![r] = how]
    /\ answer' = [answer EXCEPT ![r] = order]
    /\ UNCHANGED <<key, body, claimant, row, orders>>

\* get_for_update and what follows from the row it finds. The row lock lasts for this
\* step only, and keeps nothing from happening: committed rows do not change.
Reuse(r) ==
    /\ step[r] = "looking"
    /\ ~SameBody(r)
    /\ Answer(r, "rejected", NoOrder)

\* The stored response; 409 if the row still says IN_PROGRESS, which KeyIsNotPoisoned
\* shows never to happen.
Replay(r) ==
    /\ step[r] = "looking"
    /\ SameBody(r)
    /\ LET found == row[key[r]] IN
          IF found.status = "COMPLETED" THEN Answer(r, "replayed", found.order)
          ELSE Answer(r, "conflict", NoOrder)

-----------------------------------------------------------------------------
(* The rest of create_order                                                *)

WithoutClaim(r) == [k \in Keys |-> claimant[k] \ {r}]

\* The unique index on orders.idempotency_key, which holds the key of every request that
\* sent the header, an empty one included.
KeyUnused(r) == key[r] # NoKey => \A o \in orders : key[o] # key[r]

\* The order, complete, and the commit.
Create(r) ==
    /\ step[r] = "creating"
    /\ KeyUnused(r)
    /\ orders' = orders \cup {r}
    /\ row' = IF key[r] \in Falsy THEN row ELSE [row EXCEPT ![key[r]] = Completed(body[r], r)]
    /\ claimant' = WithoutClaim(r)
    /\ step' = [step EXCEPT ![r] = "created"]
    /\ answer' = [answer EXCEPT ![r] = r]
    /\ UNCHANGED <<key, body>>

\* The order's INSERT finds its key taken: IntegrityError, rollback, and the client is told
\* INTERNAL_ERROR. OneOrderPerKey shows that this happens to empty keys only.
Duplicate(r) ==
    /\ step[r] = "creating"
    /\ ~KeyUnused(r)
    /\ claimant' = WithoutClaim(r)
    /\ step' = [step EXCEPT ![r] = "failed"]
    /\ UNCHANGED <<key, body, row, orders, answer>>

Unfinished == {"start", "waiting", "looking", "creating"}

\* Mutant: create_order returns without the rollback, and the connection keeps the claim.
FailHoldsClaim(r) ==
    /\ step[r] \in Unfinished
    /\ step' = [step EXCEPT ![r] = "failed"]
    /\ UNCHANGED <<key, body, claimant, row, orders, answer>>

\* Out of stock, an unknown product, any exception, or the process dies: rollback.
Fail(r) ==
    /\ step[r] \in Unfinished
    /\ claimant' = WithoutClaim(r)
    /\ step' = [step EXCEPT ![r] = "failed"]
    /\ UNCHANGED <<key, body, row, orders, answer>>

-----------------------------------------------------------------------------
Init ==
    /\ key \in [Requests -> Keys \cup Falsy]
    /\ body \in [Requests -> Bodies]
    /\ step = [r \in Requests |-> "start"]
    /\ claimant = [k \in Keys |-> {}]
    /\ row = [k \in Keys |-> Absent]
    /\ orders = {}
    /\ answer = [r \in Requests |-> NoOrder]

Serve(r) ==
    \/ WithoutKey(r) \/ Claim(r) \/ Wait(r) \/ Collide(r)
    \/ Reuse(r) \/ Replay(r)
    \/ Create(r) \/ Duplicate(r)

Next == \E r \in Requests : Serve(r) \/ Fail(r)

Spec == Init /\ [][Next]_vars

\* The thread that serves a request goes on unless it waits for a claim to end.
FairSpec == Spec /\ \A r \in Requests : WF_vars(Serve(r))

-----------------------------------------------------------------------------
(* Properties                                                              *)

Steps == Unfinished \cup {"rejected", "replayed", "conflict", "created", "failed"}

Row ==
    [status : {"ABSENT"}]
        \cup [status : {"IN_PROGRESS"}, hash : Bodies]
        \cup [status : {"COMPLETED"}, hash : Bodies, order : Requests]

\* Every variable keeps its type.
TypeOK ==
    /\ key \in [Requests -> Keys \cup Falsy]
    /\ body \in [Requests -> Bodies]
    /\ step \in [Requests -> Steps]
    /\ claimant \in [Keys -> SUBSET Requests]
    /\ row \in [Keys -> Row]
    /\ orders \subseteq Requests
    /\ answer \in [Requests -> Requests \cup {NoOrder}]

\* A key, the empty one included, creates one order at most. While a request creates the
\* order of a key that is not empty no other one does, nor is there an order already: the
\* claim alone decides the race, and the unique index on orders.idempotency_key never has to
\* (its failure would be an unexplained error).
OneOrderPerKey ==
    \A r, s \in Requests : key[r] = key[s] /\ key[r] # NoKey =>
        /\ r \in orders /\ s \in orders => r = s
        /\ key[r] \in Keys =>
              /\ step[r] = "creating" /\ step[s] = "creating" => r = s
              /\ ~(step[r] = "creating" /\ s \in orders)

\* A response names an order that exists, was created with the request's own key (by the
\* request itself if that is empty or absent), and for the same body.
ResponsesMatch ==
    \A r \in Requests : answer[r] # NoOrder =>
        /\ answer[r] \in orders
        /\ key[answer[r]] = key[r] /\ body[answer[r]] = body[r]
        /\ key[r] \in Falsy => answer[r] = r

\* A failed attempt leaves the key free for the next one: once every request with a key
\* has ended and none created the order, the key can be claimed; no request is ever told
\* that the key is stuck.
KeyIsNotPoisoned ==
    /\ \A r \in Requests : step[r] # "conflict"
    /\ \A k \in Keys :
          (\A r \in Requests : key[r] = k => step[r] \notin Unfinished /\ r \notin orders)
              => Unclaimed(k)

\* Every request is answered, those that wait for another's claim included.
RequestsAnswered == \A r \in Requests : <>(step[r] \notin Unfinished)
=============================================================================
