-------------------------- MODULE Idempotency_proofs ------------------------
(***************************************************************************)
(* Proofs about the Idempotency-Key protocol, for any number of requests,  *)
(* keys and bodies.                                                        *)
(***************************************************************************)
EXTENDS Idempotency, TLAPS

\* A claim is held by the one request that creates the order, over a row nobody has.
ClaimsInv ==
    \A k \in Keys :
        /\ claimant[k] = {r \in Requests : key[r] = k /\ step[r] = "creating"}
        /\ \A r, s \in claimant[k] : r = s
        /\ claimant[k] # {} => row[k] = Absent

\* A committed row names the order made with its key and for its hash.
RowsInv ==
    \A k \in Keys : row[k] # Absent =>
        /\ row[k].status = "COMPLETED"
        /\ row[k].order \in orders
        /\ key[row[k].order] = k
        /\ body[row[k].order] = row[k].hash

\* And every order made with a key is the one its row names; an empty key has no row, and
\* one order by the unique index.
OrdersInv ==
    \A o \in orders :
        /\ step[o] = "created"
        /\ key[o] \in Keys => row[key[o]] # Absent /\ row[key[o]].order = o
        /\ \A p \in orders : key[o] = EmptyKey /\ key[p] = EmptyKey => o = p

\* Only requests with a key wait or look at a row, and the row is there.
StepsInv ==
    \A r \in Requests :
        /\ step[r] \in {"waiting", "looking"} => key[r] \in Keys
        /\ step[r] = "looking" => row[key[r]] # Absent
        /\ step[r] = "created" => r \in orders
        /\ step[r] # "conflict"

KeyInv == TypeOK /\ ClaimsInv /\ RowsInv /\ OrdersInv /\ StepsInv /\ ResponsesMatch

-----------------------------------------------------------------------------
\* What a row record may be.
LEMMA RowForms ==
    /\ Absent \in Row
    /\ \A b \in Bodies, o \in Requests :
          /\ Completed(b, o) \in Row /\ Completed(b, o) # Absent
          /\ Completed(b, o).status = "COMPLETED"
          /\ Completed(b, o).hash = b /\ Completed(b, o).order = o
<1>1. Absent.status = "ABSENT" /\ Absent \in Row
  BY DEF Absent, Row
<1>2. ASSUME NEW b \in Bodies, NEW o \in Requests
      PROVE  /\ Completed(b, o) \in Row /\ Completed(b, o).status = "COMPLETED"
             /\ Completed(b, o).hash = b /\ Completed(b, o).order = o
  BY DEF Completed, Row
<1>3. \A b \in Bodies, o \in Requests : Completed(b, o) # Absent
  BY <1>1, <1>2
<1> QED
  BY <1>1, <1>2, <1>3

LEMMA InitKeyInv == Init => KeyInv
<1> SUFFICES ASSUME Init PROVE KeyInv
  OBVIOUS
<1>1. TypeOK
  BY RowForms DEF Init, TypeOK, Steps, Unfinished
<1>2. ClaimsInv /\ RowsInv /\ OrdersInv /\ StepsInv /\ ResponsesMatch
  BY DEF Init, ClaimsInv, RowsInv, OrdersInv, StepsInv, ResponsesMatch
<1> QED
  BY <1>1, <1>2 DEF KeyInv

\* A step that only moves r on, without touching claims, rows, orders or answers.
LEMMA MovesOn ==
    ASSUME KeyInv, NEW r \in Requests, NEW s \in Steps,
           step' = [step EXCEPT ![r] = s], step[r] \in Unfinished,
           key[r] \in Keys => step[r] # "creating" /\ s # "creating",
           s \in {"waiting", "looking", "creating"},
           s \in {"waiting", "looking"} => key[r] \in Keys,
           s = "looking" => row[key[r]] # Absent,
           UNCHANGED <<key, body, claimant, row, orders, answer>>
    PROVE  KeyInv'
<1> USE DEF KeyInv
<1>1. TypeOK'
  BY DEF TypeOK
<1>2. \A t \in Requests : step'[t] = IF t = r THEN s ELSE step[t]
  BY DEF TypeOK
<1>3. ClaimsInv'
  <2>1. ASSUME NEW t \in Requests, NEW k \in Keys, key[t] = k
        PROVE  step'[t] = "creating" <=> step[t] = "creating"
    BY <1>2, <2>1, KeysAssumption
  <2> QED
    BY <2>1 DEF ClaimsInv
<1>4. RowsInv' /\ ResponsesMatch'
  BY DEF RowsInv, ResponsesMatch
<1>5. r \notin orders
  BY DEF OrdersInv, Unfinished
<1>6. OrdersInv' /\ StepsInv'
  BY <1>2, <1>5 DEF OrdersInv, StepsInv, TypeOK
<1> QED
  BY <1>1, <1>3, <1>4, <1>6

LEMMA ClaimKeyInv == ASSUME KeyInv, NEW r \in Requests, Claim(r) PROVE KeyInv'
<1> USE DEF KeyInv, Claim, Claiming, Unclaimed
<1>1. key[r] \in Keys /\ step[r] \in {"start", "waiting"}
  BY DEF TypeOK
<1>2. TypeOK'
  BY <1>1 DEF TypeOK, Steps, Unfinished
<1>3. \A t \in Requests : step'[t] = IF t = r THEN "creating" ELSE step[t]
  BY DEF TypeOK
<1>4. \A k \in Keys : claimant'[k] = IF k = key[r] THEN {r} ELSE claimant[k]
  BY DEF TypeOK
<1>5. ClaimsInv'
  BY <1>1, <1>3, <1>4 DEF ClaimsInv
<1>6. RowsInv' /\ ResponsesMatch'
  BY DEF RowsInv, ResponsesMatch
<1>7. OrdersInv' /\ StepsInv'
  BY <1>1, <1>3 DEF OrdersInv, StepsInv, TypeOK
<1> QED
  BY <1>2, <1>5, <1>6, <1>7

\* An answer from a row: r waits for nothing and claims nothing.
LEMMA AnswerKeyInv ==
    ASSUME KeyInv, NEW r \in Requests, Reuse(r) \/ Replay(r)
    PROVE  KeyInv'
<1> USE DEF KeyInv
<1>1. step[r] = "looking" /\ key[r] \in Keys /\ row[key[r]] # Absent
  BY DEF Reuse, Replay, TypeOK, StepsInv
<1>2. /\ row[key[r]].status = "COMPLETED" /\ row[key[r]].order \in orders
      /\ key[row[key[r]].order] = key[r] /\ body[row[key[r]].order] = row[key[r]].hash
  BY <1>1 DEF RowsInv
<1>3. PICK how \in {"rejected", "replayed"}, order \in orders \cup {NoOrder} :
        /\ Answer(r, how, order)
        /\ order # NoOrder => order \in orders /\ key[order] = key[r] /\ body[order] = body[r]
  BY <1>2 DEF Reuse, Replay, SameBody
<1> USE <1>3 DEF Answer
<1>4. TypeOK'
  BY DEF TypeOK, Steps
<1>5. \A t \in Requests : /\ step'[t] = IF t = r THEN how ELSE step[t]
                          /\ answer'[t] = IF t = r THEN order ELSE answer[t]
  BY DEF TypeOK
<1>6. r \notin orders
  BY <1>1 DEF OrdersInv
<1>7. ClaimsInv'
  <2>1. \A t \in Requests : step'[t] = "creating" <=> step[t] = "creating"
    BY <1>1, <1>5
  <2> QED
    BY <2>1 DEF ClaimsInv
<1>8. RowsInv' /\ OrdersInv' /\ StepsInv'
  BY <1>5, <1>6 DEF RowsInv, OrdersInv, StepsInv, TypeOK
<1>9. ResponsesMatch'
  BY <1>1, <1>5, KeysAssumption DEF ResponsesMatch
<1> QED
  BY <1>4, <1>7, <1>8, <1>9

LEMMA CreateKeyInv == ASSUME KeyInv, NEW r \in Requests, Create(r) PROVE KeyInv'
<1> USE DEF KeyInv, Create
<1>1. step[r] = "creating" /\ r \notin orders
  BY DEF OrdersInv
<1>2. key[r] \in Keys => r \in claimant[key[r]] /\ row[key[r]] = Absent
  BY <1>1 DEF ClaimsInv
<1>3. \A t \in Requests : /\ step'[t] = IF t = r THEN "created" ELSE step[t]
                          /\ answer'[t] = IF t = r THEN r ELSE answer[t]
  BY DEF TypeOK
<1>4. \A k \in Keys : /\ row'[k] = IF k = key[r] THEN Completed(body[r], r) ELSE row[k]
                      /\ claimant'[k] = claimant[k] \ {r}
  BY KeysAssumption DEF TypeOK, WithoutClaim, Falsy
<1>5. body[r] \in Bodies
  BY DEF TypeOK
<1>6. TypeOK'
  <2>1. row' \in [Keys -> Row]
    BY <1>5, RowForms DEF TypeOK
  <2>2. claimant' \in [Keys -> SUBSET Requests]
    BY DEF TypeOK, WithoutClaim
  <2> QED
    BY <2>1, <2>2 DEF TypeOK, Steps
<1>7. ClaimsInv'
  <2> SUFFICES ASSUME NEW k \in Keys
               PROVE  /\ claimant'[k] = {t \in Requests : key[t] = k /\ step'[t] = "creating"}
                      /\ \A t, s \in claimant'[k] : t = s
                      /\ claimant'[k] # {} => row'[k] = Absent
    BY DEF ClaimsInv
  <2>1. claimant'[k] = {t \in Requests : key[t] = k /\ step'[t] = "creating"}
    BY <1>3, <1>4 DEF ClaimsInv
  <2>2. k = key[r] => claimant'[k] = {}
    BY <1>2, <1>4 DEF ClaimsInv
  <2>3. \A t, s \in claimant'[k] : t = s
    BY <1>4 DEF ClaimsInv
  <2> QED
    BY <1>4, <2>1, <2>2, <2>3 DEF ClaimsInv
<1>8. RowsInv'
  BY <1>4, <1>5, RowForms DEF RowsInv
<1>9. OrdersInv'
  <2> SUFFICES ASSUME NEW o \in orders'
               PROVE  /\ step'[o] = "created"
                      /\ key[o] \in Keys => row'[key[o]] # Absent /\ row'[key[o]].order = o
                      /\ \A p \in orders' : key[o] = EmptyKey /\ key[p] = EmptyKey => o = p
    BY DEF OrdersInv
  <2>1. o \in Requests /\ step'[o] = "created"
    BY <1>3 DEF OrdersInv, TypeOK
  <2>2. ASSUME o = r, key[o] \in Keys
        PROVE  row'[key[o]] # Absent /\ row'[key[o]].order = o
    BY <1>4, <1>5, <2>2, RowForms
  <2>3. ASSUME o \in orders, key[o] \in Keys
        PROVE  row'[key[o]] # Absent /\ row'[key[o]].order = o
    BY <1>2, <1>4, <2>3 DEF OrdersInv
  <2>4. \A p \in orders' : key[o] = EmptyKey /\ key[p] = EmptyKey => o = p
    BY KeysAssumption DEF OrdersInv, KeyUnused
  <2> QED
    BY <2>1, <2>2, <2>3, <2>4
<1>10. StepsInv'
  BY <1>3, <1>4, <1>5, RowForms DEF StepsInv, TypeOK
<1>11. ResponsesMatch'
  BY <1>3 DEF ResponsesMatch
<1> QED
  BY <1>6, <1>7, <1>8, <1>9, <1>10, <1>11

LEMMA FailKeyInv == ASSUME KeyInv, NEW r \in Requests, Fail(r) PROVE KeyInv'
<1> USE DEF KeyInv, Fail
<1>1. TypeOK'
  BY DEF TypeOK, WithoutClaim, Steps
<1>2. \A t \in Requests : step'[t] = IF t = r THEN "failed" ELSE step[t]
  BY DEF TypeOK
<1>3. \A k \in Keys : claimant'[k] = claimant[k] \ {r}
  BY DEF WithoutClaim
<1>4. r \notin orders
  BY DEF OrdersInv, Unfinished
<1>5. ClaimsInv'
  BY <1>2, <1>3 DEF ClaimsInv
<1>6. RowsInv' /\ ResponsesMatch'
  BY DEF RowsInv, ResponsesMatch
<1>7. OrdersInv' /\ StepsInv'
  BY <1>2, <1>4 DEF OrdersInv, StepsInv, TypeOK
<1> QED
  BY <1>1, <1>5, <1>6, <1>7

\* An empty key had no claim to free.
LEMMA DuplicateKeyInv == ASSUME KeyInv, NEW r \in Requests, Duplicate(r) PROVE KeyInv'
<1>1. Fail(r)
  BY DEF Duplicate, Fail, Unfinished
<1> QED
  BY <1>1, FailKeyInv

LEMMA NextKeyInv == KeyInv /\ [Next]_vars => KeyInv'
<1> SUFFICES ASSUME KeyInv, [Next]_vars PROVE KeyInv'
  OBVIOUS
<1>1. ASSUME NEW r \in Requests, WithoutKey(r) PROVE KeyInv'
  BY <1>1, MovesOn, KeysAssumption DEF WithoutKey, Steps, Unfinished, Falsy
<1>2. ASSUME NEW r \in Requests, Wait(r) PROVE KeyInv'
  BY <1>2, MovesOn DEF Wait, Steps, Unfinished
<1>3. ASSUME NEW r \in Requests, Collide(r) PROVE KeyInv'
  BY <1>3, MovesOn DEF Collide, Claiming, Steps, Unfinished
<1>4. CASE UNCHANGED vars
  BY <1>4 DEF vars, KeyInv, TypeOK, ClaimsInv, RowsInv, OrdersInv, StepsInv, ResponsesMatch
<1> QED
  BY <1>1, <1>2, <1>3, <1>4, ClaimKeyInv, AnswerKeyInv, CreateKeyInv, DuplicateKeyInv,
     FailKeyInv DEF Next, Serve

LEMMA KeyInvariant == Spec => []KeyInv
<1> QED
  BY InitKeyInv, NextKeyInv, PTL DEF Spec

-----------------------------------------------------------------------------
\* Type correctness: a key's row is absent, or completed with its order.
THEOREM TypesAreKept == Spec => []TypeOK
<1>1. KeyInv => TypeOK
  BY DEF KeyInv
<1> QED
  BY <1>1, KeyInvariant, PTL

\* A key makes one order, whatever the number of retries, and the claim alone decides.
THEOREM OneOrder == Spec => []OneOrderPerKey
<1>1. KeyInv => OneOrderPerKey
  <2> SUFFICES ASSUME KeyInv, NEW r \in Requests, NEW s \in Requests,
                      key[r] = key[s], key[r] # NoKey
               PROVE  /\ r \in orders /\ s \in orders => r = s
                      /\ key[r] \in Keys =>
                            /\ step[r] = "creating" /\ step[s] = "creating" => r = s
                            /\ ~(step[r] = "creating" /\ s \in orders)
    BY DEF OneOrderPerKey
  <2>1. key[r] \in Keys \/ key[r] = EmptyKey
    BY DEF KeyInv, TypeOK, Falsy
  <2>2. r \in orders /\ s \in orders => r = s
    BY <2>1 DEF KeyInv, OrdersInv
  <2>3. key[r] \in Keys /\ step[r] = "creating" => r \in claimant[key[r]] /\ row[key[r]] = Absent
    BY DEF KeyInv, ClaimsInv
  <2>4. key[r] \in Keys /\ step[s] = "creating" => s \in claimant[key[r]]
    BY DEF KeyInv, ClaimsInv
  <2>5. key[r] \in Keys /\ s \in orders => row[key[r]] # Absent
    BY DEF KeyInv, OrdersInv
  <2> QED
    BY <2>2, <2>3, <2>4, <2>5 DEF KeyInv, ClaimsInv
<1> QED
  BY <1>1, KeyInvariant, PTL

\* A replayed response is the order made with the same key and body.
THEOREM RepliesAreFaithful == Spec => []ResponsesMatch
<1>1. KeyInv => ResponsesMatch
  BY DEF KeyInv
<1> QED
  BY <1>1, KeyInvariant, PTL

\* A failed attempt leaves no trace of its key, and the 409 for a key in progress is
\* never answered: begin's branch for it is unreachable.
THEOREM FailuresFreeTheKey == Spec => []KeyIsNotPoisoned
<1>1. KeyInv => KeyIsNotPoisoned
  <2> SUFFICES ASSUME KeyInv PROVE KeyIsNotPoisoned
    OBVIOUS
  <2>1. \A r \in Requests : step[r] # "conflict"
    BY DEF KeyInv, StepsInv
  <2>2. ASSUME NEW k \in Keys,
               \A r \in Requests : key[r] = k => step[r] \notin Unfinished /\ r \notin orders
        PROVE  Unclaimed(k)
    <3>1. claimant[k] = {}
      BY <2>2 DEF KeyInv, ClaimsInv, Unfinished
    <3>2. row[k] = Absent
      BY <2>2 DEF KeyInv, RowsInv, TypeOK
    <3> QED
      BY <3>1, <3>2 DEF Unclaimed
  <2> QED
    BY <2>1, <2>2 DEF KeyIsNotPoisoned
<1> QED
  BY <1>1, KeyInvariant, PTL

-----------------------------------------------------------------------------
(* What RequestsAnswered rests on                                          *)

\* The guards of Serve: r need not wait, and with a claim it does not run into the index.
CanGoOn(r) ==
    \/ step[r] = "start" /\ (key[r] \in Falsy \/ claimant[key[r]] # {})
    \/ Claiming(r) /\ Unclaimed(key[r])
    \/ Claiming(r) /\ claimant[key[r]] = {} /\ row[key[r]] # Absent
    \/ step[r] = "looking"
    \/ step[r] = "creating" /\ (key[r] \in Keys => KeyUnused(r))

NobodyStuck ==
    \A r \in Requests : step[r] \in Unfinished =>
        \/ CanGoOn(r)
        \/ \E s \in claimant[key[r]] : step[s] = "creating" /\ CanGoOn(s)

\* A request that cannot go on waits for one that can: waiting for a claim is one level deep,
\* and the request that holds the claim neither waits nor fails on the unique index of
\* orders.idempotency_key (idempotency_repository.py, order_service.py).
THEOREM WaitingIsOneDeep == Spec => []NobodyStuck
<1>1. KeyInv => NobodyStuck
  <2> SUFFICES ASSUME KeyInv, NEW r \in Requests, step[r] \in Unfinished
               PROVE  \/ CanGoOn(r)
                      \/ \E s \in claimant[key[r]] : step[s] = "creating" /\ CanGoOn(s)
    BY DEF NobodyStuck
  <2> USE DEF KeyInv
  <2>1. ASSUME NEW s \in Requests, step[s] = "creating" PROVE CanGoOn(s)
    <3>1. ASSUME key[s] \in Keys PROVE \A o \in orders : key[o] # key[s]
      <4>1. s \in claimant[key[s]]
        BY <2>1, <3>1 DEF ClaimsInv
      <4>2. row[key[s]] = Absent
        BY <3>1, <4>1 DEF ClaimsInv
      <4> QED
        BY <3>1, <4>2 DEF OrdersInv
    <3> QED
      BY <2>1, <3>1 DEF CanGoOn, KeyUnused
  <2>2. CASE step[r] = "creating"
    BY <2>1, <2>2
  <2>3. CASE step[r] \in {"start", "looking"}
    BY <2>3 DEF CanGoOn, Claiming, Unclaimed, TypeOK
  <2>4. CASE step[r] = "waiting"
    <3>1. key[r] \in Keys
      BY <2>4 DEF StepsInv
    <3>2. CASE claimant[key[r]] = {}
      BY <2>4, <3>1, <3>2 DEF CanGoOn, Claiming, Unclaimed
    <3>3. CASE claimant[key[r]] # {}
      <4>1. PICK s \in claimant[key[r]] : TRUE
        BY <3>3
      <4>2. s \in Requests /\ step[s] = "creating"
        BY <3>1, <4>1 DEF ClaimsInv
      <4> QED
        BY <2>1, <4>1, <4>2
    <3> QED
      BY <3>2, <3>3
  <2> QED
    BY <2>2, <2>3, <2>4 DEF Unfinished
<1> QED
  BY <1>1, KeyInvariant, PTL

=============================================================================
