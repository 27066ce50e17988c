----------------------- MODULE StockReservation_proofs ----------------------
(***************************************************************************)
(* Proof that the transaction of create_order, statement by statement, and *)
(* the settling of orders, row by row, keep the promise of StockAllocation, *)
(* for any requests, products, warehouses and bounds.                      *)
(***************************************************************************)
EXTENDS StockReservation, SequenceTheorems, TLAPS

Steps == Running \cup Settling \cup {"granted", "refused", "aborted", "returned", "consumed"}

\* The order exists, and has not given its units back.
Kept == Settling \cup {"granted", "consumed"}

TypeInv ==
    /\ available \in [Rows -> Nat]
    /\ want \in [Requests -> Wishes]
    /\ taken \in [Requests -> [Rows -> 0 .. MaxQty]]
    /\ step \in [Requests -> Steps]
    /\ line \in [Requests -> Nat]
    /\ chosen \in [Requests -> SUBSET Rows]
    /\ moved \in [Requests -> SUBSET Rows]
    /\ beaten \subseteq Requests

\* The lines a request has reserved.
Reached(t) == {i \in DOMAIN want[t] : i < line[t] \/ step[t] \in Kept \cup {"committing"}}

\* It holds exactly those, each in one row.
HoldsReached(t) ==
    /\ \A i \in Reached(t) : \E h \in Warehouses : taken[t][<<want[t][i][1], h>>] = want[t][i][2]
    /\ \A k \in Rows : taken[t][k] > 0 =>
          /\ \E i \in Reached(t) : want[t][i][1] = k[1]
          /\ \A l \in Rows : taken[t][l] > 0 /\ l[1] = k[1] => l = k

\* The settling has updated rows of its own order, all of them when it commits.
SettlingInv(t) ==
    /\ step[t] \notin Settling => moved[t] = {}
    /\ step[t] = "settling" => moved[t] \subseteq RowsHeld(t) /\ chosen[t] \subseteq RowsHeld(t)
    /\ step[t] = "closing" => moved[t] = RowsHeld(t)

RequestInv(t) ==
    /\ line[t] \in DOMAIN want[t]
    /\ step[t] \in {"reserving", "waiting"} => chosen[t] \subseteq RowsOf(Product(t))
    /\ step[t] \in Running \cup Kept => HoldsReached(t)
    /\ step[t] \notin Running \cup Kept => taken[t] = Nothing
    /\ SettlingInv(t)

ReservationInv ==
    /\ TypeInv
    /\ LockedUnitsAreThere
    /\ \A t \in Requests : RequestInv(t)

-----------------------------------------------------------------------------
(* Facts about the data                                                    *)

\* A wish is a sequence of lines, with no product twice.
LEMMA WishFacts ==
    ASSUME NEW w \in Wishes
    PROVE  /\ Len(w) \in 1 .. MaxLines /\ DOMAIN w = 1 .. Len(w)
           /\ \A i \in 1 .. Len(w) : w[i][1] \in Products /\ w[i][2] \in 1 .. MaxQty
           /\ \A i, j \in 1 .. Len(w) : w[i][1] = w[j][1] => i = j
<1>1. PICK n \in 1 .. MaxLines : w \in [1 .. n -> Lines]
  BY DEF Wishes
<1>2. n \in Nat /\ n \in 1 .. MaxLines
  BY RowsAssumption
<1>3. w \in Seq(Lines)
  BY <1>1, <1>2, SeqDef
<1>4. DOMAIN w = 1 .. Len(w) /\ Len(w) \in Nat
  BY <1>3, LenProperties
<1>5. Len(w) = n
  BY <1>1, <1>2, <1>4
<1>6. \A i \in 1 .. Len(w) : w[i][1] \in Products /\ w[i][2] \in 1 .. MaxQty
  BY <1>1, <1>5 DEF Lines
<1>7. \A i, j \in 1 .. Len(w) : w[i][1] = w[j][1] => i = j
  BY <1>4 DEF Wishes
<1> QED
  BY <1>2, <1>4, <1>5, <1>6, <1>7

\* What is asked of one request depends on its own part of the state only.
LEMMA Frame ==
    ASSUME NEW s \in Requests, RequestInv(s), want' = want,
           taken'[s] = taken[s], step'[s] = step[s], line'[s] = line[s], chosen'[s] = chosen[s],
           moved'[s] = moved[s]
    PROVE  RequestInv(s)'
BY DEF RequestInv, HoldsReached, Reached, Product, SettlingInv, RowsHeld

\* Locks that are let go, and stock that comes back, disturb nobody.
LEMMA FewerLocks ==
    ASSUME ReservationInv, available' \in [Rows -> Nat],
           ASSUME NEW s \in Requests, NEW k \in Rows, Holds(s, k)'
           PROVE  /\ Holds(s, k)
                  /\ step'[s] \in Running => step[s] \in Running /\ taken'[s][k] = taken[s][k]
                                            /\ available[k] <= available'[k]
    PROVE  LockedUnitsAreThere'
<1> SUFFICES ASSUME NEW s \in Requests, NEW k \in Rows, Holds(s, k)'
             PROVE  /\ step'[s] \in Running => taken'[s][k] <= available'[k]
                    /\ \A r \in Requests : Holds(r, k)' => r = s
  BY DEF LockedUnitsAreThere
<1>1. taken[s][k] \in Int /\ available[k] \in Int /\ available'[k] \in Int
  BY RowsAssumption DEF ReservationInv, TypeInv
<1> QED
  BY <1>1 DEF ReservationInv, LockedUnitsAreThere

\* The line a request works on is one of its lines, with a product and a quantity.
LEMMA CurrentLine ==
    ASSUME ReservationInv, NEW t \in Requests
    PROVE  /\ want[t] \in Wishes /\ line[t] \in 1 .. Len(want[t])
           /\ Product(t) \in Products /\ Quantity(t) \in 1 .. MaxQty
<1>1. want[t] \in Wishes
  BY DEF ReservationInv, TypeInv
<1>2. line[t] \in 1 .. Len(want[t])
  BY <1>1, WishFacts DEF ReservationInv, RequestInv
<1> QED
  BY <1>1, <1>2, WishFacts DEF Product, Quantity

-----------------------------------------------------------------------------
(* The invariant                                                           *)

LEMMA InitInv == Init => ReservationInv
<1> SUFFICES ASSUME Init PROVE ReservationInv
  OBVIOUS
<1> USE DEF Init
<1>1. TypeInv
  <2>1. Nothing \in [Rows -> 0 .. MaxQty]
    BY RowsAssumption DEF Nothing
  <2>2. available \in [Rows -> Nat]
    BY RowsAssumption
  <2>3. step \in [Requests -> Steps]
    BY DEF Steps, Running
  <2>4. moved \in [Requests -> SUBSET Rows] /\ chosen \in [Requests -> SUBSET Rows]
    OBVIOUS
  <2> QED
    BY <2>1, <2>2, <2>3, <2>4 DEF TypeInv
<1>2. ASSUME NEW t \in Requests PROVE taken[t] = Nothing /\ \A k \in Rows : taken[t][k] = 0
  BY <1>2 DEF Nothing
<1>3. LockedUnitsAreThere
  BY <1>2 DEF LockedUnitsAreThere, Holds
<1>4. ASSUME NEW t \in Requests PROVE RequestInv(t)
  <2>1. want[t] \in Wishes /\ line[t] = 1 /\ step[t] = "choosing"
    BY <1>4
  <2>2. 1 \in DOMAIN want[t] /\ DOMAIN want[t] = 1 .. Len(want[t])
    BY <2>1, WishFacts
  <2>3. Reached(t) = {}
    BY <2>1, <2>2 DEF Reached, Kept, Settling
  <2> QED
    BY <1>2, <1>4, <2>1, <2>2, <2>3 DEF RequestInv, HoldsReached, Running, SettlingInv, Settling
<1> QED
  BY <1>1, <1>3, <1>4 DEF ReservationInv

\* A rollback leaves the request with nothing.
LEMMA RollbackInv ==
    ASSUME ReservationInv, NEW t \in Requests, step[t] \in Running,
           NEW why \in {"refused", "aborted"}, Rollback(t, why)
    PROVE  ReservationInv'
<1> USE DEF Rollback
<1>1. TypeInv'
  <2>1. Nothing \in [Rows -> 0 .. MaxQty]
    BY RowsAssumption DEF Nothing
  <2> QED
    BY <2>1 DEF ReservationInv, TypeInv, Steps
<1>2. /\ taken'[t] = Nothing /\ step'[t] = why /\ moved'[t] = {}
      /\ why \notin Running \cup Kept /\ why \notin Settling
  BY DEF ReservationInv, TypeInv, RequestInv, SettlingInv, Running, Kept, Settling
<1>3. ASSUME NEW s \in Requests, s # t
      PROVE  /\ taken'[s] = taken[s] /\ step'[s] = step[s]
             /\ line'[s] = line[s] /\ chosen'[s] = chosen[s] /\ moved'[s] = moved[s]
  BY <1>3 DEF ReservationInv, TypeInv
<1>4. ASSUME NEW s \in Requests, NEW k \in Rows, Holds(s, k)'
      PROVE  Holds(s, k) /\ step'[s] = step[s] /\ taken'[s][k] = taken[s][k]
  BY <1>2, <1>3, <1>4 DEF Holds
<1>5. LockedUnitsAreThere'
  <2>1. available' \in [Rows -> Nat] /\ \A k \in Rows : available[k] <= available'[k]
    BY DEF ReservationInv, TypeInv
  <2> QED
    BY <1>4, <2>1, FewerLocks
<1>6. ASSUME NEW s \in Requests PROVE RequestInv(s)'
  <2>1. CASE s # t
    BY <1>3, <1>6, <2>1, Frame DEF ReservationInv
  <2>2. CASE s = t
    <3>1. line'[t] \in DOMAIN want'[t]
      BY DEF ReservationInv, RequestInv
    <3>2. why \notin {"reserving", "waiting"}
      OBVIOUS
    <3>3. SettlingInv(t)'
      BY <1>2 DEF SettlingInv, Settling
    <3> QED
      BY <1>2, <2>2, <3>1, <3>2, <3>3 DEF RequestInv
  <2> QED
    BY <2>1, <2>2
<1> QED
  BY <1>1, <1>5, <1>6 DEF ReservationInv

\* Reserving one more line, in a row that is free and has the stock.
LEMMA TakeInv ==
    ASSUME ReservationInv, NEW t \in Requests, step[t] \in {"reserving", "waiting"},
           NEW k \in chosen[t], Matches(t, k), Free(k), Take(t, k)
    PROVE  ReservationInv'
<1> DEFINE p == Product(t)
           q == Quantity(t)
<1>1. /\ want[t] \in Wishes /\ line[t] \in 1 .. Len(want[t])
      /\ p \in Products /\ q \in 1 .. MaxQty
  BY CurrentLine
<1>2. k \in Rows /\ k[1] = p /\ \E h \in Warehouses : k = <<p, h>>
  <2>1. k \in RowsOf(p)
    BY DEF ReservationInv, RequestInv
  <2> QED
    BY <1>1, <2>1 DEF RowsOf, Rows
<1>3. /\ DOMAIN want[t] = 1 .. Len(want[t]) /\ Len(want[t]) \in Nat
      /\ \A i, j \in 1 .. Len(want[t]) : want[t][i][1] = want[t][j][1] => i = j
  BY <1>1, WishFacts
<1>4. /\ taken'[t] = [taken[t] EXCEPT ![k] = q]
      /\ \A l \in Rows : taken'[t][l] = IF l = k THEN q ELSE taken[t][l]
      /\ want' = want /\ available' = available
  BY <1>2 DEF Take, ReservationInv, TypeInv
<1>5. /\ line[t] < Len(want[t]) => line'[t] = line[t] + 1 /\ step'[t] = "choosing"
      /\ line[t] = Len(want[t]) => line'[t] = line[t] /\ step'[t] = "committing"
  BY <1>1 DEF Take, ReservationInv, TypeInv
<1>6. step[t] \in Running /\ step'[t] \in Running /\ step'[t] \in {"choosing", "committing"}
  BY <1>1, <1>3, <1>5 DEF Running
<1>7. ASSUME NEW s \in Requests, s # t
      PROVE  /\ taken'[s] = taken[s] /\ step'[s] = step[s]
             /\ line'[s] = line[s] /\ chosen'[s] = chosen[s]
  BY <1>7 DEF Take, ReservationInv, TypeInv
<1>11. moved' = moved /\ moved[t] = {}
  BY <1>6 DEF Take, ReservationInv, RequestInv, SettlingInv, Running, Settling
<1>8. TypeInv'
  <2>1. taken' \in [Requests -> [Rows -> 0 .. MaxQty]]
    <3>1. [taken[t] EXCEPT ![k] = q] \in [Rows -> 0 .. MaxQty]
      BY <1>1, <1>2, RowsAssumption DEF ReservationInv, TypeInv
    <3>2. taken' = [taken EXCEPT ![t] = [taken[t] EXCEPT ![k] = q]]
      BY DEF Take
    <3> QED
      BY <3>1, <3>2 DEF ReservationInv, TypeInv
  <2>2. step' \in [Requests -> Steps]
    BY DEF Take, ReservationInv, TypeInv, Steps, Running
  <2>3. line' \in [Requests -> Nat]
    BY DEF Take, ReservationInv, TypeInv
  <2>4. chosen' \in [Requests -> SUBSET Rows]
    BY DEF Take, ReservationInv, TypeInv
  <2> QED
    BY <1>4, <1>11, <2>1, <2>2, <2>3, <2>4 DEF Take, ReservationInv, TypeInv
<1>9. LockedUnitsAreThere'
  <2> SUFFICES ASSUME NEW s \in Requests, NEW l \in Rows, Holds(s, l)'
               PROVE  /\ step'[s] \in Running => taken'[s][l] <= available'[l]
                      /\ \A r \in Requests : Holds(r, l)' => r = s
    BY DEF LockedUnitsAreThere
  <2>1. \A r \in Requests : r # t => (Holds(r, l)' <=> Holds(r, l))
    BY <1>7, <1>11 DEF Holds
  <2>2. CASE l = k
    <3>1. \A r \in Requests : Holds(r, l)' => r = t
      BY <2>1, <2>2 DEF Free
    <3> QED
      BY <1>4, <2>2, <3>1 DEF Matches
  <2>3. CASE l # k
    <3>1. Holds(t, l)' <=> Holds(t, l)
      BY <1>4, <1>6, <1>11, <2>3 DEF Holds
    <3>2. taken'[s][l] = taken[s][l] /\ (step'[s] \in Running => step[s] \in Running)
      BY <1>4, <1>6, <1>7, <2>3
    <3> QED
      BY <1>4, <2>1, <3>1, <3>2 DEF ReservationInv, LockedUnitsAreThere
  <2> QED
    BY <2>2, <2>3
<1>10. ASSUME NEW s \in Requests PROVE RequestInv(s)'
  <2>1. CASE s # t
    BY <1>4, <1>7, <1>10, <1>11, <2>1, Frame DEF ReservationInv
  <2>2. CASE s = t
    <3>1. HoldsReached(t)
      BY <1>6 DEF ReservationInv, RequestInv
    <3>2. Reached(t) = {i \in 1 .. Len(want[t]) : i < line[t]}
      BY <1>3 DEF Reached, Kept, Settling
    <3>3. Reached(t)' = Reached(t) \cup {line[t]}
      BY <1>1, <1>3, <1>4, <1>5, <3>2 DEF Reached, Kept, Settling
    <3>4. \A l \in Rows : l[1] = p => ~(taken[t][l] > 0)
      <4> SUFFICES ASSUME NEW l \in Rows, l[1] = p, taken[t][l] > 0 PROVE FALSE
        OBVIOUS
      <4>1. PICK i \in Reached(t) : want[t][i][1] = p
        BY <3>1 DEF HoldsReached
      <4>2. i = line[t]
        BY <1>1, <1>3, <3>2, <4>1 DEF Product
      <4> QED
        BY <1>1, <3>2, <4>2
    <3>5. ASSUME NEW i \in Reached(t)'
          PROVE  \E h \in Warehouses : taken'[t][<<want[t][i][1], h>>] = want[t][i][2]
      <4>1. CASE i = line[t]
        BY <1>2, <1>4, <4>1 DEF Product, Quantity
      <4>2. CASE i \in Reached(t)
        <5>1. PICK h \in Warehouses : taken[t][<<want[t][i][1], h>>] = want[t][i][2]
          BY <3>1, <4>2 DEF HoldsReached
        <5>2. i \in 1 .. Len(want[t]) /\ i # line[t]
          BY <1>1, <3>2, <4>2
        <5>3. want[t][i][1] \in Products /\ want[t][i][1] # p
          BY <1>1, <1>3, <5>2, WishFacts DEF Product
        <5>4. <<want[t][i][1], h>> \in Rows /\ <<want[t][i][1], h>> # k
          BY <1>2, <5>3 DEF Rows
        <5> QED
          BY <1>4, <5>1, <5>4
      <4> QED
        BY <3>3, <3>5, <4>1, <4>2
    <3>6. ASSUME NEW l \in Rows, taken'[t][l] > 0
          PROVE  /\ \E i \in Reached(t)' : want[t][i][1] = l[1]
                 /\ \A m \in Rows : taken'[t][m] > 0 /\ m[1] = l[1] => m = l
      <4>1. CASE l = k
        <5>1. want[t][line[t]][1] = l[1]
          BY <1>2, <4>1 DEF Product
        <5> QED
          BY <1>2, <1>4, <3>3, <3>4, <4>1, <5>1
      <4>2. CASE l # k
        <5>1. taken[t][l] > 0
          BY <1>4, <3>6, <4>2
        <5>2. l[1] # p
          BY <3>4, <5>1
        <5> QED
          BY <1>2, <1>4, <3>1, <3>3, <5>1, <5>2 DEF HoldsReached
      <4> QED
        BY <4>1, <4>2
    <3>7. HoldsReached(t)'
      BY <1>4, <3>5, <3>6 DEF HoldsReached
    <3>8. line'[t] \in DOMAIN want'[t]
      BY <1>1, <1>3, <1>4, <1>5
    <3> QED
      BY <1>6, <1>11, <2>2, <3>7, <3>8 DEF RequestInv, Running, Settling, SettlingInv
  <2> QED
    BY <2>1, <2>2
<1> QED
  BY <1>8, <1>9, <1>10 DEF ReservationInv

LEMMA AdvanceInv ==
    ASSUME ReservationInv, NEW t \in Requests, Advance(t)
    PROVE  ReservationInv'
<1>1. CASE Choose(t)
  <2> USE <1>1 DEF Choose
  <2>1. PICK k \in Candidates(t) : chosen' = [chosen EXCEPT ![t] = {k}]
    OBVIOUS
  <2>2. k \in RowsOf(Product(t)) /\ k \in Rows
    BY CurrentLine DEF Candidates, RowsOf, Rows
  <2>3. TypeInv'
    BY <2>1, <2>2 DEF ReservationInv, TypeInv, Steps, Running
  <2>4. ASSUME NEW s \in Requests
        PROVE  step[s] \in Running <=> step'[s] \in Running
    BY <2>4 DEF ReservationInv, TypeInv, Running
  <2>5. LockedUnitsAreThere'
    BY <2>4 DEF ReservationInv, LockedUnitsAreThere, Holds
  <2>6. ASSUME NEW s \in Requests PROVE RequestInv(s)'
    <3>1. CASE s # t
      BY <2>1, <2>6, <3>1, Frame DEF ReservationInv, TypeInv
    <3>2. CASE s = t
      <4>1. chosen'[t] = {k} /\ step'[t] = "reserving" /\ step[t] = "choosing"
        BY <2>1 DEF ReservationInv, TypeInv
      <4>2. HoldsReached(t) /\ line[t] \in DOMAIN want[t]
        BY <4>1 DEF ReservationInv, RequestInv, Running
      <4>3. HoldsReached(t)'
        BY <4>1, <4>2 DEF HoldsReached, Reached, Kept, Settling
      <4> QED
        BY <2>2, <3>2, <4>1, <4>2, <4>3
        DEF ReservationInv, RequestInv, Running, Product, Settling, SettlingInv
    <3> QED
      BY <3>1, <3>2
  <2> QED
    BY <2>3, <2>5, <2>6 DEF ReservationInv
<1>2. CASE NoWarehouse(t)
  BY <1>2, RollbackInv DEF NoWarehouse, Running
<1>3. CASE Reserve(t)
  BY <1>3, TakeInv DEF Reserve
<1>4. CASE Wait(t)
  <2> USE <1>4 DEF Wait
  <2>1. TypeInv'
    BY DEF ReservationInv, TypeInv, Steps, Running
  <2>2. ASSUME NEW s \in Requests
        PROVE  step[s] \in Running <=> step'[s] \in Running
    BY <2>2 DEF ReservationInv, TypeInv, Running
  <2>3. LockedUnitsAreThere'
    BY <2>2 DEF ReservationInv, LockedUnitsAreThere, Holds
  <2>4. ASSUME NEW s \in Requests PROVE RequestInv(s)'
    <3>1. CASE s # t
      BY <2>4, <3>1, Frame DEF ReservationInv, TypeInv
    <3>2. CASE s = t
      <4>1. step'[t] = "waiting" /\ step[t] = "reserving"
        BY DEF ReservationInv, TypeInv
      <4>2. HoldsReached(t) /\ line[t] \in DOMAIN want[t] /\ chosen[t] \subseteq RowsOf(Product(t))
        BY <4>1 DEF ReservationInv, RequestInv, Running
      <4>3. HoldsReached(t)'
        BY <4>1, <4>2 DEF HoldsReached, Reached, Kept, Settling
      <4> QED
        BY <3>2, <4>1, <4>2, <4>3
        DEF ReservationInv, RequestInv, Running, Product, Settling, SettlingInv
    <3> QED
      BY <3>1, <3>2
  <2> QED
    BY <2>1, <2>3, <2>4 DEF ReservationInv
<1>5. CASE Resume(t)
  BY <1>5, TakeInv DEF Resume
<1>6. CASE LoseRace(t)
  BY <1>6, RollbackInv DEF LoseRace, Running
<1>7. CASE Commit(t)
  <2> USE <1>7 DEF Commit
  <2>1. ASSUME NEW k \in Rows
        PROVE  taken[t][k] <= available[k] /\ taken[t][k] \in Nat /\ available[k] \in Nat
    <3>1. taken[t][k] \in Nat /\ available[k] \in Nat
      BY RowsAssumption DEF ReservationInv, TypeInv
    <3>2. CASE taken[t][k] > 0
      BY <3>1, <3>2 DEF ReservationInv, LockedUnitsAreThere, Holds, Running
    <3> QED
      BY <3>1, <3>2
  <2>2. TypeInv'
    <3>1. available' \in [Rows -> Nat]
      BY <2>1
    <3>2. beaten' \subseteq Requests
      BY DEF Beats, ReservationInv, TypeInv
    <3> QED
      BY <3>1, <3>2 DEF ReservationInv, TypeInv, Steps, Running
  <2>3. step'[t] = "granted" /\ \A s \in Requests : s # t => step'[s] = step[s]
    BY DEF ReservationInv, TypeInv
  <2>4. LockedUnitsAreThere'
    <3> SUFFICES ASSUME NEW s \in Requests, NEW k \in Rows, Holds(s, k)'
                 PROVE  /\ step'[s] \in Running => taken'[s][k] <= available'[k]
                        /\ \A r \in Requests : Holds(r, k)' => r = s
      BY DEF LockedUnitsAreThere
    <3>4. moved'[t] = {}
      BY DEF ReservationInv, RequestInv, SettlingInv, Settling
    <3>1. s # t /\ \A r \in Requests : Holds(r, k)' => Holds(r, k)
      BY <2>3, <3>4 DEF Holds, Running
    <3>2. Holds(s, k) /\ ~Holds(t, k)
      BY <3>1 DEF ReservationInv, LockedUnitsAreThere
    <3>3. taken[t][k] = 0
      BY <2>1, <3>2 DEF Holds, Running
    <3> QED
      BY <2>1, <3>1, <3>2, <3>3 DEF ReservationInv, LockedUnitsAreThere
  <2>5. ASSUME NEW s \in Requests PROVE RequestInv(s)'
    <3>1. CASE s # t
      BY <2>3, <2>5, <3>1, Frame
      DEF ReservationInv
    <3>2. CASE s = t
      <4>1. HoldsReached(t) /\ line[t] \in DOMAIN want[t]
        BY DEF ReservationInv, RequestInv, Running
      <4>2. HoldsReached(t)'
        BY <2>3, <4>1 DEF HoldsReached, Reached, Kept
      <4> QED
        BY <2>3, <3>2, <4>1, <4>2 DEF ReservationInv, RequestInv, Running, Settling, SettlingInv, Kept
    <3> QED
      BY <3>1, <3>2
  <2> QED
    BY <2>2, <2>4, <2>5 DEF ReservationInv
<1>8. CASE DeadlockVictim(t)
  BY <1>8, RollbackInv DEF DeadlockVictim, Running
<1> QED
  BY <1>1, <1>2, <1>3, <1>4, <1>5, <1>6, <1>7, <1>8 DEF Advance

\* Settling moves locks, and gives units back: creations under way keep theirs.
LEMMA SettleInv ==
    ASSUME ReservationInv, NEW t \in Requests,
           BeginSettling(t) \/ Settle(t) \/ SettlingFails(t)
    PROVE  ReservationInv'
<1> DEFINE Mine == /\ step'[t] \in Steps /\ step'[t] \notin Running
                   /\ moved'[t] \subseteq Rows /\ chosen'[t] \subseteq Rows
                   /\ RequestInv(t)'
                   /\ taken'[t] \in [Rows -> 0 .. MaxQty]
           Others == /\ step' = [step EXCEPT ![t] = step'[t]]
                     /\ moved' = [moved EXCEPT ![t] = moved'[t]]
                     /\ chosen' = [chosen EXCEPT ![t] = chosen'[t]]
                     /\ taken' = [taken EXCEPT ![t] = taken'[t]]
                     /\ want' = want /\ line' = line /\ beaten' = beaten
           Stock == /\ available' \in [Rows -> Nat]
                    /\ \A k \in Rows : available[k] <= available'[k]
           Locks == \A k \in moved'[t] : k \in moved[t] \/ Free(k)
<1>1. /\ step[t] \notin Running /\ step[t] \in Kept
      /\ HoldsReached(t) /\ line[t] \in DOMAIN want[t] /\ SettlingInv(t)
  <2>1. step[t] \in {"granted", "settling", "closing"}
    BY DEF BeginSettling, Settle, MoveRow, CommitReturn, CommitConsume, SettlingVictim,
           SettlingFails, Settling
  <2> QED
    BY <2>1 DEF ReservationInv, RequestInv, Kept, Settling, Running
<1>2. /\ available \in [Rows -> Nat] /\ taken \in [Requests -> [Rows -> 0 .. MaxQty]]
      /\ step \in [Requests -> Steps] /\ chosen \in [Requests -> SUBSET Rows]
      /\ moved \in [Requests -> SUBSET Rows] /\ RowsHeld(t) \subseteq Rows
  BY DEF ReservationInv, TypeInv, RowsHeld
<1>3. ASSUME taken'[t] = taken[t], want' = want, line' = line, step'[t] \in Kept
      PROVE  HoldsReached(t)' /\ RowsHeld(t)' = RowsHeld(t) /\ line'[t] \in DOMAIN want'[t]
  BY <1>1, <1>3 DEF HoldsReached, Reached, RowsHeld
<1>4. ASSUME step'[t] \in Kept, HoldsReached(t)', SettlingInv(t)', line'[t] \in DOMAIN want'[t]
      PROVE  RequestInv(t)' /\ step'[t] \notin Running /\ step'[t] \in Steps
  BY <1>4 DEF RequestInv, Kept, Settling, Running, Steps
<1>5. Mine /\ Others /\ Stock /\ Locks
  <2>1. CASE BeginSettling(t)
    <3> USE <2>1 DEF BeginSettling
    <3>1. moved[t] = {} /\ moved' = moved
      BY <1>1 DEF SettlingInv, Settling
    <3>2. taken'[t] = taken[t] /\ want' = want /\ line' = line
      OBVIOUS
    <3>3. CASE RowsHeld(t) = {} /\ step' = [step EXCEPT ![t] = "closing"]
                                /\ chosen' = [chosen EXCEPT ![t] = {}]
      <4>1. step'[t] = "closing" /\ chosen'[t] = {} /\ step'[t] \in Kept
        BY <1>2, <3>3 DEF Kept, Settling
      <4>2. HoldsReached(t)' /\ RowsHeld(t)' = RowsHeld(t) /\ line'[t] \in DOMAIN want'[t]
        BY <1>3, <3>2, <4>1
      <4>3. SettlingInv(t)'
        BY <3>1, <3>3, <4>1, <4>2 DEF SettlingInv, Settling
      <4> QED
        BY <1>2, <1>4, <3>1, <3>3, <4>1, <4>2, <4>3
    <3>4. ASSUME NEW k \in RowsHeld(t), step' = [step EXCEPT ![t] = "settling"],
                 chosen' = [chosen EXCEPT ![t] = {k}]
          PROVE  Mine /\ Others /\ Stock /\ Locks
      <4>1. step'[t] = "settling" /\ chosen'[t] = {k} /\ step'[t] \in Kept
        BY <1>2, <3>4 DEF Kept, Settling
      <4>2. HoldsReached(t)' /\ RowsHeld(t)' = RowsHeld(t) /\ line'[t] \in DOMAIN want'[t]
        BY <1>3, <3>2, <4>1
      <4>3. SettlingInv(t)'
        BY <3>1, <4>1, <4>2 DEF SettlingInv, Settling
      <4> QED
        BY <1>2, <1>4, <3>1, <3>4, <4>1, <4>2, <4>3
    <3> QED
      BY <3>3, <3>4 DEF GoOn
  <2>2. CASE MoveRow(t)
    <3> USE <2>2 DEF MoveRow
    <3>1. PICK k \in chosen[t] : /\ Free(k)
                                 /\ moved' = [moved EXCEPT ![t] = @ \cup {k}]
                                 /\ GoOn(t, RowsHeld(t) \ (moved[t] \cup {k}))
      OBVIOUS
    <3>2. /\ moved'[t] = moved[t] \cup {k} /\ k \in RowsHeld(t) /\ moved[t] \subseteq RowsHeld(t)
          /\ moved'[t] \subseteq Rows /\ moved' = [moved EXCEPT ![t] = moved'[t]]
      BY <1>1, <1>2, <3>1 DEF SettlingInv
    <3>3. taken'[t] = taken[t] /\ want' = want /\ line' = line
      OBVIOUS
    <3>4. CASE /\ RowsHeld(t) \ (moved[t] \cup {k}) = {}
               /\ step' = [step EXCEPT ![t] = "closing"]
               /\ chosen' = [chosen EXCEPT ![t] = {}]
      <4>1. step'[t] = "closing" /\ chosen'[t] = {} /\ step'[t] \in Kept
        BY <1>2, <3>4 DEF Kept, Settling
      <4>2. HoldsReached(t)' /\ RowsHeld(t)' = RowsHeld(t) /\ line'[t] \in DOMAIN want'[t]
        BY <1>3, <3>3, <4>1
      <4>3. SettlingInv(t)'
        BY <3>2, <3>4, <4>1, <4>2 DEF SettlingInv, Settling
      <4> QED
        BY <1>2, <1>4, <3>1, <3>2, <3>4, <4>1, <4>2, <4>3
    <3>5. ASSUME NEW l \in RowsHeld(t), step' = [step EXCEPT ![t] = "settling"],
                 chosen' = [chosen EXCEPT ![t] = {l}]
          PROVE  Mine /\ Others /\ Stock /\ Locks
      <4>1. step'[t] = "settling" /\ chosen'[t] = {l} /\ step'[t] \in Kept
        BY <1>2, <3>5 DEF Kept, Settling
      <4>2. HoldsReached(t)' /\ RowsHeld(t)' = RowsHeld(t) /\ line'[t] \in DOMAIN want'[t]
        BY <1>3, <3>3, <4>1
      <4>3. SettlingInv(t)'
        BY <3>2, <4>1, <4>2 DEF SettlingInv, Settling
      <4> QED
        BY <1>2, <1>4, <3>1, <3>2, <3>5, <4>1, <4>2, <4>3
    <3> QED
      BY <3>1, <3>4, <3>5 DEF GoOn
  <2>3. CASE CommitReturn(t)
    <3> USE <2>3 DEF CommitReturn
    <3>1. /\ step'[t] = "returned" /\ moved'[t] = {} /\ moved[t] = RowsHeld(t)
          /\ chosen'[t] = chosen[t]
      BY <1>1, <1>2 DEF SettlingInv
    <3>2. \A k \in Rows : taken[t][k] \in Nat /\ available[k] \in Nat
      BY <1>2, RowsAssumption
    <3>3. taken'[t] = [k \in Rows |-> IF k \in moved[t] THEN 0 ELSE taken[t][k]]
      BY <1>2
    <3>4. taken'[t] = Nothing
      BY <3>1, <3>2, <3>3 DEF RowsHeld, Nothing
    <3>5. Nothing \in [Rows -> 0 .. MaxQty]
      BY RowsAssumption DEF Nothing
    <3>6. Stock
      BY <3>2
    <3>7. RequestInv(t)'
      BY <1>1, <3>1, <3>4 DEF RequestInv, SettlingInv, Settling, Running, Kept
    <3>8. step'[t] \in Steps /\ step'[t] \notin Running
      BY <3>1 DEF Steps, Running
    <3> QED
      BY <1>2, <3>1, <3>4, <3>5, <3>6, <3>7, <3>8
  <2>4. CASE CommitConsume(t) \/ SettlingVictim(t) \/ SettlingFails(t)
    <3>1. /\ step'[t] \in {"consumed", "granted"} /\ moved'[t] = {} /\ chosen'[t] \subseteq Rows
          /\ taken' = taken /\ want' = want /\ line' = line /\ available' = available
          /\ Others
      BY <1>2, <2>4 DEF CommitConsume, SettlingVictim, SettlingFails, UndoSettling
    <3>2. step'[t] \in Kept /\ step'[t] \notin Settling
      BY <3>1 DEF Kept, Settling
    <3>3. HoldsReached(t)' /\ line'[t] \in DOMAIN want'[t]
      BY <1>3, <3>1, <3>2
    <3>4. SettlingInv(t)'
      BY <3>1, <3>2 DEF SettlingInv, Settling
    <3> QED
      BY <1>2, <1>4, <3>1, <3>2, <3>3, <3>4
  <2> QED
    BY <2>1, <2>2, <2>3, <2>4 DEF Settle
<1>6. TypeInv'
  BY <1>2, <1>5 DEF ReservationInv, TypeInv
<1>7. ASSUME NEW s \in Requests, s # t
      PROVE  /\ taken'[s] = taken[s] /\ step'[s] = step[s] /\ line'[s] = line[s]
             /\ chosen'[s] = chosen[s] /\ moved'[s] = moved[s]
  BY <1>2, <1>5, <1>7
<1>8. LockedUnitsAreThere'
  <2> SUFFICES ASSUME NEW s \in Requests, NEW k \in Rows, Holds(s, k)'
               PROVE  /\ step'[s] \in Running => taken'[s][k] <= available'[k]
                      /\ \A r \in Requests : Holds(r, k)' => r = s
    BY DEF LockedUnitsAreThere
  <2>1. taken[s][k] \in Int /\ available[k] \in Int /\ available'[k] \in Int
    BY <1>2, <1>5, RowsAssumption
  <2>2. \A r \in Requests : r # t => (Holds(r, k)' <=> Holds(r, k))
    BY <1>7 DEF Holds
  <2>3. Holds(t, k)' => Holds(t, k) \/ Free(k)
    BY <1>5 DEF Holds
  <2>4. step'[s] \in Running => s # t /\ Holds(s, k)
    BY <1>5, <2>2
  <2>5. step'[s] \in Running => taken'[s][k] <= available'[k]
    BY <1>5, <1>7, <2>1, <2>4 DEF ReservationInv, LockedUnitsAreThere
  <2>6. \A r \in Requests : Holds(r, k)' => r = s
    BY <2>2, <2>3 DEF Free, ReservationInv, LockedUnitsAreThere
  <2> QED
    BY <2>5, <2>6
<1>9. ASSUME NEW s \in Requests PROVE RequestInv(s)'
  BY <1>5, <1>7, <1>9, Frame DEF ReservationInv
<1> QED
  BY <1>6, <1>8, <1>9 DEF ReservationInv

LEMMA AdjustInv ==
    ASSUME ReservationInv, NEW k \in Rows, NEW d \in Deltas, Adjust(k, d)
    PROVE  ReservationInv'
<1> USE DEF Adjust
<1>1. TypeInv'
  <2>1. available[k] + d \in Nat
    BY RowsAssumption
  <2>2. beaten' \subseteq Requests
    BY DEF Beats, ReservationInv, TypeInv
  <2> QED
    BY <2>1, <2>2 DEF ReservationInv, TypeInv
<1>2. \A s \in Requests, l \in Rows : Holds(s, l)' => Holds(s, l) /\ l # k
  BY DEF Holds, Free
<1>3. LockedUnitsAreThere'
  <2>1. available' \in [Rows -> Nat] /\ \A l \in Rows : l # k => available[l] <= available'[l]
    BY <1>1 DEF ReservationInv, TypeInv
  <2> QED
    BY <1>2, <2>1, FewerLocks
<1>4. ASSUME NEW s \in Requests PROVE RequestInv(s)'
  BY <1>4, Frame DEF ReservationInv
<1> QED
  BY <1>1, <1>3, <1>4 DEF ReservationInv

LEMMA InvStays == ReservationInv /\ [Next]_vars => ReservationInv'
<1> SUFFICES ASSUME ReservationInv, [Next]_vars PROVE ReservationInv'
  OBVIOUS
<1>1. CASE \E t \in Requests : Advance(t)
  BY <1>1, AdvanceInv
<1>2. CASE \E t \in Requests : Abort(t)
  BY <1>2, RollbackInv DEF Abort
<1>3. CASE \E t \in Requests : BeginSettling(t) \/ Settle(t) \/ SettlingFails(t)
  BY <1>3, SettleInv
<1>4. CASE \E k \in Rows, d \in Deltas : Adjust(k, d)
  BY <1>4, AdjustInv
<1>5. CASE UNCHANGED vars
  <2> USE <1>5 DEF vars
  <2>1. TypeInv' /\ LockedUnitsAreThere'
    BY DEF ReservationInv, TypeInv, LockedUnitsAreThere, Holds, Running
  <2>2. ASSUME NEW s \in Requests PROVE RequestInv(s)'
    BY <2>2, Frame DEF ReservationInv
  <2> QED
    BY <2>1, <2>2 DEF ReservationInv
<1> QED
  BY <1>1, <1>2, <1>3, <1>4, <1>5 DEF Next

LEMMA ReservationInvariant == Spec => []ReservationInv
<1> QED
  BY InitInv, InvStays, PTL DEF Spec

-----------------------------------------------------------------------------
(* The properties                                                          *)

\* Every variable of the transactions keeps its type; a statement works on a line of the
\* order it belongs to, and no row's stock goes below zero.
THEOREM TypesAreKept == Spec => []TypeOK
<1>1. ReservationInv => TypeOK
  <2> SUFFICES ASSUME ReservationInv PROVE TypeOK
    OBVIOUS
  <2>1. taken \in [Requests -> [Rows -> Nat]]
    <3>1. [Rows -> 0 .. MaxQty] \subseteq [Rows -> Nat]
      BY RowsAssumption
    <3> QED
      BY <3>1 DEF ReservationInv, TypeInv
  <2>2. \A t \in Requests : line[t] \in DOMAIN want[t]
    BY DEF ReservationInv, RequestInv
  <2> QED
    BY <2>1, <2>2 DEF ReservationInv, TypeInv, TypeOK, Steps
<1> QED
  BY <1>1, ReservationInvariant, PTL

\* What try_reserve has taken and not committed is there, and nobody else can take it.
THEOREM LockedUnits == Spec => []LockedUnitsAreThere
<1>1. ReservationInv => LockedUnitsAreThere
  BY DEF ReservationInv
<1> QED
  BY <1>1, ReservationInvariant, PTL

\* The row a request has chosen still has what it asks, unless it was beaten to it.
SawStock(t) ==
    step[t] \in {"reserving", "waiting"} /\ t \notin beaten =>
        \A k \in chosen[t] : available[k] >= Quantity(t)

LEMMA SawStockStays ==
    ASSUME ReservationInv, [Next]_vars, NEW t \in Requests, SawStock(t)
    PROVE  SawStock(t)'
<1> SUFFICES ASSUME step'[t] \in {"reserving", "waiting"}, t \notin beaten',
                    NEW k \in chosen'[t]
             PROVE  available'[k] >= Quantity(t)'
  BY DEF SawStock
<1>1. /\ step \in [Requests -> Steps] /\ chosen \in [Requests -> SUBSET Rows]
      /\ available \in [Rows -> Nat] /\ taken \in [Requests -> [Rows -> 0 .. MaxQty]]
      /\ line \in [Requests -> Nat] /\ Quantity(t) \in Int
  <2>1. Quantity(t) \in 1 .. MaxQty
    BY CurrentLine
  <2> QED
    BY <2>1, RowsAssumption DEF ReservationInv, TypeInv
\* Nothing of t's changes, and if the row's stock falls, t is beaten.
<1>2. ASSUME step'[t] = step[t], chosen'[t] = chosen[t], line'[t] = line[t], want' = want,
             t \in beaten \/ available[k] <= available'[k],
             beaten \subseteq beaten'
      PROVE  available'[k] >= Quantity(t)'
  <2>1. k \in Rows /\ available[k] \in Int /\ available[k] >= Quantity(t)
    BY <1>1, <1>2 DEF SawStock
  <2>2. available'[k] \in Int
    BY <2>1, InvStays DEF ReservationInv, TypeInv
  <2> QED
    BY <1>1, <1>2, <2>1, <2>2 DEF Quantity
<1>3. ASSUME NEW s \in Requests, Advance(s) \/ Abort(s) PROVE available'[k] >= Quantity(t)'
  <2>1. CASE s = t
    <3>1. Choose(t) \/ Wait(t)
      BY <1>1, <1>3, <2>1
      DEF Advance, Abort, NoWarehouse, Reserve, Resume, LoseRace, Commit, DeadlockVictim,
          Take, Rollback, Steps
    <3>2. CASE Choose(t)
      <4>1. PICK l \in Candidates(t) : chosen' = [chosen EXCEPT ![t] = {l}]
        BY <3>2 DEF Choose
      <4> QED
        BY <1>1, <3>2, <4>1 DEF Choose, Candidates, Quantity
    <3>3. CASE Wait(t)
      <4>1. /\ step[t] = "reserving" /\ chosen' = chosen /\ available' = available
            /\ beaten' = beaten /\ line' = line /\ want' = want
        BY <3>3 DEF Wait
      <4> QED
        BY <4>1 DEF SawStock, Quantity
    <3> QED
      BY <3>1, <3>2, <3>3
  <2>2. CASE s # t /\ Commit(s)
    <3>1. /\ step'[t] = step[t] /\ chosen'[t] = chosen[t] /\ line'[t] = line[t] /\ want' = want
          /\ beaten \subseteq beaten'
      BY <1>1, <2>2 DEF Commit, Beats
    <3>2. k \in Rows /\ taken[s][k] \in Nat /\ available[k] \in Nat
      BY <1>1, <3>1, RowsAssumption
    <3>3. ~(taken[s][k] > 0)
      BY <2>2, <3>1, <3>2 DEF Commit, Beats
    <3>4. available[k] <= available'[k]
      BY <2>2, <3>2, <3>3 DEF Commit
    <3> QED
      BY <1>2, <3>1, <3>4
  <2>3. CASE s # t /\ ~Commit(s)
    <3>1. /\ step'[t] = step[t] /\ chosen'[t] = chosen[t] /\ line'[t] = line[t] /\ want' = want
          /\ available' = available /\ (t \in beaten <=> t \in beaten')
      BY <1>1, <1>3, <2>3
      DEF Advance, Abort, Choose, NoWarehouse, Reserve, Wait, Resume, LoseRace, DeadlockVictim,
          Take, Rollback
    <3>2. k \in Rows /\ available[k] >= Quantity(t)
      BY <1>1, <3>1 DEF SawStock
    <3> QED
      BY <3>1, <3>2 DEF Quantity
  <2> QED
    BY <2>1, <2>2, <2>3
<1>4. ASSUME NEW s \in Requests, BeginSettling(s) \/ Settle(s) \/ SettlingFails(s)
      PROVE  available'[k] >= Quantity(t)'
  <2>1. s # t
    BY <1>1, <1>4
    DEF BeginSettling, Settle, MoveRow, GoOn, CommitReturn, CommitConsume, SettlingVictim,
        SettlingFails, UndoSettling, Steps
  <2>2. /\ step'[t] = step[t] /\ chosen'[t] = chosen[t] /\ line'[t] = line[t] /\ want' = want
        /\ beaten' = beaten
    BY <1>1, <1>4, <2>1
    DEF BeginSettling, Settle, MoveRow, GoOn, CommitReturn, CommitConsume, SettlingVictim,
        SettlingFails, UndoSettling
  <2>3. k \in Rows /\ taken[s][k] \in Nat /\ available[k] \in Nat
    BY <1>1, <2>2, RowsAssumption
  <2>4. available[k] <= available'[k]
    BY <1>4, <2>3
    DEF BeginSettling, Settle, MoveRow, CommitReturn, CommitConsume, SettlingVictim,
        SettlingFails, UndoSettling
  <2> QED
    BY <1>2, <2>2, <2>4
<1>5. ASSUME NEW l \in Rows, NEW d \in Deltas, Adjust(l, d) PROVE available'[k] >= Quantity(t)'
  <2>1. /\ step' = step /\ chosen' = chosen /\ line' = line /\ want' = want
        /\ beaten \subseteq beaten'
    BY <1>5 DEF Adjust, Beats
  <2>2. k \in Rows /\ available[k] \in Nat /\ available[l] \in Nat /\ d \in Int
    BY <1>1, <2>1, RowsAssumption
  <2>3. ~(k = l /\ d < 0)
    BY <1>5, <2>1 DEF Adjust, Beats
  <2>4. available[k] <= available'[k]
    BY <1>1, <1>5, <2>2, <2>3 DEF Adjust
  <2> QED
    BY <1>2, <2>1, <2>4
<1>6. CASE UNCHANGED vars
  BY <1>6 DEF vars, SawStock, Quantity
<1> QED
  BY <1>3, <1>4, <1>5, <1>6 DEF Next

\* An order is refused for stock that is missing in every warehouse, or because another
\* order or a write-off was committed between its SELECT and its UPDATE
\* (order_service.py:95-111): for any number of requests, rows and units.
THEOREM RefusalsExplained == Spec => RefusedOnlyIfBeaten
<1> DEFINE Seen == \A t \in Requests : SawStock(t)
           Explained == \A t \in Requests :
               step[t] \in Running /\ step'[t] = "refused" /\ t \notin beaten =>
                   \E i \in DOMAIN want[t] :
                       \A k \in RowsOf(want[t][i][1]) : available[k] < want[t][i][2]
<1>1. Init => Seen
  BY DEF Init, SawStock
<1>2. ReservationInv /\ Seen /\ [Next]_vars => Seen'
  BY SawStockStays
<1>3. ASSUME ReservationInv, Seen, Next, NEW t \in Requests, t \notin beaten,
             step[t] \in Running, step'[t] = "refused"
      PROVE  \E i \in DOMAIN want[t] :
                 \A k \in RowsOf(want[t][i][1]) : available[k] < want[t][i][2]
  <2>1. /\ step \in [Requests -> Steps] /\ step[t] # "refused"
        /\ chosen \in [Requests -> SUBSET Rows] /\ \A k \in Rows : available[k] \in Int
        /\ line[t] \in DOMAIN want[t]
    BY <1>3 DEF ReservationInv, TypeInv, RequestInv, Running
  <2>2. RowsOf(Product(t)) \subseteq Rows /\ Quantity(t) \in Int
    <3>1. Product(t) \in Products /\ Quantity(t) \in 1 .. MaxQty
      BY <1>3, CurrentLine
    <3> QED
      BY <3>1, RowsAssumption DEF RowsOf, Rows
  <2>3. NoWarehouse(t) \/ LoseRace(t)
    <3>1. ASSUME NEW s \in Requests, Advance(s) PROVE NoWarehouse(t) \/ LoseRace(t)
      BY <1>3, <2>1, <3>1
      DEF Advance, Choose, NoWarehouse, Reserve, Wait, Resume, LoseRace, Commit,
          DeadlockVictim, Take, Rollback
    <3>2. ASSUME NEW s \in Requests, Abort(s) PROVE FALSE
      BY <1>3, <2>1, <3>2 DEF Abort, Rollback
    <3>3. ASSUME NEW s \in Requests, BeginSettling(s) \/ Settle(s) \/ SettlingFails(s)
          PROVE  FALSE
      BY <1>3, <2>1, <3>3
      DEF BeginSettling, Settle, MoveRow, GoOn, CommitReturn, CommitConsume, SettlingVictim,
          SettlingFails, UndoSettling
    <3>4. ASSUME NEW k \in Rows, NEW d \in Deltas, Adjust(k, d) PROVE FALSE
      BY <1>3, <2>1, <3>4 DEF Adjust
    <3> QED
      BY <1>3, <3>1, <3>2, <3>3, <3>4 DEF Next
  \* Nobody loses a race who was not beaten.
  <2>4. ~LoseRace(t)
    BY <1>3, <2>1, <2>2 DEF LoseRace, Matches, SawStock
  <2>5. \A k \in RowsOf(Product(t)) : available[k] < Quantity(t)
    BY <2>1, <2>2, <2>3, <2>4 DEF NoWarehouse, Candidates
  <2> QED
    BY <2>1, <2>5 DEF Product, Quantity
<1>4. ReservationInv /\ Seen /\ [Next]_vars => [Explained]_vars
  BY <1>3
<1> QED
  BY <1>1, <1>2, <1>4, ReservationInvariant, PTL DEF Spec, RefusedOnlyIfBeaten

-----------------------------------------------------------------------------
(* The refinement                                                          *)

\* The abstract specification speaks of the same rows and lines.
LEMMA SameData ==
    /\ Promise!Rows = Rows /\ Promise!Nothing = Nothing /\ Promise!Wishes = Wishes
BY DEF Promise!Rows, Rows, Promise!Nothing, Nothing, Promise!Wishes, Wishes, Promise!Lines, Lines

\* A step of a transaction that goes on, or that leaves what is settled, is a stutter.
LEMMA Unseen ==
    ASSUME NEW t \in Requests, step[t] \in Running, step'[t] \in Running,
           available' = available, want' = want,
           \A s \in Requests : s # t => step'[s] = step[s] /\ taken'[s] = taken[s]
    PROVE  UNCHANGED Promise!vars
<1>1. Outcome(t) = "open" /\ Outcome(t)' = "open" /\ Settled(t)' = Settled(t)
  BY DEF Outcome, Settled, Running
<1>2. \A s \in Requests : s # t => Outcome(s)' = Outcome(s) /\ Settled(s)' = Settled(s)
  BY DEF Outcome, Settled
<1> QED
  BY <1>1, <1>2 DEF Promise!vars

\* A rollback gives the client its refusal and the order nothing.
LEMMA RollbackRefuses ==
    ASSUME ReservationInv, NEW t \in Requests, step[t] \in Running,
           NEW why \in {"refused", "aborted"}, Rollback(t, why)
    PROVE  Promise!Refuse(t)
<1>1. step'[t] = why /\ taken'[t] = Nothing
  BY DEF Rollback, ReservationInv, TypeInv
<1>2. Outcome(t) = "open" /\ Outcome(t)' = "refused" /\ Settled(t) = Nothing /\ Settled(t)' = Nothing
  BY <1>1 DEF Outcome, Settled, Running
<1>3. \A s \in Requests : s # t => Outcome(s)' = Outcome(s) /\ Settled(s)' = Settled(s)
  BY DEF Outcome, Settled, Rollback, ReservationInv, TypeInv
<1>4. \A s \in Requests : Settled(s)' = Settled(s)
  BY <1>2, <1>3
<1>5. [s \in Requests |-> Outcome(s)]' = [[s \in Requests |-> Outcome(s)] EXCEPT ![t] = "refused"]
  BY <1>2, <1>3
<1> QED
  BY <1>2, <1>4, <1>5 DEF Promise!Refuse, Rollback

\* A commit hands out all the lines at once.
LEMMA CommitGrants ==
    ASSUME ReservationInv, NEW t \in Requests, Commit(t)
    PROVE  Promise!Grant(t)
<1>1. step[t] = "committing" /\ step'[t] = "granted" /\ taken' = taken
  BY DEF Commit, ReservationInv, TypeInv
<1>2. /\ Outcome(t) = "open" /\ Outcome(t)' = "granted"
      /\ Settled(t) = Nothing /\ Settled(t)' = taken[t]
  BY <1>1 DEF Outcome, Settled, Running
<1>3. \A s \in Requests : s # t => Outcome(s)' = Outcome(s) /\ Settled(s)' = Settled(s)
  BY DEF Outcome, Settled, Commit, ReservationInv, TypeInv
<1>4. taken[t] \in [Rows -> 0 .. MaxQty]
  BY DEF ReservationInv, TypeInv
<1>5. Promise!Serves(taken[t], want[t])
  <2>1. HoldsReached(t) /\ Reached(t) = DOMAIN want[t]
    BY <1>1 DEF ReservationInv, RequestInv, Running, Reached
  <2> QED
    BY <1>4, <2>1, SameData DEF Promise!Serves, HoldsReached
<1>6. \A k \in Rows : available[k] >= taken[t][k]
  <2> SUFFICES ASSUME NEW k \in Rows PROVE available[k] >= taken[t][k]
    OBVIOUS
  <2>1. available[k] \in Nat /\ taken[t][k] \in Nat
    BY RowsAssumption DEF ReservationInv, TypeInv
  <2>2. step[t] \in Running /\ (taken[t][k] > 0 => Holds(t, k))
    BY <1>1 DEF Holds, Running
  <2> QED
    BY <2>1, <2>2 DEF ReservationInv, LockedUnitsAreThere
<1>7. [s \in Requests |-> Outcome(s)]' = [[s \in Requests |-> Outcome(s)] EXCEPT ![t] = "granted"]
  BY <1>2, <1>3
<1>8. [s \in Requests |-> Settled(s)]' = [[s \in Requests |-> Settled(s)] EXCEPT ![t] = taken[t]]
  BY <1>2, <1>3
<1>9. available' = [k \in Rows |-> available[k] - taken[t][k]] /\ want' = want
  BY DEF Commit
<1> QED
  BY <1>2, <1>4, <1>5, <1>6, <1>7, <1>8, <1>9, SameData DEF Promise!Grant

\* The commit of a settling that returns the units gives all of them back.
LEMMA ReturnGivesBack ==
    ASSUME ReservationInv, NEW t \in Requests, CommitReturn(t)
    PROVE  Promise!GiveBack(t)
<1>1. /\ step \in [Requests -> Steps] /\ taken \in [Requests -> [Rows -> 0 .. MaxQty]]
      /\ available \in [Rows -> Nat] /\ step[t] = "closing" /\ step'[t] = "returned"
      /\ \A k \in Rows : taken[t][k] \in Nat /\ available[k] \in Nat
  BY RowsAssumption DEF CommitReturn, ReservationInv, TypeInv
<1>2. moved[t] = RowsHeld(t)
  BY <1>1 DEF ReservationInv, RequestInv, SettlingInv
<1>3. taken'[t] = Nothing
  <2>1. taken'[t] = [k \in Rows |-> IF k \in moved[t] THEN 0 ELSE taken[t][k]]
    BY <1>1 DEF CommitReturn
  <2> QED
    BY <1>1, <1>2, <2>1 DEF RowsHeld, Nothing
<1>4. available' = [k \in Rows |-> available[k] + taken[t][k]] /\ want' = want
  <2>1. \A k \in Rows : (IF k \in moved[t] THEN available[k] + taken[t][k] ELSE available[k])
                           = available[k] + taken[t][k]
    BY <1>1, <1>2 DEF RowsHeld
  <2> QED
    BY <2>1 DEF CommitReturn
<1>5. /\ Outcome(t) = "granted" /\ Outcome(t)' = "returned"
      /\ Settled(t) = taken[t] /\ Settled(t)' = Nothing
  BY <1>1, <1>3 DEF Outcome, Settled, Running
<1>6. \A s \in Requests : s # t => Outcome(s)' = Outcome(s) /\ Settled(s)' = Settled(s)
  BY <1>1 DEF Outcome, Settled, CommitReturn
<1>7. [s \in Requests |-> Outcome(s)]' = [[s \in Requests |-> Outcome(s)] EXCEPT ![t] = "returned"]
  BY <1>5, <1>6
<1>8. [s \in Requests |-> Settled(s)]' = [[s \in Requests |-> Settled(s)] EXCEPT ![t] = Nothing]
  BY <1>5, <1>6
<1> QED
  BY <1>4, <1>5, <1>7, <1>8, SameData DEF Promise!GiveBack

\* The other steps of a settling move locks, which the promise does not see.
LEMMA SettlingUnseen ==
    ASSUME ReservationInv, NEW t \in Requests,
           BeginSettling(t) \/ MoveRow(t) \/ CommitConsume(t) \/ SettlingVictim(t) \/ SettlingFails(t)
    PROVE  UNCHANGED Promise!vars
<1>1. /\ step[t] \in Kept /\ step'[t] \in Kept
      /\ taken' = taken /\ available' = available /\ want' = want
      /\ \A s \in Requests : s # t => step'[s] = step[s]
  BY DEF BeginSettling, MoveRow, GoOn, CommitConsume, SettlingVictim, SettlingFails, UndoSettling,
         ReservationInv, TypeInv, Kept, Settling
<1>2. Outcome(t) = "granted" /\ Outcome(t)' = "granted" /\ Settled(t)' = Settled(t)
  BY <1>1 DEF Outcome, Settled, Kept, Settling, Running
<1>3. \A s \in Requests : Outcome(s)' = Outcome(s) /\ Settled(s)' = Settled(s)
  BY <1>1, <1>2 DEF Outcome, Settled
<1> QED
  BY <1>1, <1>3 DEF Promise!vars

LEMMA StepsMap == ReservationInv /\ [Next]_vars => [Promise!Next]_(Promise!vars)
<1> SUFFICES ASSUME ReservationInv, [Next]_vars PROVE Promise!Next \/ UNCHANGED Promise!vars
  OBVIOUS
<1>1. ASSUME NEW t \in Requests, Choose(t) \/ Wait(t) PROVE UNCHANGED Promise!vars
  BY <1>1, Unseen DEF Choose, Wait, Running, ReservationInv, TypeInv
<1>2. ASSUME NEW t \in Requests, Reserve(t) \/ Resume(t) PROVE UNCHANGED Promise!vars
  BY <1>2, Unseen DEF Reserve, Resume, Take, Running, ReservationInv, TypeInv
<1>3. ASSUME NEW t \in Requests, NoWarehouse(t) \/ LoseRace(t) \/ DeadlockVictim(t) \/ Abort(t)
      PROVE  Promise!Next
  <2>1. step[t] \in Running
    BY <1>3 DEF NoWarehouse, LoseRace, DeadlockVictim, Abort, Running
  <2>2. Rollback(t, "refused") \/ Rollback(t, "aborted")
    BY <1>3 DEF NoWarehouse, LoseRace, DeadlockVictim, Abort
  <2> QED
    BY <2>1, <2>2, RollbackRefuses DEF Promise!Next
<1>4. ASSUME NEW t \in Requests, Commit(t) PROVE Promise!Next
  BY <1>4, CommitGrants DEF Promise!Next
<1>5. ASSUME NEW t \in Requests, CommitReturn(t) PROVE Promise!Next
  BY <1>5, ReturnGivesBack DEF Promise!Next
<1>8. ASSUME NEW t \in Requests, BeginSettling(t) \/ MoveRow(t) \/ CommitConsume(t)
                                    \/ SettlingVictim(t) \/ SettlingFails(t)
      PROVE  UNCHANGED Promise!vars
  BY <1>8, SettlingUnseen
<1>6. ASSUME NEW k \in Rows, NEW d \in Deltas, Adjust(k, d) PROVE Promise!Next
  <2>1. \A s \in Requests : Outcome(s)' = Outcome(s) /\ Settled(s)' = Settled(s)
    BY <1>6 DEF Adjust, Outcome, Settled
  <2>2. Promise!Adjust(k, d)
    BY <1>6, <2>1 DEF Adjust, Promise!Adjust
  <2> QED
    BY <2>2, SameData DEF Promise!Next
<1>7. CASE UNCHANGED vars
  BY <1>7 DEF vars, Promise!vars, Outcome, Settled
<1> QED
  BY <1>1, <1>2, <1>3, <1>4, <1>5, <1>6, <1>7, <1>8 DEF Next, Advance, Settle

LEMMA InitMaps == Init => Promise!Init
BY SameData DEF Init, Promise!Init, Outcome, Settled, Running

\* create_order, statement by statement, is one atomic step or nothing: for every number
\* of requests, products and warehouses, and whatever the database aborts.
THEOREM ReservationKeepsPromise == Spec => KeepsPromise
<1> QED
  BY InitMaps, StepsMap, ReservationInvariant, PTL DEF Spec, KeepsPromise, Promise!Spec

-----------------------------------------------------------------------------
(* Creation in OrderContract and OrderLifecycle                            *)

\* The baskets of OrderLifecycle.
Baskets ==
    {b \in [Rows -> 0 .. MaxQty] :
        /\ \E k \in Rows : b[k] > 0
        /\ \A k, l \in Rows : k # l /\ b[k] > 0 /\ b[l] > 0 => k[1] # l[1]}

StatusOf(t) ==
    IF step[t] \in Kept THEN "RESERVED" ELSE IF step[t] = "returned" THEN "CANCELLED" ELSE "NONE"

\* Where the statements of create_order have led, as OrderContract sees it.
Contract == INSTANCE OrderContract WITH
    Orders <- Requests,
    status <- [t \in Requests |-> StatusOf(t)],
    line <- [t \in Requests |-> Settled(t)],
    resv <- [t \in Requests |->
               [k \in Rows |-> IF step[t] \in Kept /\ taken[t][k] > 0 THEN "ACTIVE" ELSE "NONE"]],
    due <- [t \in Requests |-> FALSE]

CommitsPlaceOrders == [][\A t \in Requests : Commit(t) => \E b \in Baskets : Contract!Place(t, b)]_vars

\* A wish is for something, and for no product twice.
LEMMA ServedByBasket ==
    ASSUME ReservationInv, NEW t \in Requests, step[t] = "committing" PROVE taken[t] \in Baskets
<1>1. taken[t] \in [Rows -> 0 .. MaxQty] /\ want[t] \in Wishes
  BY DEF ReservationInv, TypeInv
<1>2. HoldsReached(t) /\ Reached(t) = DOMAIN want[t]
  BY DEF ReservationInv, RequestInv, Running, Reached
<1>3. /\ Len(want[t]) \in 1 .. MaxLines /\ DOMAIN want[t] = 1 .. Len(want[t])
      /\ \A i \in 1 .. Len(want[t]) :
            want[t][i][1] \in Products /\ want[t][i][2] \in 1 .. MaxQty
  BY <1>1, WishFacts
<1>4. \E k \in Rows : taken[t][k] > 0
  <2>1. 1 \in DOMAIN want[t] /\ want[t][1][1] \in Products /\ want[t][1][2] > 0
    BY <1>3, RowsAssumption
  <2>2. PICK h \in Warehouses : taken[t][<<want[t][1][1], h>>] = want[t][1][2]
    BY <1>2, <2>1 DEF HoldsReached
  <2>3. <<want[t][1][1], h>> \in Rows
    BY <2>1 DEF Rows
  <2> QED
    BY <2>1, <2>2, <2>3
<1>5. \A k, l \in Rows : k # l /\ taken[t][k] > 0 /\ taken[t][l] > 0 => k[1] # l[1]
  BY <1>2 DEF HoldsReached
<1> QED
  BY <1>1, <1>4, <1>5 DEF Baskets

\* The commit of create_order (order_service.py:46-173) is the one step in which OrderContract
\* places an order, and so OrderLifecycle's CreateOrder: a basket with a line in it, one
\* warehouse for each product, granted whole from committed stock.
THEOREM CommitIsPlacing == Spec => CommitsPlaceOrders
<1>1. ASSUME ReservationInv, NEW t \in Requests, Commit(t)
      PROVE  \E b \in Baskets : Contract!Place(t, b)
  <2>1. /\ step[t] = "committing" /\ step' = [step EXCEPT ![t] = "granted"] /\ taken' = taken
        /\ available' = [k \in Rows |-> available[k] - taken[t][k]]
    BY <1>1 DEF Commit
  <2>2. step'[t] = "granted" /\ \A s \in Requests : s # t => step'[s] = step[s]
    BY <1>1, <2>1 DEF ReservationInv, TypeInv
  <2>3. taken[t] \in Baskets
    BY <1>1, <2>1, ServedByBasket
  <2>4. \A k \in Rows : taken[t][k] <= available[k]
    <3> TAKE k \in Rows
    <3>1. available[k] \in Nat /\ taken[t][k] \in Nat
      BY <1>1, RowsAssumption DEF ReservationInv, TypeInv
    <3>2. step[t] \in Running /\ (taken[t][k] > 0 => Holds(t, k))
      BY <2>1 DEF Holds, Running
    <3> QED
      BY <1>1, <3>1, <3>2 DEF ReservationInv, LockedUnitsAreThere
  <2>5. [s \in Requests |-> StatusOf(s)][t] = "NONE"
    BY <2>1 DEF StatusOf, Kept, Settling
  <2>6. [s \in Requests |-> StatusOf(s)]' = [[s \in Requests |-> StatusOf(s)] EXCEPT ![t] = "RESERVED"]
    BY <2>2 DEF StatusOf, Kept
  <2>7. [s \in Requests |-> Settled(s)]' = [[s \in Requests |-> Settled(s)] EXCEPT ![t] = taken[t]]
    BY <2>1, <2>2 DEF Settled, Running
  <2>8. [s \in Requests |-> [k \in Rows |->
            IF step[s] \in Kept /\ taken[s][k] > 0 THEN "ACTIVE" ELSE "NONE"]]'
        = [[s \in Requests |-> [k \in Rows |->
            IF step[s] \in Kept /\ taken[s][k] > 0 THEN "ACTIVE" ELSE "NONE"]]
              EXCEPT ![t] = [k \in Rows |-> IF taken[t][k] > 0 THEN "ACTIVE" ELSE "NONE"]]
    BY <2>1, <2>2 DEF Kept
  <2>9. PICK b \in Baskets : b = taken[t]
    BY <2>3
  <2>10. Contract!Place(t, b)
    BY <2>1, <2>4, <2>5, <2>6, <2>7, <2>8, <2>9 DEF Contract!Place
  <2> QED
    BY <2>10
<1>2. ReservationInv /\ [Next]_vars =>
        [\A t \in Requests : Commit(t) => \E b \in Baskets : Contract!Place(t, b)]_vars
  BY <1>1
<1> QED
  BY <1>2, ReservationInvariant, PTL DEF Spec, CommitsPlaceOrders
=============================================================================
