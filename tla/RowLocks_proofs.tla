--------------------------- MODULE RowLocks_proofs --------------------------
(***************************************************************************)
(* Proof that the statements and row locks of RowLocks implement the       *)
(* atomic steps of OrderLifecycle, so that its theorems hold for them.     *)
(***************************************************************************)
EXTENDS RowLocks, OrderLifecycle_promises

-----------------------------------------------------------------------------
(* What holds of a session inside its transaction                          *)

LockedOrder == {"list", "mark", "stock", "commit"}

\* Nothing ACTIVE of the order has escaped s.
Covers(s) ==
    \A k \in Rows : resv[doing[s]][k] = "ACTIVE" => <<doing[s], k>> \in marked[s] \cup todo[s]

SettlerOK(s) ==
    /\ at[s] # "expire" /\ expiring[s] = {}
    /\ at[s] \notin {"none", "done"} => doing[s] \in Orders /\ status[doing[s]] # "NONE"
    /\ at[s] \in LockedOrder => OrderRow(doing[s]) \in held[s]
    /\ at[s] \in {"none", "done", "order", "list"} => marked[s] = {} /\ todo[s] = {}
    /\ at[s] = "commit" => todo[s] = {}
    /\ at[s] = "stock" => cur[s] \subseteq marked[s]
    /\ \A r \in marked[s] \cup todo[s] : r[1] = doing[s]
    /\ at[s] \in {"mark", "stock"} => Covers(s)
    /\ at[s] \in {"none", "done", "order"} => held[s] = {}
    /\ \A r \in Orders \X Rows : ResvRow(r) \in held[s] => r[1] = doing[s]

\* The status was read under the order's lock.
CancelOK(c) ==
    /\ at[c] \in LockedOrder => status[doing[c]] = "RESERVED"
    /\ at[c] = "commit" => Covers(c)

\* The transaction is the one after the charge.
WorkerOK(w) ==
    /\ at[w] # "done"
    /\ at[w] # "none" => pc[w] = "charging" /\ doing[w] = job[w]
    /\ at[w] \in {"list", "mark", "stock"} => ~RetryAllowed(w)
    /\ at[w] = "commit" => RetryAllowed(w) \/ Covers(w)

\* A claimed batch of due reservations; those handled have their orders locked, and expiring
\* if they are RESERVED.
SweepOK(s) ==
    /\ at[s] \in {"none", "stock", "expire", "commit"}
    /\ at[s] = "none" => marked[s] = {} /\ expiring[s] = {}
    /\ at[s] # "none" => marked[s] # {} /\ Cardinality(marked[s]) <= BatchSize
    /\ at[s] = "commit" => todo[s] = {}
    /\ todo[s] \subseteq marked[s]
    /\ \A r \in marked[s] : due[r[1]]
    /\ \A r \in marked[s] \ todo[s] :
          OrderRow(r[1]) \in held[s] /\ (r[1] \in expiring[s] <=> status[r[1]] = "RESERVED")
    /\ \A o \in expiring[s] :
          /\ OrderRow(o) \in held[s]
          /\ status[o] = "RESERVED"
          /\ \E r \in marked[s] : r[1] = o

\* Locked and listed rows exist; what is listed or marked is ACTIVE, as its own row or that
\* of its order is locked.
HeldOK(s) ==
    /\ \A o \in Orders : OrderRow(o) \in held[s] => status[o] # "NONE"
    /\ \A r \in marked[s] : ResvRow(r) \in held[s]
    /\ \A r \in marked[s] \cup todo[s] : status[r[1]] # "NONE" /\ StillActive(r)

SessionOK(s) ==
    /\ HeldOK(s)
    /\ s \in Settlers => SettlerOK(s)
    /\ s \in Cancels => CancelOK(s)
    /\ s \in Workers => WorkerOK(s)
    /\ s \in Sweeps => SweepOK(s)

\* No row is locked twice.
Alone == \A s, u \in Sessions : s # u => held[s] \cap held[u] = {}

LockInv ==
    /\ OwnInv
    /\ LTypeOK
    /\ Alone
    /\ \A s \in Sessions : SessionOK(s)

-----------------------------------------------------------------------------
(* The frame of a session: what others may do around it                    *)

\* u is not the one that moves, and the rows it has locked stay as they are.
Undisturbed(u) ==
    /\ at'[u] = at[u] /\ doing'[u] = doing[u] /\ todo'[u] = todo[u] /\ cur'[u] = cur[u]
    /\ marked'[u] = marked[u] /\ expiring'[u] = expiring[u] /\ held'[u] = held[u]
    /\ \A o \in Orders : status[o] # "NONE" =>
          /\ status'[o] # "NONE"
          /\ token'[o] = token[o]
          /\ \A k \in Rows : resv'[o][k] = "ACTIVE" => resv[o][k] = "ACTIVE"
    /\ \A o \in Orders : OrderRow(o) \in held[u] => status'[o] = status[o]
    /\ \A r \in marked[u] \cup todo[u] : resv'[r[1]][r[2]] = "ACTIVE"
    /\ \A o \in Orders : due[o] => due'[o]
    /\ u \in Workers /\ at[u] # "none" => pc'[u] = pc[u] /\ job'[u] = job[u] /\ attempt'[u] = attempt[u]

LEMMA Frame ==
    ASSUME LockInv, NEW u \in Sessions, Undisturbed(u)
    PROVE  SessionOK(u)'
<1> USE DEF Undisturbed
<1>0. SessionOK(u) /\ LTypeOK
  BY DEF LockInv
<1>t. marked[u] \cup todo[u] \subseteq Orders \X Rows /\ expiring[u] \subseteq Orders
  BY <1>0 DEF LTypeOK
<1>r. \A r \in marked[u] \cup todo[u] : r[1] \in Orders /\ r[2] \in Rows
  BY <1>t
<1>1. HeldOK(u)'
  BY <1>0, <1>r DEF SessionOK, HeldOK, StillActive
<1>2. ASSUME u \in Settlers PROVE SettlerOK(u)'
  BY <1>0, <1>2 DEF SessionOK, SettlerOK, Covers
<1>3. ASSUME u \in Cancels PROVE CancelOK(u)'
  <2>1. CancelOK(u) /\ SettlerOK(u)
    BY <1>0, <1>3 DEF SessionOK, Settlers
  <2>2. CASE at[u] \in LockedOrder
    BY <2>1, <2>2 DEF CancelOK, SettlerOK, Covers, LockedOrder
  <2>3. CASE at[u] \notin LockedOrder
    BY <2>3 DEF CancelOK, LockedOrder
  <2> QED
    BY <2>2, <2>3
<1>4. ASSUME u \in Workers PROVE WorkerOK(u)'
  <2>1. WorkerOK(u) /\ SettlerOK(u)
    BY <1>0, <1>4 DEF SessionOK, Settlers
  <2>2. CASE at[u] = "none"
    BY <2>1, <2>2 DEF WorkerOK
  <2>3. CASE at[u] # "none"
    <3>1. doing[u] = job[u] /\ doing[u] \in Orders /\ status[doing[u]] # "NONE"
      BY <2>1, <2>3 DEF WorkerOK, SettlerOK
    <3>2. RetryAllowed(u)' <=> RetryAllowed(u)
      BY <1>4, <2>3, <3>1 DEF RetryAllowed
    <3>3. Covers(u) => Covers(u)'
      BY <3>1 DEF Covers
    <3> QED
      BY <1>4, <2>1, <2>3, <3>2, <3>3 DEF WorkerOK
  <2> QED
    BY <2>2, <2>3
<1>5. ASSUME u \in Sweeps PROVE SweepOK(u)'
  <2>1. SweepOK(u)
    BY <1>0, <1>5 DEF SessionOK
  <2> QED
    BY <1>r, <1>t, <2>1 DEF SweepOK
<1> QED
  BY <1>1, <1>2, <1>3, <1>4, <1>5 DEF SessionOK

\* The transaction of s writes rows it has locked, and nothing of another session.
Mine(s) ==
    /\ \A u \in Sessions \ {s} :
          /\ at'[u] = at[u] /\ doing'[u] = doing[u] /\ todo'[u] = todo[u] /\ cur'[u] = cur[u]
          /\ marked'[u] = marked[u] /\ expiring'[u] = expiring[u] /\ held'[u] = held[u]
    /\ token' = token /\ due' = due
    /\ \A o \in Orders :
          status'[o] = status[o] \/ (OrderRow(o) \in held[s] /\ status'[o] # "NONE")
    /\ \A o \in Orders, k \in Rows :
          \/ resv'[o][k] = resv[o][k]
          \/ /\ OrderRow(o) \in held[s] /\ ResvRow(<<o, k>>) \in held[s]
             /\ resv'[o][k] # "ACTIVE"
    /\ \A w \in Workers \ {s} : pc'[w] = pc[w] /\ job'[w] = job[w] /\ attempt'[w] = attempt[w]

\* What a session relies on is locked by it.
LEMMA Relies ==
    ASSUME LockInv, NEW u \in Sessions, NEW r \in marked[u] \cup todo[u]
    PROVE  /\ r \in Orders \X Rows /\ r[1] \in Orders /\ r[2] \in Rows /\ r = <<r[1], r[2]>>
           /\ resv[r[1]][r[2]] = "ACTIVE" /\ status[r[1]] # "NONE"
           /\ OrderRow(r[1]) \in held[u] \/ ResvRow(r) \in held[u]
<1>1. SessionOK(u) /\ LTypeOK
  BY DEF LockInv
<1>2. r \in Orders \X Rows
  BY <1>1 DEF LTypeOK
<1>3. r[1] \in Orders /\ r[2] \in Rows /\ r = <<r[1], r[2]>>
  BY <1>2
<1>4. resv[r[1]][r[2]] = "ACTIVE" /\ status[r[1]] # "NONE"
  BY <1>1 DEF SessionOK, HeldOK, StillActive
<1>5. CASE u \in Sweeps
  BY <1>1, <1>2, <1>3, <1>4, <1>5 DEF SessionOK, SweepOK, HeldOK
<1>6. CASE u \in Settlers
  BY <1>1, <1>2, <1>3, <1>4, <1>6 DEF SessionOK, SettlerOK, LTypeOK, LockedOrder, Statements
<1> QED
  BY <1>5, <1>6 DEF Sessions

LEMMA Others ==
    ASSUME LockInv, NEW s \in Sessions, Mine(s), NEW u \in Sessions \ {s}
    PROVE  SessionOK(u)'
<1>1. Alone /\ LTypeOK /\ SessionOK(s) /\ SessionOK(u)
  BY DEF LockInv
<1>2. \A x \in held[u] : x \notin held[s]
  BY <1>1 DEF Alone
<1>3. \A r \in marked[u] \cup todo[u] : resv'[r[1]][r[2]] = "ACTIVE"
  <2> TAKE r \in marked[u] \cup todo[u]
  <2>1. /\ r[1] \in Orders /\ r[2] \in Rows /\ r = <<r[1], r[2]>> /\ resv[r[1]][r[2]] = "ACTIVE"
        /\ OrderRow(r[1]) \in held[u] \/ ResvRow(r) \in held[u]
    BY Relies
  <2> QED
    BY <1>2, <2>1 DEF Mine
<1>4. \A o \in Orders : status[o] # "NONE" =>
          /\ status'[o] # "NONE"
          /\ token'[o] = token[o]
          /\ \A k \in Rows : resv'[o][k] = "ACTIVE" => resv[o][k] = "ACTIVE"
  BY DEF Mine
<1>5. \A o \in Orders : OrderRow(o) \in held[u] => status'[o] = status[o]
  BY <1>2 DEF Mine
<1>6. Undisturbed(u)
  BY <1>3, <1>4, <1>5 DEF Undisturbed, Mine
<1> QED
  BY <1>6, Frame

-----------------------------------------------------------------------------
(* The end of a transaction                                                *)

LEMMA Closed ==
    ASSUME LTypeOK, NEW s \in Sessions, Close(s)
    PROVE  /\ SessionOK(s)'
           /\ LTypeOK'
           /\ held'[s] = {}
           /\ \A u \in Sessions \ {s} :
                 /\ at'[u] = at[u] /\ doing'[u] = doing[u] /\ todo'[u] = todo[u] /\ cur'[u] = cur[u]
                 /\ marked'[u] = marked[u] /\ expiring'[u] = expiring[u] /\ held'[u] = held[u]
<1>1. /\ at'[s] = IF s \in Cancels THEN "done" ELSE "none"
      /\ todo'[s] = {} /\ cur'[s] = {} /\ marked'[s] = {} /\ expiring'[s] = {} /\ held'[s] = {}
  BY DEF Close, LTypeOK
<1>2. LTypeOK'
  <2>1. /\ at' \in [Sessions -> Statements]
        /\ doing' \in [Sessions -> Orders \cup {NoOrder}]
        /\ todo' \in [Sessions -> SUBSET (Orders \X Rows)]
        /\ cur' \in [Sessions -> SUBSET (Orders \X Rows)]
        /\ marked' \in [Sessions -> SUBSET (Orders \X Rows)]
        /\ expiring' \in [Sessions -> SUBSET Orders]
        /\ held' \in [Sessions -> SUBSET TableRows]
    BY DEF Close, LTypeOK, Statements
  <2>2. \A u \in Sessions : cur'[u] \subseteq todo'[u] /\ \A q, r \in cur'[u] : q = r
    BY DEF Close, LTypeOK
  <2> QED
    BY <2>1, <2>2 DEF LTypeOK
<1>3. \A u \in Sessions \ {s} :
          /\ at'[u] = at[u] /\ doing'[u] = doing[u] /\ todo'[u] = todo[u] /\ cur'[u] = cur[u]
          /\ marked'[u] = marked[u] /\ expiring'[u] = expiring[u] /\ held'[u] = held[u]
  BY DEF Close, LTypeOK
<1>4. HeldOK(s)'
  BY <1>1 DEF HeldOK
<1>5. s \in Settlers => SettlerOK(s)'
  BY <1>1 DEF SettlerOK, LockedOrder
<1>6. s \in Cancels => CancelOK(s)'
  BY <1>1 DEF CancelOK, LockedOrder
<1>7. s \in Workers => WorkerOK(s)'
  BY <1>1, SessionsAssumption DEF WorkerOK
<1>8. s \in Sweeps => SweepOK(s)'
  BY <1>1, SessionsAssumption DEF SweepOK
<1> QED
  BY <1>1, <1>2, <1>3, <1>4, <1>5, <1>6, <1>7, <1>8 DEF SessionOK

\* s has written only what it has locked, and closes: all of the invariant but the part
\* about OrderLifecycle.
LEMMA Ends ==
    ASSUME LockInv, NEW s \in Sessions, Mine(s), Close(s)
    PROVE  LTypeOK' /\ Alone' /\ \A u \in Sessions : SessionOK(u)'
<1>1. LTypeOK /\ Alone
  BY DEF LockInv
<1>2. SessionOK(s)' /\ LTypeOK' /\ held'[s] = {} /\ \A u \in Sessions \ {s} : held'[u] = held[u]
  BY <1>1, Closed
<1>3. Alone'
  BY <1>1, <1>2 DEF Alone
<1>4. \A u \in Sessions \ {s} : SessionOK(u)'
  BY Others
<1> QED
  BY <1>2, <1>3, <1>4

-----------------------------------------------------------------------------
(* The statements before it                                                *)

\* Only s moves, it has written nothing yet, and it has locked what was free.
Moves(s) ==
    /\ LTypeOK'
    /\ UNCHANGED vars
    /\ \A u \in Sessions \ {s} :
          /\ at'[u] = at[u] /\ doing'[u] = doing[u] /\ todo'[u] = todo[u] /\ cur'[u] = cur[u]
          /\ marked'[u] = marked[u] /\ expiring'[u] = expiring[u] /\ held'[u] = held[u]
          /\ \A x \in held'[s] : x \in held[s] \/ x \notin held[u]

LEMMA Continues ==
    ASSUME LockInv, NEW s \in Sessions, Moves(s), SessionOK(s)'
    PROVE  LockInv'
<1>0. UNCHANGED <<status, token, resv, due, pc, job, attempt>>
  BY DEF Moves, vars, orderVars, workerVars
<1>1. Mine(s)
  BY <1>0 DEF Moves, Mine
<1>2. \A u \in Sessions \ {s} : SessionOK(u)'
  BY <1>1, Others
<1>3. Alone'
  BY DEF LockInv, Alone, Moves
<1>4. OwnInv'
  BY NextOwnInv DEF LockInv, Moves
<1> QED
  BY <1>2, <1>3, <1>4 DEF LockInv, Moves

\* What GoOn makes of the lock variables.
GoesOn(s, R, stmt) ==
    /\ at' \in [Sessions -> Statements]
    /\ todo' \in [Sessions -> SUBSET (Orders \X Rows)]
    /\ cur' \in [Sessions -> SUBSET (Orders \X Rows)]
    /\ \A u \in Sessions : cur'[u] \subseteq todo'[u] /\ \A q, r \in cur'[u] : q = r
    /\ todo'[s] = R
    /\ (R = {} /\ at'[s] = "commit") \/ (R # {} /\ at'[s] = stmt)
    /\ \A u \in Sessions \ {s} : at'[u] = at[u] /\ todo'[u] = todo[u] /\ cur'[u] = cur[u]

LEMMA GoOnFacts ==
    ASSUME LTypeOK, NEW s \in Sessions, NEW R \in SUBSET (Orders \X Rows),
           NEW stmt \in Statements, GoOn(s, R, stmt)
    PROVE  GoesOn(s, R, stmt)
<1> USE DEF GoesOn
<1>1. todo' \in [Sessions -> SUBSET (Orders \X Rows)] /\ todo'[s] = R
      /\ \A u \in Sessions \ {s} : todo'[u] = todo[u]
  BY DEF GoOn, LTypeOK
<1>2. CASE R = {} /\ cur' = [cur EXCEPT ![s] = {}] /\ at' = [at EXCEPT ![s] = "commit"]
  <2>1. /\ at' \in [Sessions -> Statements]
        /\ cur' \in [Sessions -> SUBSET (Orders \X Rows)]
        /\ cur'[s] = {} /\ at'[s] = "commit"
        /\ \A u \in Sessions \ {s} : at'[u] = at[u] /\ cur'[u] = cur[u]
    BY <1>2 DEF LTypeOK, Statements
  <2>2. \A u \in Sessions : cur'[u] \subseteq todo'[u] /\ \A p, q \in cur'[u] : p = q
    BY <1>1, <2>1 DEF LTypeOK
  <2> QED
    BY <1>1, <1>2, <2>1, <2>2
<1>3. ASSUME NEW r \in R, cur' = [cur EXCEPT ![s] = {r}], at' = [at EXCEPT ![s] = stmt]
      PROVE  /\ at' \in [Sessions -> Statements]
             /\ cur' \in [Sessions -> SUBSET (Orders \X Rows)]
             /\ cur'[s] = {r} /\ at'[s] = stmt
             /\ \A u \in Sessions \ {s} : at'[u] = at[u] /\ cur'[u] = cur[u]
  BY <1>3 DEF LTypeOK
<1>4. ASSUME NEW r \in R, cur' = [cur EXCEPT ![s] = {r}], at' = [at EXCEPT ![s] = stmt]
      PROVE  \A u \in Sessions : cur'[u] \subseteq todo'[u] /\ \A p, q \in cur'[u] : p = q
  BY <1>1, <1>3, <1>4 DEF LTypeOK
<1> QED
  BY <1>1, <1>2, <1>3, <1>4 DEF GoOn

\* What the next statement of s locks.
LEMMA NeedsOf ==
    ASSUME LTypeOK, NEW s \in Sessions, NEW stmt, Runs(s, stmt)
    PROVE  /\ stmt = "order" => Needs(s) = {OrderRow(doing[s])}
           /\ stmt = "mark" => Needs(s) = {ResvRow(r) : r \in cur[s]}
           /\ stmt = "stock" => Needs(s) = {StockRow(r[2]) : r \in cur[s]}
           /\ stmt = "expire" => Needs(s) = {OrderRow(r[1]) : r \in cur[s]}
           /\ held'[s] = held[s] \cup Needs(s)
           /\ \A u \in Sessions \ {s} :
                 held'[u] = held[u] /\ \A x \in held'[s] : x \in held[s] \/ x \notin held[u]
<1>1. held'[s] = held[s] \cup Needs(s) /\ \A u \in Sessions \ {s} : held'[u] = held[u]
  BY DEF Runs, LTypeOK
<1>2. \A u \in Sessions \ {s} : \A x \in held'[s] : x \in held[s] \/ x \notin held[u]
  BY <1>1 DEF Runs
<1>3. at[s] = stmt
  BY DEF Runs
<1> QED
  BY <1>1, <1>2, <1>3 DEF Needs

LEMMA HeldType ==
    ASSUME LTypeOK, NEW s \in Sessions, NEW stmt, Runs(s, stmt),
           stmt = "order" => doing[s] \in Orders, stmt \in {"order", "mark", "stock", "expire"}
    PROVE  held' \in [Sessions -> SUBSET TableRows]
<1>1. cur[s] \subseteq Orders \X Rows /\ \A r \in cur[s] : r[1] \in Orders /\ r[2] \in Rows
  BY DEF LTypeOK
<1>2. Needs(s) \subseteq TableRows
  BY <1>1, NeedsOf DEF TableRows
<1> QED
  BY <1>2 DEF Runs, LTypeOK

\* A settler's session is right if it moves and keeps what SettlerOK and its own kind ask.
LEMMA SettlerMoves ==
    ASSUME LockInv, NEW s \in Settlers, Moves(s), HeldOK(s)', SettlerOK(s)',
           s \in Cancels => CancelOK(s)', s \in Workers => WorkerOK(s)'
    PROVE  LockInv'
<1>1. s \in Sessions /\ s \notin Sweeps
  BY SessionsAssumption DEF Sessions, Settlers
<1>2. SessionOK(s)'
  BY <1>1 DEF SessionOK
<1> QED
  BY <1>1, <1>2, Continues

LEMMA BeginInv ==
    ASSUME LockInv, NEW s \in Settlers, NEW o \in Orders, Begin(s, o), status[o] # "NONE",
           s \in Workers => pc[s] = "charging" /\ job[s] = o
    PROVE  LockInv'
<1>1. s \in Sessions /\ LTypeOK /\ SessionOK(s) /\ SettlerOK(s)
  BY DEF LockInv, Sessions, SessionOK
<1>2. at[s] = "none" /\ marked[s] = {} /\ todo[s] = {} /\ expiring[s] = {} /\ held[s] = {}
  BY <1>1 DEF Begin, SettlerOK
<1>3. at'[s] = "order" /\ doing'[s] = o
  BY <1>1 DEF Begin, LTypeOK
<1>4. UNCHANGED <<todo, cur, marked, expiring, held, status, resv, pc, job>>
  BY DEF Begin, vars, orderVars, workerVars
<1>5. Moves(s)
  <2>1. at' \in [Sessions -> Statements] /\ doing' \in [Sessions -> Orders \cup {NoOrder}]
    BY <1>1 DEF Begin, LTypeOK, Statements
  <2>2. LTypeOK'
    BY <1>1, <1>4, <2>1 DEF LTypeOK
  <2>3. \A u \in Sessions \ {s} : at'[u] = at[u] /\ doing'[u] = doing[u]
    BY <1>1 DEF Begin, LTypeOK
  <2> QED
    BY <1>4, <2>2, <2>3 DEF Moves, Begin
<1>6. HeldOK(s)'
  BY <1>1, <1>4 DEF SessionOK, HeldOK, StillActive
<1>7. SettlerOK(s)'
  BY <1>2, <1>3, <1>4 DEF SettlerOK, LockedOrder
<1>8. CancelOK(s)'
  BY <1>3 DEF CancelOK, LockedOrder
<1>9. s \in Workers => WorkerOK(s)'
  BY <1>3, <1>4 DEF WorkerOK
<1> QED
  BY <1>5, <1>6, <1>7, <1>8, <1>9, SettlerMoves

LEMMA LockOrderInv ==
    ASSUME LockInv, NEW s \in Settlers, NEW next \in {"list", "commit"}, LockOrder(s, next),
           s \in Cancels => next = "list" /\ Cancellable(doing[s]),
           s \in Workers => (next = "commit" <=> RetryAllowed(s))
    PROVE  LockInv'
<1>1. s \in Sessions /\ LTypeOK /\ SessionOK(s) /\ SettlerOK(s)
  BY DEF LockInv, Sessions, SessionOK
<1>2. /\ at[s] = "order" /\ marked[s] = {} /\ todo[s] = {} /\ expiring[s] = {}
      /\ doing[s] \in Orders /\ status[doing[s]] # "NONE"
  BY <1>1 DEF LockOrder, Runs, SettlerOK
<1>3. /\ at'[s] = next /\ at' \in [Sessions -> Statements]
      /\ \A u \in Sessions \ {s} : at'[u] = at[u]
  BY <1>1 DEF LockOrder, LTypeOK, Statements
<1>4. UNCHANGED <<doing, todo, cur, marked, expiring, status, token, resv, pc, job, attempt>>
  BY DEF LockOrder, vars, orderVars, workerVars
<1>5. Runs(s, "order")
  BY DEF LockOrder
<1>6. held'[s] = held[s] \cup {OrderRow(doing[s])}
      /\ \A u \in Sessions \ {s} :
            held'[u] = held[u] /\ \A x \in held'[s] : x \in held[s] \/ x \notin held[u]
  BY <1>1, <1>5, NeedsOf
<1>7. Moves(s)
  <2>1. held' \in [Sessions -> SUBSET TableRows]
    BY <1>1, <1>2, <1>5, HeldType
  <2>2. LTypeOK'
    BY <1>1, <1>3, <1>4, <2>1 DEF LTypeOK
  <2> QED
    BY <1>3, <1>4, <1>6, <2>2 DEF Moves, LockOrder
<1>8. HeldOK(s)'
  BY <1>1, <1>2, <1>4, <1>6 DEF SessionOK, HeldOK, StillActive, OrderRow
<1>9. SettlerOK(s)'
  <2>1. \A r \in Orders \X Rows : ResvRow(r) \in held'[s] => r[1] = doing'[s]
    BY <1>1, <1>2, <1>6 DEF SettlerOK, OrderRow, ResvRow
  <2> QED
    BY <1>1, <1>2, <1>3, <1>4, <1>6, <2>1 DEF SettlerOK, LockedOrder
<1>10. s \in Cancels => CancelOK(s)'
  BY <1>3, <1>4 DEF CancelOK, LockedOrder, Cancellable
<1>11. s \in Workers => WorkerOK(s)'
  BY <1>1, <1>2, <1>3, <1>4 DEF SessionOK, WorkerOK, RetryAllowed
<1> QED
  BY <1>7, <1>8, <1>9, <1>10, <1>11, SettlerMoves

LEMMA ListInv ==
    ASSUME LockInv, NEW s \in Settlers, List(s)
    PROVE  LockInv'
<1>1. s \in Sessions /\ LTypeOK /\ SessionOK(s) /\ SettlerOK(s)
  BY DEF LockInv, Sessions, SessionOK
<1>2. /\ at[s] = "list" /\ marked[s] = {} /\ expiring[s] = {} /\ OrderRow(doing[s]) \in held[s]
      /\ doing[s] \in Orders /\ status[doing[s]] # "NONE"
  BY <1>1 DEF List, SettlerOK, LockedOrder
<1>3. UNCHANGED <<doing, marked, expiring, held, status, token, resv, pc, job, attempt>>
  BY DEF List, vars, orderVars, workerVars
<1>4. ActiveOf(doing[s]) \in SUBSET (Orders \X Rows) /\ "mark" \in Statements
  BY <1>2 DEF ActiveOf, Statements
<1> PICK R \in SUBSET (Orders \X Rows) : R = ActiveOf(doing[s])
  BY <1>4
<1>5. GoOn(s, R, "mark")
  BY DEF List
<1>6. GoesOn(s, R, "mark")
  BY <1>1, <1>4, <1>5, GoOnFacts
<1> USE DEF GoesOn
<1>7. Moves(s)
  <2>1. LTypeOK'
    BY <1>1, <1>3, <1>6 DEF LTypeOK
  <2> QED
    BY <1>3, <1>6, <2>1 DEF Moves, List
<1>8. \A r \in todo'[s] : r[1] = doing[s] /\ StillActive(r)
  BY <1>6 DEF ActiveOf, StillActive
<1>9. HeldOK(s)'
  BY <1>1, <1>2, <1>3, <1>8 DEF SessionOK, HeldOK, StillActive
<1>10. Covers(s)'
  BY <1>2, <1>3, <1>6 DEF Covers, ActiveOf
<1>11. SettlerOK(s)'
  BY <1>1, <1>2, <1>3, <1>6, <1>8, <1>10 DEF SettlerOK, LockedOrder
<1>12. s \in Cancels => CancelOK(s)'
  BY <1>1, <1>2, <1>3, <1>6, <1>10 DEF SessionOK, CancelOK, LockedOrder
<1>13. s \in Workers => WorkerOK(s)'
  BY <1>1, <1>2, <1>3, <1>6, <1>10 DEF SessionOK, WorkerOK, RetryAllowed
<1> QED
  BY <1>7, <1>9, <1>11, <1>12, <1>13, SettlerMoves

LEMMA MarkInv ==
    ASSUME LockInv, NEW s \in Settlers, Mark(s)
    PROVE  LockInv'
<1>1. s \in Sessions /\ LTypeOK /\ SessionOK(s) /\ SettlerOK(s) /\ HeldOK(s)
  BY DEF LockInv, Sessions, SessionOK
<1>2. /\ at[s] = "mark" /\ expiring[s] = {} /\ OrderRow(doing[s]) \in held[s]
      /\ doing[s] \in Orders /\ status[doing[s]] # "NONE" /\ Covers(s)
      /\ \A q \in marked[s] \cup todo[s] : q[1] = doing[s]
  BY <1>1 DEF Mark, Runs, SettlerOK, LockedOrder
<1> PICK r \in cur[s] :
          IF StillActive(r)
          THEN /\ marked' = [marked EXCEPT ![s] = @ \cup {r}]
               /\ at' = [at EXCEPT ![s] = "stock"]
               /\ UNCHANGED <<todo, cur>>
          ELSE GoOn(s, todo[s] \ {r}, "mark") /\ UNCHANGED marked
  BY DEF Mark
<1>3. r \in todo[s] /\ cur[s] = {r} /\ r \in Orders \X Rows
  BY <1>1 DEF LTypeOK
<1>4. StillActive(r)
  BY <1>1, <1>3 DEF HeldOK
<1>5. /\ marked'[s] = marked[s] \cup {r} /\ marked' \in [Sessions -> SUBSET (Orders \X Rows)]
      /\ at'[s] = "stock" /\ at' \in [Sessions -> Statements]
      /\ \A u \in Sessions \ {s} : at'[u] = at[u] /\ marked'[u] = marked[u]
  BY <1>1, <1>3, <1>4 DEF LTypeOK, Statements
<1>6. UNCHANGED <<todo, cur, doing, expiring, status, token, resv, pc, job, attempt>>
  BY <1>4 DEF Mark, vars, orderVars, workerVars
<1>7. Runs(s, "mark")
  BY DEF Mark
<1>8. held'[s] = held[s] \cup {ResvRow(q) : q \in cur[s]}
      /\ \A u \in Sessions \ {s} :
            held'[u] = held[u] /\ \A x \in held'[s] : x \in held[s] \/ x \notin held[u]
  BY <1>1, <1>7, NeedsOf
<1>9. Moves(s)
  <2>1. held' \in [Sessions -> SUBSET TableRows]
    BY <1>1, <1>7, HeldType
  <2>2. LTypeOK'
    BY <1>1, <1>5, <1>6, <2>1 DEF LTypeOK
  <2> QED
    BY <1>5, <1>6, <1>8, <2>2 DEF Moves, Mark
<1>10. HeldOK(s)'
  <2>1. \A o \in Orders : OrderRow(o) \in held'[s] => OrderRow(o) \in held[s]
    BY <1>8 DEF OrderRow, ResvRow
  <2>2. ResvRow(r) \in held'[s]
    BY <1>8
  <2> QED
    BY <1>1, <1>3, <1>5, <1>6, <1>8, <2>1, <2>2 DEF HeldOK, StillActive
<1>11. Covers(s)'
  BY <1>2, <1>5, <1>6 DEF Covers
<1>12. SettlerOK(s)'
  <2>1. \A q \in Orders \X Rows : ResvRow(q) \in held'[s] => q[1] = doing'[s]
    <3> TAKE q \in Orders \X Rows
    <3>1. ResvRow(q) \in held'[s] => ResvRow(q) \in held[s] \/ q = r
      BY <1>3, <1>8 DEF ResvRow
    <3> QED
      BY <1>1, <1>2, <1>3, <1>6, <3>1 DEF SettlerOK
  <2> QED
    BY <1>2, <1>3, <1>5, <1>6, <1>8, <1>11, <2>1 DEF SettlerOK, LockedOrder
<1>13. s \in Cancels => CancelOK(s)'
  BY <1>1, <1>2, <1>5, <1>6 DEF SessionOK, CancelOK, LockedOrder
<1>14. s \in Workers => WorkerOK(s)'
  BY <1>1, <1>2, <1>5, <1>6 DEF SessionOK, WorkerOK, RetryAllowed
<1> QED
  BY <1>9, <1>10, <1>12, <1>13, <1>14, SettlerMoves

LEMMA MoveStockInv ==
    ASSUME LockInv, NEW s \in Settlers, MoveStock(s)
    PROVE  LockInv'
<1>1. s \in Sessions /\ LTypeOK /\ SessionOK(s) /\ SettlerOK(s) /\ HeldOK(s)
  BY DEF LockInv, Sessions, SessionOK
<1>2. /\ at[s] = "stock" /\ expiring[s] = {} /\ OrderRow(doing[s]) \in held[s]
      /\ doing[s] \in Orders /\ status[doing[s]] # "NONE" /\ Covers(s) /\ cur[s] \subseteq marked[s]
      /\ \A q \in marked[s] \cup todo[s] : q[1] = doing[s]
  BY <1>1 DEF MoveStock, Runs, SettlerOK, LockedOrder
<1>3. UNCHANGED <<marked, doing, expiring, status, token, resv, pc, job, attempt>>
  BY DEF MoveStock, vars, orderVars, workerVars
<1>4. todo[s] \ cur[s] \in SUBSET (Orders \X Rows) /\ "mark" \in Statements
  BY <1>1 DEF LTypeOK, Statements
<1> PICK R \in SUBSET (Orders \X Rows) : R = todo[s] \ cur[s]
  BY <1>4
<1>5. GoOn(s, R, "mark")
  BY DEF MoveStock
<1>6. GoesOn(s, R, "mark")
  BY <1>1, <1>4, <1>5, GoOnFacts
<1>7. Runs(s, "stock")
  BY DEF MoveStock
<1>8. held'[s] = held[s] \cup {StockRow(q[2]) : q \in cur[s]}
      /\ \A u \in Sessions \ {s} :
            held'[u] = held[u] /\ \A x \in held'[s] : x \in held[s] \/ x \notin held[u]
  BY <1>1, <1>7, NeedsOf
<1> USE DEF GoesOn
<1>9. Moves(s)
  <2>1. held' \in [Sessions -> SUBSET TableRows]
    BY <1>1, <1>7, HeldType
  <2>2. LTypeOK'
    BY <1>1, <1>3, <1>6, <2>1 DEF LTypeOK
  <2> QED
    BY <1>3, <1>6, <1>8, <2>2 DEF Moves, MoveStock
<1>10. HeldOK(s)'
  <2>1. \A o \in Orders : OrderRow(o) \in held'[s] => OrderRow(o) \in held[s]
    BY <1>8 DEF OrderRow, StockRow
  <2> QED
    BY <1>1, <1>3, <1>6, <1>8, <2>1 DEF HeldOK, StillActive
<1>11. Covers(s)'
  BY <1>2, <1>3, <1>6 DEF Covers
<1>12. SettlerOK(s)'
  <2>1. \A q \in Orders \X Rows : ResvRow(q) \in held'[s] => q[1] = doing'[s]
    <3> TAKE q \in Orders \X Rows
    <3>1. ResvRow(q) \in held'[s] => ResvRow(q) \in held[s]
      BY <1>8 DEF ResvRow, StockRow
    <3> QED
      BY <1>1, <1>3, <3>1 DEF SettlerOK
  <2> QED
    BY <1>2, <1>3, <1>6, <1>8, <1>11, <2>1 DEF SettlerOK, LockedOrder
<1>13. s \in Cancels => CancelOK(s)'
  BY <1>1, <1>2, <1>3, <1>6, <1>11 DEF SessionOK, CancelOK, LockedOrder
<1>14. s \in Workers => WorkerOK(s)'
  BY <1>1, <1>2, <1>3, <1>6, <1>11 DEF SessionOK, WorkerOK, RetryAllowed
<1> QED
  BY <1>9, <1>10, <1>12, <1>13, <1>14, SettlerMoves

LEMMA SweepMoves ==
    ASSUME LockInv, NEW s \in Sweeps, Moves(s), HeldOK(s)', SweepOK(s)'
    PROVE  LockInv'
<1>1. s \in Sessions /\ s \notin Settlers
  BY SessionsAssumption DEF Sessions, Settlers
<1>2. SessionOK(s)'
  BY <1>1 DEF SessionOK, Settlers
<1> QED
  BY <1>1, <1>2, Continues

LEMMA ReturnStockInv ==
    ASSUME LockInv, NEW s \in Sweeps, ReturnStock(s)
    PROVE  LockInv'
<1>1. s \in Sessions /\ LTypeOK /\ SweepOK(s) /\ HeldOK(s)
  BY DEF LockInv, Sessions, SessionOK
<1>2. at[s] = "stock" /\ Runs(s, "stock")
  BY DEF ReturnStock, Runs
<1>3. UNCHANGED <<todo, cur, marked, doing, expiring, status, resv, due>>
  BY DEF ReturnStock, vars, orderVars
<1>4. /\ at'[s] = "expire" /\ at' \in [Sessions -> Statements]
      /\ \A u \in Sessions \ {s} : at'[u] = at[u]
  BY <1>1 DEF ReturnStock, LTypeOK, Statements
<1>5. held'[s] = held[s] \cup {StockRow(q[2]) : q \in cur[s]}
      /\ \A u \in Sessions \ {s} :
            held'[u] = held[u] /\ \A x \in held'[s] : x \in held[s] \/ x \notin held[u]
  BY <1>1, <1>2, NeedsOf
<1>6. Moves(s)
  <2>1. held' \in [Sessions -> SUBSET TableRows]
    BY <1>1, <1>2, HeldType
  <2>2. LTypeOK'
    BY <1>1, <1>3, <1>4, <2>1 DEF LTypeOK
  <2> QED
    BY <1>3, <1>4, <1>5, <2>2 DEF Moves, ReturnStock
<1>7. HeldOK(s)'
  <2>1. \A o \in Orders : OrderRow(o) \in held'[s] => OrderRow(o) \in held[s]
    BY <1>5 DEF OrderRow, StockRow
  <2> QED
    BY <1>1, <1>3, <1>5, <2>1 DEF HeldOK, StillActive
<1>8. SweepOK(s)'
  BY <1>1, <1>2, <1>3, <1>4, <1>5 DEF SweepOK
<1> QED
  BY <1>6, <1>7, <1>8, SweepMoves

LEMMA ExpireOrderInv ==
    ASSUME LockInv, NEW s \in Sweeps, ExpireOrder(s)
    PROVE  LockInv'
<1>1. s \in Sessions /\ LTypeOK /\ SweepOK(s) /\ HeldOK(s)
  BY DEF LockInv, Sessions, SessionOK
<1>2. at[s] = "expire" /\ Runs(s, "expire")
  BY DEF ExpireOrder, Runs
<1>3. UNCHANGED <<marked, doing, status, resv, due>>
  BY DEF ExpireOrder, vars, orderVars
<1> PICK r \in cur[s] :
          /\ expiring' = [expiring EXCEPT ![s] = IF Expirable(r[1]) THEN @ \cup {r[1]} ELSE @]
          /\ GoOn(s, todo[s] \ {r}, "stock")
  BY DEF ExpireOrder
<1>4. r \in todo[s] /\ cur[s] = {r} /\ r \in Orders \X Rows /\ r[1] \in Orders /\ r \in marked[s]
  BY <1>1 DEF LTypeOK, SweepOK
<1> PICK R \in SUBSET (Orders \X Rows) : R = todo[s] \ {r}
  BY <1>1 DEF LTypeOK
<1>5. GoesOn(s, R, "stock")
  <2>1. GoOn(s, R, "stock") /\ "stock" \in Statements
    BY DEF Statements
  <2> QED
    BY <1>1, <2>1, GoOnFacts
<1>6. /\ expiring' \in [Sessions -> SUBSET Orders]
      /\ expiring'[s] = IF Expirable(r[1]) THEN expiring[s] \cup {r[1]} ELSE expiring[s]
      /\ \A u \in Sessions \ {s} : expiring'[u] = expiring[u]
  BY <1>1, <1>4 DEF LTypeOK
<1>7. held'[s] = held[s] \cup {OrderRow(q[1]) : q \in cur[s]}
      /\ \A u \in Sessions \ {s} :
            held'[u] = held[u] /\ \A x \in held'[s] : x \in held[s] \/ x \notin held[u]
  BY <1>1, <1>2, NeedsOf
<1> USE DEF GoesOn
<1>8. Moves(s)
  <2>1. held' \in [Sessions -> SUBSET TableRows]
    BY <1>1, <1>2, HeldType
  <2>2. LTypeOK'
    BY <1>1, <1>3, <1>5, <1>6, <2>1 DEF LTypeOK
  <2> QED
    BY <1>3, <1>5, <1>6, <1>7, <2>2 DEF Moves, ExpireOrder
<1>9. HeldOK(s)'
  <2>1. \A o \in Orders : OrderRow(o) \in held'[s] => OrderRow(o) \in held[s] \/ o = r[1]
    BY <1>4, <1>7 DEF OrderRow
  <2>2. status[r[1]] # "NONE"
    BY <1>1, <1>4 DEF HeldOK
  <2> QED
    BY <1>1, <1>3, <1>5, <1>7, <2>1, <2>2 DEF HeldOK, StillActive
<1>10. SweepOK(s)'
  <2>1. /\ at'[s] \in {"stock", "commit"} /\ (at'[s] = "commit" => todo'[s] = {})
        /\ marked'[s] # {} /\ Cardinality(marked'[s]) <= BatchSize
        /\ todo'[s] \subseteq marked'[s]
        /\ \A q \in marked'[s] : due'[q[1]]
    BY <1>1, <1>2, <1>3, <1>5 DEF SweepOK
  <2>2. \A q \in marked'[s] \ todo'[s] :
            OrderRow(q[1]) \in held'[s] /\ (q[1] \in expiring'[s] <=> status[q[1]] = "RESERVED")
    <3> TAKE q \in marked'[s] \ todo'[s]
    <3>1. CASE q = r
      BY <1>1, <1>4, <1>6, <1>7, <3>1 DEF SweepOK, Expirable
    <3>2. CASE q # r
      <4>1. q \in marked[s] \ todo[s]
        BY <1>3, <1>5, <3>2
      <4> QED
        BY <1>1, <1>6, <1>7, <4>1 DEF SweepOK, Expirable
    <3> QED
      BY <3>1, <3>2
  <2>3. \A o \in expiring'[s] :
            /\ OrderRow(o) \in held'[s]
            /\ status[o] = "RESERVED"
            /\ \E q \in marked[s] : q[1] = o
    BY <1>1, <1>4, <1>6, <1>7 DEF SweepOK, Expirable
  <2> QED
    BY <1>3, <2>1, <2>2, <2>3 DEF SweepOK
<1> QED
  BY <1>8, <1>9, <1>10, SweepMoves

\* A batch is finite, and no larger than its limit.
LEMMA BatchBound ==
    ASSUME NEW R \in SUBSET Unlocked, Cardinality(R) = Least(BatchSize, Cardinality(Unlocked))
    PROVE  Cardinality(R) <= BatchSize
<1>1. IsFiniteSet(Rows)
  BY RowsAssumption, FS_Product DEF Rows
<1>2. IsFiniteSet(Orders \X Rows)
  BY <1>1, OrdersAssumption, FS_Product
<1>3. Unlocked \in SUBSET (Orders \X Rows)
  BY DEF Unlocked, Claimable
<1>4. Cardinality(Unlocked) \in Nat
  BY <1>2, <1>3, FS_Subset, FS_CardinalityType
<1> QED
  BY <1>4, BoundsAssumption DEF Least

LEMMA BeginSweepInv ==
    ASSUME LockInv, NEW s \in Sweeps, BeginSweep(s)
    PROVE  LockInv'
<1>1. s \in Sessions /\ LTypeOK /\ SweepOK(s) /\ HeldOK(s) /\ Unborn
  BY DEF LockInv, Sessions, SessionOK, OwnInv
<1>2. at[s] = "none" /\ marked[s] = {} /\ expiring[s] = {} /\ todo[s] = {}
  BY <1>1 DEF BeginSweep, SweepOK
<1>3. UNCHANGED <<doing, expiring, status, resv, due>>
  BY DEF BeginSweep, vars, orderVars
<1> PICK R \in SUBSET Unlocked :
          /\ R # {}
          /\ Cardinality(R) = Least(BatchSize, Cardinality(Unlocked))
          /\ marked' = [marked EXCEPT ![s] = R]
          /\ held' = [held EXCEPT ![s] = {ResvRow(r) : r \in R}]
          /\ GoOn(s, R, "stock")
  BY DEF BeginSweep
<1>4. R \in SUBSET (Orders \X Rows) /\ "stock" \in Statements /\ Cardinality(R) <= BatchSize
  BY BatchBound DEF Unlocked, Claimable, Statements
<1>5. GoesOn(s, R, "stock")
  BY <1>1, <1>4, GoOnFacts
<1> USE DEF GoesOn
<1>6. \A r \in R : /\ r[1] \in Orders /\ due[r[1]] /\ StillActive(r) /\ status[r[1]] # "NONE"
                   /\ \A u \in Sessions : ResvRow(r) \notin held[u]
  <2> TAKE r \in R
  <2>1. r[1] \in Orders /\ due[r[1]] /\ StillActive(r) /\ Free(ResvRow(r))
    BY DEF Unlocked, Claimable, StillActive
  <2> QED
    BY <1>1, <2>1 DEF Unborn, Free
<1>7. /\ marked'[s] = R /\ held'[s] = {ResvRow(r) : r \in R}
      /\ marked' \in [Sessions -> SUBSET (Orders \X Rows)]
      /\ held' \in [Sessions -> SUBSET TableRows]
      /\ \A u \in Sessions \ {s} : marked'[u] = marked[u] /\ held'[u] = held[u]
  <2>1. {ResvRow(r) : r \in R} \subseteq TableRows
    BY <1>4 DEF TableRows
  <2> QED
    BY <1>1, <1>4, <2>1 DEF LTypeOK
<1>8. Moves(s)
  <2>1. LTypeOK'
    BY <1>1, <1>3, <1>5, <1>7 DEF LTypeOK
  <2>2. \A u \in Sessions \ {s} : \A x \in held'[s] : x \in held[s] \/ x \notin held[u]
    BY <1>6, <1>7
  <2> QED
    BY <1>3, <1>5, <1>7, <2>1, <2>2 DEF Moves, BeginSweep
<1>9. HeldOK(s)'
  <2>1. \A o \in Orders : OrderRow(o) \notin held'[s]
    BY <1>7 DEF OrderRow, ResvRow
  <2> QED
    BY <1>3, <1>5, <1>6, <1>7, <2>1 DEF HeldOK, StillActive
<1>10. SweepOK(s)'
  BY <1>2, <1>3, <1>4, <1>5, <1>6, <1>7 DEF SweepOK
<1> QED
  BY <1>8, <1>9, <1>10, SweepMoves

-----------------------------------------------------------------------------
(* Commits: each is a step of OrderLifecycle                               *)

LEMMA EndsAs ==
    ASSUME LockInv, NEW s \in Sessions, Mine(s), Close(s), [Next]_vars
    PROVE  LockInv'
<1>1. OwnInv'
  BY NextOwnInv DEF LockInv
<1> QED
  BY <1>1, Ends DEF LockInv

\* A settler at its commit has marked all that its order holds, under the order's lock.
LEMMA SettlerAtCommit ==
    ASSUME LockInv, NEW s \in Settlers, at[s] = "commit"
    PROVE  /\ s \in Sessions /\ doing[s] \in Orders /\ OrderRow(doing[s]) \in held[s]
           /\ marked[s] \subseteq Orders \X Rows
           /\ \A r \in marked[s] : r[1] = doing[s] /\ ResvRow(r) \in held[s]
           /\ Covers(s) => marked[s] = ActiveOf(doing[s])
           /\ s \in Cancels => Covers(s) /\ Cancellable(doing[s])
           /\ s \in Workers =>
                 pc[s] = "charging" /\ doing[s] = job[s] /\ (RetryAllowed(s) \/ Covers(s))
<1>1. s \in Sessions /\ LTypeOK /\ SessionOK(s) /\ SettlerOK(s) /\ HeldOK(s)
  BY DEF LockInv, Sessions, SessionOK
<1>2. /\ doing[s] \in Orders /\ OrderRow(doing[s]) \in held[s] /\ todo[s] = {}
      /\ \A r \in marked[s] : r[1] = doing[s] /\ ResvRow(r) \in held[s]
  BY <1>1 DEF SettlerOK, HeldOK, LockedOrder
<1>3. marked[s] \subseteq Orders \X Rows
  BY <1>1 DEF LTypeOK
<1>4. marked[s] \subseteq ActiveOf(doing[s])
  BY <1>1, <1>2, <1>3 DEF ActiveOf, HeldOK, StillActive
<1>5. Covers(s) => ActiveOf(doing[s]) \subseteq marked[s]
  BY <1>2 DEF ActiveOf, Covers
<1>6. s \in Cancels => Covers(s) /\ Cancellable(doing[s])
  BY <1>1 DEF SessionOK, CancelOK, LockedOrder, Cancellable
<1>7. s \in Workers => pc[s] = "charging" /\ doing[s] = job[s] /\ (RetryAllowed(s) \/ Covers(s))
  BY <1>1 DEF SessionOK, WorkerOK
<1> QED
  BY <1>1, <1>2, <1>3, <1>4, <1>5, <1>6, <1>7

\* Settling what is marked, with the status of the order, touches locked rows only.
LEMMA SettlesOwn ==
    ASSUME LockInv, NEW s \in Settlers, at[s] = "commit", Close(s),
           NEW to \in {"RELEASED", "CONSUMED"}, Settle(marked[s], to),
           NEW st \in Statuses, status' = [status EXCEPT ![doing[s]] = st],
           UNCHANGED <<token, due>>,
           \A w \in Workers \ {s} : pc'[w] = pc[w] /\ job'[w] = job[w] /\ attempt'[w] = attempt[w]
    PROVE  Mine(s)
<1>1. /\ s \in Sessions /\ doing[s] \in Orders /\ OrderRow(doing[s]) \in held[s]
      /\ \A r \in marked[s] : r[1] = doing[s] /\ ResvRow(r) \in held[s]
  BY SettlerAtCommit
<1>2. \A o \in Orders : status'[o] = status[o] \/ (OrderRow(o) \in held[s] /\ status'[o] # "NONE")
  BY <1>1 DEF LockInv, OwnInv, TypeInv, TypeOK, Statuses
<1>3. \A o \in Orders, k \in Rows :
          \/ resv'[o][k] = resv[o][k]
          \/ /\ OrderRow(o) \in held[s] /\ ResvRow(<<o, k>>) \in held[s]
             /\ resv'[o][k] # "ACTIVE"
  <2> TAKE o \in Orders, k \in Rows
  <2>1. resv'[o][k] = IF <<o, k>> \in marked[s] THEN to ELSE resv[o][k]
    BY DEF Settle
  <2>2. <<o, k>> \in marked[s] => o = doing[s] /\ ResvRow(<<o, k>>) \in held[s]
    BY <1>1
  <2> QED
    BY <1>1, <2>1, <2>2
<1>4. LTypeOK
  BY DEF LockInv
<1> QED
  BY <1>1, <1>2, <1>3, <1>4, Closed DEF Mine

LEMMA GotoOthers ==
    ASSUME TypeOK, NEW w \in Workers, NEW step, Goto(w, step)
    PROVE  \A v \in Workers \ {w} : pc'[v] = pc[v] /\ job'[v] = job[v] /\ attempt'[v] = attempt[v]
  BY DEF Goto, TypeOK

LEMMA CommitCancelInv ==
    ASSUME LockInv, NEW c \in Cancels, CommitCancel(c)
    PROVE  LockInv' /\ Next
<1>1. c \in Settlers /\ at[c] = "commit"
  BY DEF Settlers, CommitCancel
<1>2. doing[c] \in Orders /\ marked[c] = ActiveOf(doing[c]) /\ Cancellable(doing[c]) /\ c \in Sessions
  BY <1>1, SettlerAtCommit
<1>3. CancelOrder(doing[c])
  BY <1>2 DEF CommitCancel, CancelOrder
<1>4. Next
  BY <1>2, <1>3 DEF Next
<1>5. Mine(c)
  <2>1. "RELEASED" \in {"RELEASED", "CONSUMED"} /\ "CANCELLED" \in Statuses
    BY DEF Statuses
  <2>2. UNCHANGED <<token, due, pc, job, attempt>>
    BY DEF CommitCancel, workerVars
  <2> QED
    BY <1>1, <2>1, <2>2, SettlesOwn DEF CommitCancel
<1> QED
  BY <1>2, <1>4, <1>5, EndsAs DEF CommitCancel

LEMMA CommitCompleteInv ==
    ASSUME LockInv, NEW w \in Workers, CommitComplete(w)
    PROVE  LockInv' /\ Next
<1>1. w \in Settlers /\ at[w] = "commit" /\ TypeOK
  BY DEF Settlers, CommitComplete, LockInv, OwnInv, TypeInv
<1>2. ~RetryAllowed(w)
  BY DEF CommitComplete, Approved, RetryAllowed
<1>3. doing[w] = job[w] /\ marked[w] = ActiveOf(job[w]) /\ pc[w] = "charging" /\ w \in Sessions
  BY <1>1, <1>2, SettlerAtCommit
<1>4. Complete(w)
  BY <1>3 DEF CommitComplete, Complete
<1>5. Next
  BY <1>4 DEF Next, WorkerStep
<1>6. Mine(w)
  <2>1. "CONSUMED" \in {"RELEASED", "CONSUMED"} /\ "COMPLETED" \in Statuses
    BY DEF Statuses
  <2>2. \A v \in Workers \ {w} : pc'[v] = pc[v] /\ job'[v] = job[v] /\ attempt'[v] = attempt[v]
    BY <1>1, GotoOthers DEF CommitComplete
  <2> QED
    BY <1>1, <2>1, <2>2, SettlesOwn DEF CommitComplete
<1> QED
  BY <1>3, <1>5, <1>6, EndsAs DEF CommitComplete

LEMMA CommitFailInv ==
    ASSUME LockInv, NEW w \in Workers, CommitFail(w)
    PROVE  LockInv' /\ Next
<1>1. w \in Settlers /\ at[w] = "commit" /\ TypeOK
  BY DEF Settlers, CommitFail, LockInv, OwnInv, TypeInv
<1>2. doing[w] = job[w] /\ marked[w] = ActiveOf(job[w]) /\ pc[w] = "charging" /\ w \in Sessions
  BY <1>1, SettlerAtCommit DEF CommitFail
<1>3. Fail(w)
  BY <1>2 DEF CommitFail, Fail
<1>4. Next
  BY <1>3 DEF Next, WorkerStep
<1>5. Mine(w)
  <2>1. "RELEASED" \in {"RELEASED", "CONSUMED"} /\ "FAILED" \in Statuses
    BY DEF Statuses
  <2>2. \A v \in Workers \ {w} : pc'[v] = pc[v] /\ job'[v] = job[v] /\ attempt'[v] = attempt[v]
    BY <1>1, GotoOthers DEF CommitFail
  <2> QED
    BY <1>1, <2>1, <2>2, SettlesOwn DEF CommitFail
<1> QED
  BY <1>2, <1>4, <1>5, EndsAs DEF CommitFail

LEMMA CommitPutBackInv ==
    ASSUME LockInv, NEW w \in Workers, CommitPutBack(w)
    PROVE  LockInv' /\ Next
<1>1. w \in Settlers /\ at[w] = "commit" /\ TypeOK /\ LTypeOK /\ Close(w)
  BY DEF Settlers, CommitPutBack, LockInv, OwnInv, TypeInv
<1>2. doing[w] = job[w] /\ doing[w] \in Orders /\ OrderRow(doing[w]) \in held[w] /\ w \in Sessions
  BY <1>1, SettlerAtCommit
<1>3. Next
  BY DEF CommitPutBack, Next, WorkerStep
<1>4. UNCHANGED <<token, due, resv>> /\ status' = [status EXCEPT ![job[w]] = "RESERVED"]
      /\ Goto(w, "retrying")
  BY DEF CommitPutBack, PutBack
<1>5. \A o \in Orders : status'[o] = status[o] \/ (OrderRow(o) \in held[w] /\ status'[o] # "NONE")
  BY <1>1, <1>2, <1>4 DEF TypeOK
<1>6. \A v \in Workers \ {w} : pc'[v] = pc[v] /\ job'[v] = job[v] /\ attempt'[v] = attempt[v]
  BY <1>1, <1>4, GotoOthers
<1>7. Mine(w)
  BY <1>1, <1>2, <1>4, <1>5, <1>6, Closed DEF Mine
<1> QED
  BY <1>1, <1>2, <1>3, <1>7, EndsAs

LEMMA CommitSweepInv ==
    ASSUME LockInv, NEW s \in Sweeps, CommitSweep(s)
    PROVE  LockInv' /\ Next
<1>1. s \in Sessions /\ LTypeOK /\ SweepOK(s) /\ HeldOK(s) /\ TypeOK
  BY DEF LockInv, Sessions, SessionOK, OwnInv, TypeInv
<1>2. marked[s] \subseteq Orders \X Rows /\ at[s] = "commit" /\ todo[s] = {} /\ expiring[s] \subseteq Orders
  BY <1>1 DEF LTypeOK, SweepOK, CommitSweep
<1>3. marked[s] \in Batches
  BY <1>1, <1>2 DEF Batches, Claimable, SweepOK, HeldOK, StillActive
<1>4. \A o \in Orders : o \in expiring[s] <=> Expirable(o) /\ \E k \in Rows : <<o, k>> \in marked[s]
  <2> TAKE o \in Orders
  <2>1. ASSUME o \in expiring[s] PROVE Expirable(o) /\ \E k \in Rows : <<o, k>> \in marked[s]
    <3>1. status[o] = "RESERVED" /\ \E r \in marked[s] : r[1] = o
      BY <1>1, <2>1 DEF SweepOK
    <3> QED
      BY <1>2, <3>1 DEF Expirable
  <2>2. ASSUME Expirable(o), NEW k \in Rows, <<o, k>> \in marked[s] PROVE o \in expiring[s]
    <3>1. <<o, k>> \in marked[s] \ todo[s]
      BY <1>2, <2>2
    <3>2. <<o, k>>[1] \in expiring[s] <=> status[<<o, k>>[1]] = "RESERVED"
      BY <1>1, <3>1 DEF SweepOK
    <3> QED
      BY <2>2, <3>2 DEF Expirable
  <2> QED
    BY <2>1, <2>2
<1>5. status' = [o \in Orders |-> IF Expirable(o) /\ \E k \in Rows : <<o, k>> \in marked[s]
                                 THEN "EXPIRED" ELSE status[o]]
  BY <1>4 DEF CommitSweep
<1>6. ExpireReservations(marked[s])
  BY <1>5 DEF CommitSweep, ExpireReservations
<1>7. Next
  BY <1>3, <1>6 DEF Next, Sweep
<1>8. Close(s) /\ UNCHANGED <<token, due, pc, job, attempt>> /\ Settle(marked[s], "RELEASED")
  BY DEF CommitSweep, workerVars
<1>9. \A r \in marked[s] : OrderRow(r[1]) \in held[s] /\ ResvRow(r) \in held[s]
  BY <1>1, <1>2 DEF SweepOK, HeldOK
<1>10. \A o \in Orders : status'[o] = status[o] \/ (OrderRow(o) \in held[s] /\ status'[o] # "NONE")
  BY <1>1 DEF CommitSweep, SweepOK
<1>11. \A o \in Orders, k \in Rows :
          \/ resv'[o][k] = resv[o][k]
          \/ /\ OrderRow(o) \in held[s] /\ ResvRow(<<o, k>>) \in held[s]
             /\ resv'[o][k] # "ACTIVE"
  <2> TAKE o \in Orders, k \in Rows
  <2>1. resv'[o][k] = IF <<o, k>> \in marked[s] THEN "RELEASED" ELSE resv[o][k]
    BY <1>8 DEF Settle
  <2>2. <<o, k>> \in marked[s] => OrderRow(<<o, k>>[1]) \in held[s] /\ ResvRow(<<o, k>>) \in held[s]
    BY <1>9
  <2> QED
    BY <2>1, <2>2
<1>12. Mine(s)
  BY <1>1, <1>8, <1>10, <1>11, Closed DEF Mine
<1> QED
  BY <1>1, <1>7, <1>8, <1>12, EndsAs

\* A transaction is given up: by its own check, as a deadlock's victim, or with its process.
LEMMA GivesUp ==
    ASSUME LockInv, NEW s \in Sessions, Close(s), UNCHANGED <<status, token, resv, due>>,
           \A w \in Workers \ {s} : pc'[w] = pc[w] /\ job'[w] = job[w] /\ attempt'[w] = attempt[w],
           [Next]_vars
    PROVE  LockInv'
<1>1. LTypeOK
  BY DEF LockInv
<1>2. Mine(s)
  BY <1>1, Closed DEF Mine
<1> QED
  BY <1>2, EndsAs

LEMMA RollbackInv ==
    ASSUME LockInv, NEW s \in Sessions, Close(s), UNCHANGED vars
    PROVE  LockInv' /\ [Next]_vars
<1>1. UNCHANGED <<status, token, resv, due, pc, job, attempt>>
  BY DEF vars, orderVars, workerVars
<1> QED
  BY <1>1, GivesUp

LEMMA StopInv ==
    ASSUME LockInv, NEW w \in Workers, Close(w), WorkerCrash(w) \/ WorkerError(w)
    PROVE  LockInv' /\ Next
<1>1. Next
  BY DEF Next, WorkerFault
<1>2. TypeOK /\ w \in Sessions
  BY DEF LockInv, OwnInv, TypeInv, Sessions, Settlers
<1>3. UNCHANGED <<status, token, resv, due>> /\ Stop(w)
  BY DEF WorkerCrash, WorkerError, orderVars
<1>4. \A v \in Workers \ {w} : pc'[v] = pc[v] /\ job'[v] = job[v] /\ attempt'[v] = attempt[v]
  BY <1>2, <1>3 DEF Stop, TypeOK
<1> QED
  BY <1>1, <1>2, <1>3, <1>4, GivesUp

-----------------------------------------------------------------------------
(* The transactions between which the settling ones run                    *)

\* The rows that sessions have locked, and the workers in their second transaction, are
\* left alone.
LEMMA Around ==
    ASSUME LockInv, UNCHANGED lockVars, [Next]_vars,
           \A o \in Orders :
              \/ status'[o] = status[o] /\ resv'[o] = resv[o] /\ token'[o] = token[o]
              \/ status[o] = "NONE"
              \/ /\ Free(OrderRow(o)) /\ status'[o] # "NONE"
                 /\ resv'[o] = resv[o] /\ token'[o] = token[o],
           \A o \in Orders : due[o] => due'[o],
           \A w \in Workers : at[w] # "none" =>
              pc'[w] = pc[w] /\ job'[w] = job[w] /\ attempt'[w] = attempt[w]
    PROVE  LockInv'
<1>1. UNCHANGED <<at, doing, todo, cur, marked, expiring, held>>
  BY DEF lockVars
<1>2. LTypeOK' /\ Alone'
  BY <1>1 DEF LockInv, LTypeOK, Alone
<1>3. OwnInv'
  BY NextOwnInv DEF LockInv
<1>4. ASSUME NEW u \in Sessions PROVE SessionOK(u)'
  <2>1. HeldOK(u)
    BY <1>4 DEF LockInv, SessionOK
  <2>2. \A o \in Orders : OrderRow(o) \in held[u] => status'[o] = status[o]
    BY <1>4, <2>1 DEF HeldOK, Free
  <2>3. \A r \in marked[u] \cup todo[u] : resv'[r[1]][r[2]] = "ACTIVE"
    <3> TAKE r \in marked[u] \cup todo[u]
    <3>1. r[1] \in Orders /\ resv[r[1]][r[2]] = "ACTIVE" /\ status[r[1]] # "NONE"
      BY <1>4, Relies
    <3> QED
      BY <3>1
  <2>4. \A o \in Orders : status[o] # "NONE" =>
            /\ status'[o] # "NONE"
            /\ token'[o] = token[o]
            /\ \A k \in Rows : resv'[o][k] = "ACTIVE" => resv[o][k] = "ACTIVE"
    OBVIOUS
  <2>5. Undisturbed(u)
    BY <1>1, <2>2, <2>3, <2>4 DEF Undisturbed
  <2> QED
    BY <1>4, <2>5, Frame
<1> QED
  BY <1>2, <1>3, <1>4 DEF LockInv

LEMMA IdleWorker ==
    ASSUME LockInv, NEW w \in Workers, pc[w] # "charging"
    PROVE  at[w] = "none"
<1>1. SessionOK(w)
  BY DEF LockInv, Sessions, Settlers
<1> QED
  BY <1>1 DEF SessionOK, WorkerOK

LEMMA CreateInv ==
    ASSUME LockInv, NEW o \in Orders, NEW b \in Baskets, NEW t \in Tokens, Create(o, b, t)
    PROVE  LockInv' /\ Next
<1>1. Next /\ TypeOK
  BY DEF Create, Next, LockInv, OwnInv, TypeInv
<1>2. UNCHANGED <<due, pc, job, attempt>>
  BY DEF Create, CreateOrder, workerVars
<1>3. status[o] = "NONE"
  BY DEF Create, CreateOrder
<1>4. \A p \in Orders \ {o} : status'[p] = status[p] /\ resv'[p] = resv[p] /\ token'[p] = token[p]
  BY <1>1 DEF Create, CreateOrder, TypeOK
<1> QED
  BY <1>1, <1>2, <1>3, <1>4, Around DEF Create

LEMMA TakeInv ==
    ASSUME LockInv, NEW w \in Workers, NEW o \in Orders, Take(w, o)
    PROVE  LockInv' /\ Next
<1>1. Next /\ TypeOK
  BY DEF Take, Next, WorkerStep, LockInv, OwnInv, TypeInv
<1>2. Free(OrderRow(o)) /\ UNCHANGED <<due, resv, token>> /\ pc[w] = "idle"
  BY DEF Take, Claim, Skip, Deliver, orderVars
<1>3. \A p \in Orders :
          status'[p] = status[p] \/ (Free(OrderRow(p)) /\ status'[p] # "NONE")
  BY <1>1, <1>2 DEF Take, Claim, Skip, TypeOK, orderVars
<1>4. \A v \in Workers \ {w} : pc'[v] = pc[v] /\ job'[v] = job[v] /\ attempt'[v] = attempt[v]
  BY <1>1 DEF Take, Claim, Skip, TypeOK, workerVars
<1>5. at[w] = "none"
  BY <1>2, IdleWorker
<1> QED
  BY <1>1, <1>2, <1>3, <1>4, <1>5, Around DEF Take

LEMMA FollowInv ==
    ASSUME LockInv, NEW w \in Workers, Follow(w)
    PROVE  LockInv' /\ Next
<1>1. Next /\ TypeOK
  BY DEF Follow, Next, WorkerStep, LockInv, OwnInv, TypeInv
<1>2. UNCHANGED <<status, due, resv, token>> /\ pc[w] # "charging"
  BY DEF Follow, EnqueueRetry, WriteDeadLetter, Ack, orderVars
<1>3. \A v \in Workers \ {w} : pc'[v] = pc[v] /\ job'[v] = job[v] /\ attempt'[v] = attempt[v]
  BY <1>1 DEF Follow, EnqueueRetry, WriteDeadLetter, Ack, Goto, Stop, TypeOK
<1>4. at[w] = "none"
  BY <1>2, IdleWorker
<1> QED
  BY <1>1, <1>2, <1>3, <1>4, Around DEF Follow

\* Adjustments, the relay and the clock write no order's status and no reservation.
LEMMA ElsewhereInv ==
    ASSUME LockInv, UNCHANGED lockVars,
           \/ \E k \in Rows, d \in Deltas : AdjustStock(k, d)
           \/ \E o \in Orders : RelayStep(o) \/ DeadlinePasses(o)
    PROVE  LockInv' /\ Next
<1>1. Next /\ TypeOK
  BY DEF Next, LockInv, OwnInv, TypeInv
<1>2. UNCHANGED <<status, resv, token, pc, job, attempt>>
  BY DEF AdjustStock, RelayStep, RelaySend, RelayCommit, DeadlinePasses, orderVars, workerVars
<1>3. \A o \in Orders : due[o] => due'[o]
  BY <1>1 DEF AdjustStock, RelayStep, RelaySend, RelayCommit, DeadlinePasses, orderVars, TypeOK
<1> QED
  BY <1>1, <1>2, <1>3, Around

-----------------------------------------------------------------------------
(* The theorems                                                            *)

LEMMA LInitInv == LInit => LockInv
<1> SUFFICES ASSUME LInit PROVE LockInv
  OBVIOUS
<1>1. OwnInv
  BY InitOwnInv DEF LInit
<1>2. LTypeOK /\ Alone
  BY DEF LInit, LTypeOK, Alone, Statements
<1>3. \A s \in Sessions : SessionOK(s)
  BY DEF LInit, Sessions, SessionOK, HeldOK, SettlerOK, CancelOK, WorkerOK, SweepOK, LockedOrder
<1> QED
  BY <1>1, <1>2, <1>3 DEF LockInv

LEMMA CancelSteps ==
    ASSUME LockInv, NEW c \in Cancels,
           CancelStep(c) \/ \E o \in Orders : BeginCancel(c, o)
    PROVE  LockInv' /\ [Next]_vars
<1>0. c \in Settlers /\ c \in Sessions /\ c \notin Workers
  BY SessionsAssumption DEF Settlers, Sessions
<1>1. ASSUME NEW o \in Orders, BeginCancel(c, o) PROVE LockInv' /\ [Next]_vars
  BY <1>0, <1>1, BeginInv DEF BeginCancel, Begin
<1>2. CASE LockToCancel(c)
  BY <1>0, <1>2, LockOrderInv DEF LockToCancel, LockOrder
<1>3. CASE RejectCancel(c)
  BY <1>0, <1>3, RollbackInv DEF RejectCancel
<1>4. CASE SettlerStep(c)
  BY <1>0, <1>4, ListInv, MarkInv, MoveStockInv DEF SettlerStep, List, Mark, MoveStock
<1>5. CASE CommitCancel(c)
  BY <1>5, CommitCancelInv
<1> QED
  BY <1>1, <1>2, <1>3, <1>4, <1>5 DEF CancelStep

LEMMA WorkerSteps ==
    ASSUME LockInv, NEW w \in Workers, SettleStep(w) \/ TakeStep(w) \/ Follow(w) \/ Crash(w)
    PROVE  LockInv' /\ [Next]_vars
<1>0. w \in Settlers /\ w \in Sessions /\ w \notin Cancels
  BY SessionsAssumption DEF Settlers, Sessions
<1>1. CASE BeginSettle(w)
  <2>1. job[w] \in Orders /\ status[job[w]] # "NONE" /\ pc[w] = "charging" /\ Begin(w, job[w])
    BY <1>1 DEF BeginSettle, LockInv, OwnInv, TypeInv, BusyHasJob, ChargingOwnsOrder
  <2> PICK o \in Orders : o = job[w]
    BY <2>1
  <2>2. Begin(w, o) /\ UNCHANGED vars
    BY <2>1 DEF Begin
  <2> QED
    BY <1>0, <2>1, <2>2, BeginInv
<1>2. CASE LockToSettle(w)
  <2>1. CASE LockOrder(w, "list") /\ ~RetryAllowed(w)
    BY <1>0, <2>1, LockOrderInv DEF LockOrder
  <2>2. CASE LockOrder(w, "commit") /\ RetryAllowed(w)
    BY <1>0, <2>2, LockOrderInv DEF LockOrder
  <2> QED
    BY <1>2, <2>1, <2>2 DEF LockToSettle
<1>3. CASE SettlerStep(w)
  BY <1>0, <1>3, ListInv, MarkInv, MoveStockInv DEF SettlerStep, List, Mark, MoveStock
<1>4. CASE CommitComplete(w) \/ CommitPutBack(w) \/ CommitFail(w)
  BY <1>4, CommitCompleteInv, CommitPutBackInv, CommitFailInv
<1>5. CASE TakeStep(w)
  BY <1>5, TakeInv DEF TakeStep
<1>6. CASE Follow(w)
  BY <1>6, FollowInv
<1>7. CASE Crash(w)
  BY <1>7, StopInv DEF Crash
<1> QED
  BY <1>1, <1>2, <1>3, <1>4, <1>5, <1>6, <1>7 DEF SettleStep

\* A step of LNext preserves the invariant and is a step of OrderLifecycle or leaves its
\* variables alone.
LEMMA LNextInv == LockInv /\ [LNext]_allVars => LockInv' /\ [Next]_vars
<1> SUFFICES ASSUME LockInv, [LNext]_allVars PROVE LockInv' /\ [Next]_vars
  OBVIOUS
<1>1. CASE UNCHANGED allVars
  <2>1. UNCHANGED lockVars /\ UNCHANGED vars
    BY <1>1 DEF allVars
  <2>2. UNCHANGED <<status, resv, token, due, pc, job, attempt>>
    BY <2>1 DEF vars, orderVars, workerVars
  <2> QED
    BY <2>1, <2>2, Around
<1>2. ASSUME NEW c \in Cancels, CancelStep(c) \/ \E o \in Orders : BeginCancel(c, o)
      PROVE  LockInv' /\ [Next]_vars
  BY <1>2, CancelSteps
<1>3. ASSUME NEW w \in Workers, SettleStep(w) \/ TakeStep(w) \/ Follow(w) \/ Crash(w)
      PROVE  LockInv' /\ [Next]_vars
  BY <1>3, WorkerSteps
<1>4. ASSUME NEW s \in Sweeps, BeginSweep(s) \/ SweepStep(s)
      PROVE  LockInv' /\ [Next]_vars
  BY <1>4, BeginSweepInv, ReturnStockInv, ExpireOrderInv, CommitSweepInv
     DEF SweepStep, BeginSweep, ReturnStock, ExpireOrder
<1>5. CASE DeadlockEnds
  BY <1>5, RollbackInv, StopInv DEF DeadlockEnds, AbortSession, AbortWorker, Sessions, Settlers
<1>6. ASSUME NEW o \in Orders, NEW b \in Baskets, NEW t \in Tokens, Create(o, b, t)
      PROVE  LockInv' /\ [Next]_vars
  BY <1>6, CreateInv
<1>7. CASE \/ \E k \in Rows, d \in Deltas : Adjust(k, d)
           \/ \E o \in Orders : (RelayStep(o) \/ DeadlinePasses(o)) /\ UNCHANGED lockVars
  BY <1>7, ElsewhereInv DEF Adjust
<1> QED
  BY <1>1, <1>2, <1>3, <1>4, <1>5, <1>6, <1>7 DEF LNext

LEMMA LockInvariant == LSpec => []LockInv
  BY LInitInv, LNextInv, PTL DEF LSpec

\* Statement by statement, with their locks, waits and aborts, the settling transactions
\* are the atomic steps of OrderLifecycle: all its theorems hold for them.
THEOREM StatementsSettleAtomically == LSpec => SettlesAtomically
<1>1. LInit => Init
  BY DEF LInit
<1> QED
  BY <1>1, LockInvariant, LNextInv, PTL DEF LSpec, Spec, SettlesAtomically

\* So the statements keep the contract with the client,
THEOREM StatementsKeepContract == LSpec => KeepsContract
  BY StatementsSettleAtomically, ContractIsKept, PTL DEF SettlesAtomically

\* and the counters of the rows stay exact, whatever transaction waits or is aborted.
THEOREM StatementsKeepStock == LSpec => [](ReservedMatchesHolds /\ StockConserved)
  BY StatementsSettleAtomically, ReservedIsExact, StockIsConserved, PTL DEF SettlesAtomically

\* What a transaction decides on still holds when it commits.
THEOREM DecisionsAreKept == LSpec => []DecisionsHold
<1>1. LockInv => DecisionsHold
  <2> SUFFICES ASSUME LockInv PROVE DecisionsHold
    OBVIOUS
  <2>1. \A s \in Sessions : \A r \in marked[s] \cup todo[s] : StillActive(r)
    BY DEF LockInv, SessionOK, HeldOK
  <2>2. \A s, u \in Sessions : s # u => marked[s] \cap marked[u] = {}
    BY DEF LockInv, SessionOK, HeldOK, Alone
  <2>3. \A c \in Cancels : at[c] \notin {"none", "order", "done"} => status[doing[c]] = "RESERVED"
    <3> TAKE c \in Cancels
    <3>1. c \in Sessions /\ c \in Settlers
      BY DEF Sessions, Settlers
    <3>2. CancelOK(c) /\ SettlerOK(c) /\ LTypeOK
      BY <3>1 DEF LockInv, SessionOK
    <3> QED
      BY <3>1, <3>2 DEF CancelOK, SettlerOK, LTypeOK, Statements, LockedOrder
  <2>4. \A s \in Sweeps : \A o \in expiring[s] : status[o] = "RESERVED"
    BY DEF LockInv, SessionOK, SweepOK, Sessions
  <2> QED
    BY <2>1, <2>2, <2>3, <2>4 DEF DecisionsHold
<1> QED
  BY <1>1, LockInvariant, PTL

\* For any number of sessions, orders and rows: a deadlock among cancellations and workers
\* is about inventory rows only, and every other one has a sweep in it.
THEOREM DeadlocksAreKnown == LSpec => []DeadlocksKnown
<1>1. LockInv => DeadlocksKnown
  <2> SUFFICES ASSUME LockInv, NEW C \in SUBSET Sessions, Circle(C), NEW s \in C
               PROVE  /\ at[s] # "order"
                      /\ at[s] = "mark" => \E u \in C \cap Sweeps : Waits(s, u)
    BY DEF DeadlocksKnown
  <2>1. PICK v \in C, t \in C : Waits(s, v) /\ Waits(t, s)
    BY DEF Circle
  <2>2. s \in Sessions /\ v \in Sessions /\ s # v /\ SessionOK(s) /\ SessionOK(v) /\ LTypeOK
    BY <2>1 DEF LockInv, Waits
  <2>3. at[s] # "order"
    <3>1. held[s] # {}
      BY <2>1 DEF Waits
    <3>2. CASE s \in Settlers
      BY <2>2, <3>1, <3>2 DEF SessionOK, SettlerOK
    <3>3. CASE s \in Sweeps
      BY <2>2, <3>3 DEF SessionOK, SweepOK
    <3> QED
      BY <2>2, <3>2, <3>3 DEF Sessions
  <2>4. ASSUME at[s] = "mark", v \notin Sweeps PROVE FALSE
    <3>1. s \in Settlers /\ v \in Settlers
      BY <2>2, <2>4 DEF SessionOK, SweepOK, Sessions
    <3>2. SettlerOK(s) /\ SettlerOK(v)
      BY <2>2, <3>1 DEF SessionOK
    <3>3. PICK r \in cur[s] : ResvRow(r) \in held[v]
      BY <2>1, <2>4 DEF Waits, Needs
    <3>4. r \in todo[s] /\ r \in Orders \X Rows
      BY <2>2 DEF LTypeOK
    <3>5. r[1] = doing[s] /\ OrderRow(doing[s]) \in held[s]
      BY <2>4, <3>2, <3>4 DEF SettlerOK, LockedOrder
    <3>6. r[1] = doing[v]
      BY <3>2, <3>3, <3>4 DEF SettlerOK
    <3>7. at[v] \notin {"none", "done", "order"}
      BY <3>2, <3>3 DEF SettlerOK
    <3>8. at[v] \in LockedOrder
      BY <2>2, <3>2, <3>7 DEF SettlerOK, LTypeOK, Statements, LockedOrder
    <3>9. OrderRow(doing[v]) \in held[v]
      BY <3>2, <3>8 DEF SettlerOK
    <3> QED
      BY <2>2, <3>5, <3>6, <3>9 DEF LockInv, Alone
  <2> QED
    BY <2>1, <2>3, <2>4
<1> QED
  BY <1>1, LockInvariant, PTL

\* The lock variables keep their types.
THEOREM LockTypes == LSpec => []LTypeOK
<1>1. LockInv => LTypeOK
  BY DEF LockInv
<1> QED
  BY <1>1, LockInvariant, PTL

=============================================================================
