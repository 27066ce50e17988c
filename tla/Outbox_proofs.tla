---------------------------- MODULE Outbox_proofs ----------------------------
(***************************************************************************)
(* Proofs about Outbox, for any events, relays, batch size and number of   *)
(* failures.                                                               *)
(***************************************************************************)
EXTENDS Outbox, TLAPS

\* A locked row is PENDING, and locked by one relay.
Exclusive ==
    \A r \in Relays : \A e \in batch[r] :
        status[e] = "PENDING" /\ \A q \in Relays : e \in batch[q] => q = r

\* A marked row has been sent.
MarkedIsSent == \A r \in Relays : \A e \in marked[r] : queue[e] + handled[e] > 0

\* DuplicatesBounded needs that no two relays can mark the same row.
Inv == TypeOK /\ Exclusive /\ MarkedIsSent /\ DuplicatesBounded

LEMMA InitInv == Init => Inv
  BY BoundsAssumption DEF Init, Inv, TypeOK, Exclusive, MarkedIsSent, DuplicatesBounded, Taken

-----------------------------------------------------------------------------
(* The table and the broker                                                *)

LEMMA EmitInv ==
    ASSUME Inv, NEW e \in Events, Emit(e)
    PROVE  Inv' /\ Promise!Emit(e)
<1> USE DEF Inv, TypeOK
<1>1. /\ \A f \in Events : status'[f] = IF f = e THEN "PENDING" ELSE status[f]
      /\ UNCHANGED <<queue, handled, at, batch, marked, faults>>
  BY DEF Emit
<1>2. TypeOK'
  BY <1>1 DEF Emit
<1>3. Exclusive' /\ MarkedIsSent'
  BY <1>1 DEF Exclusive, MarkedIsSent
<1>4. DuplicatesBounded'
  BY <1>1 DEF Emit, DuplicatesBounded, Taken
<1>5. Promise!Emit(e)
  BY DEF Emit, Promise!Emit
<1> QED
  BY <1>2, <1>3, <1>4, <1>5

LEMMA HandleInv ==
    ASSUME Inv, NEW e \in Events, Handle(e) \/ HandleUnacked(e)
    PROVE  Inv' /\ Promise!Handle(e)
<1> USE DEF Inv, TypeOK
<1>1. /\ UNCHANGED <<status, at, batch, marked>> /\ queue[e] > 0
      /\ handled' = [handled EXCEPT ![e] = @ + 1]
      /\ \/ queue' = [queue EXCEPT ![e] = @ - 1] /\ faults' = faults
         \/ queue' = queue /\ faults' = faults + 1
  BY DEF Handle, HandleUnacked, Fault
<1>2. TypeOK'
  BY <1>1
<1>3. Exclusive'
  BY <1>1 DEF Exclusive
<1>4. \A f \in Events : /\ queue'[f] + handled'[f] >= queue[f] + handled[f]
                        /\ queue'[f] + handled'[f] - faults' <= queue[f] + handled[f] - faults
  BY <1>1
<1>5. MarkedIsSent'
  BY <1>1, <1>2, <1>4 DEF MarkedIsSent
<1>6. \A f \in Events : Taken(f)' <=> Taken(f)
  BY <1>1 DEF Taken
<1>7. DuplicatesBounded'
  BY <1>2, <1>4, <1>6 DEF DuplicatesBounded
<1>8. Promise!Handle(e)
  BY <1>1 DEF Promise!Handle
<1> QED
  BY <1>2, <1>3, <1>5, <1>7, <1>8

-----------------------------------------------------------------------------
(* The relay                                                               *)

\* Starting, stopping and claiming send and mark nothing.
LEMMA IdleInv ==
    ASSUME Inv, NEW r \in Relays, Start(r) \/ Terminate(r) \/ ClaimBatch(r)
    PROVE  Inv' /\ UNCHANGED Promise!vars
<1> USE DEF Inv, TypeOK
<1>1. UNCHANGED <<status, queue, handled, marked>> /\ faults' \in Nat /\ faults' >= faults
  BY DEF Start, Terminate, ClaimBatch, Fault
<1>2. MarkedIsSent' /\ DuplicatesBounded'
  <2>1. \A f \in Events : Taken(f)' <=> Taken(f)
    BY <1>1 DEF Taken
  <2> QED
    BY <1>1, <2>1 DEF MarkedIsSent, DuplicatesBounded
<1>3. CASE Start(r) \/ Terminate(r)
  <2>1. UNCHANGED batch /\ at' \in [Relays -> {"down", "polling", "sending"}]
        /\ at[r] # "sending" /\ \A q \in Relays \ {r} : at'[q] = at[q]
    BY <1>3 DEF Start, Terminate
  <2>2. TypeOK'
    BY <1>1, <2>1
  <2>3. Exclusive'
    BY <1>1, <2>1 DEF Exclusive
  <2> QED
    BY <1>1, <1>2, <2>2, <2>3 DEF Promise!vars
<1>4. CASE ClaimBatch(r)
  <2>1. PICK B \in Oldest \ {{}} : batch' = [batch EXCEPT ![r] = B]
    BY <1>4 DEF ClaimBatch
  <2>2. B \subseteq Events /\ \A e \in B : status[e] = "PENDING" /\ \A q \in Relays : e \notin batch[q]
    BY <2>1 DEF Oldest, Unlocked
  <2>3. at[r] = "polling" /\ at' = [at EXCEPT ![r] = "sending"]
    BY <1>4 DEF ClaimBatch
  <2>4. batch'[r] = B /\ batch[r] = {} /\ \A q \in Relays \ {r} : batch'[q] = batch[q] /\ at'[q] = at[q]
    BY <2>1, <2>3
  <2>5. TypeOK'
    BY <1>1, <2>1, <2>2, <2>3, <2>4
  <2>6. Exclusive'
    BY <1>1, <2>2, <2>4 DEF Exclusive
  <2> QED
    BY <1>1, <1>2, <2>5, <2>6 DEF Promise!vars
<1> QED
  BY <1>3, <1>4

\* A row about to be sent is taken by nobody yet.
LEMMA UpcomingFree ==
    ASSUME Inv, NEW r \in Relays, NEW e \in Upcoming(r)
    PROVE  e \in Events /\ e \in batch[r] /\ status[e] = "PENDING" /\ ~Taken(e)
  BY DEF Inv, TypeOK, Exclusive, Upcoming, Taken

LEMMA SendInv ==
    ASSUME Inv, NEW r \in Relays, Send(r)
    PROVE  Inv' /\ \E e \in Events : Promise!Send(e)
<1> USE DEF Inv, TypeOK
<1>1. PICK e \in Upcoming(r) :
          /\ queue' = [queue EXCEPT ![e] = @ + 1]
          /\ marked' = [marked EXCEPT ![r] = @ \cup {e}]
  BY DEF Send
<1>2. e \in Events /\ e \in batch[r] /\ status[e] = "PENDING" /\ ~Taken(e)
  BY UpcomingFree
<1>3. UNCHANGED <<status, handled, at, batch, faults>> /\ at[r] = "sending"
  BY DEF Send
<1>4. TypeOK'
  BY <1>1, <1>2, <1>3
<1>5. Exclusive'
  BY <1>3 DEF Exclusive
<1>6. MarkedIsSent'
  BY <1>1, <1>2, <1>3 DEF MarkedIsSent
<1>7. Taken(e)' /\ \A f \in Events \ {e} : Taken(f)' <=> Taken(f)
  BY <1>1, <1>3 DEF Taken
<1>8. DuplicatesBounded'
  <2> SUFFICES ASSUME NEW f \in Events
               PROVE  queue'[f] + handled'[f] <= faults' + (IF Taken(f)' THEN 1 ELSE 0)
    BY DEF DuplicatesBounded
  <2>1. queue[f] + handled[f] <= faults + (IF Taken(f) THEN 1 ELSE 0)
    BY DEF DuplicatesBounded
  <2>2. CASE f = e
    <3>1. queue'[f] = queue[f] + 1
      BY <1>1, <2>2
    <3> QED
      BY <1>2, <1>3, <1>7, <2>1, <2>2, <3>1
  <2>3. CASE f # e
    BY <1>1, <1>3, <1>7, <2>1, <2>3
  <2> QED
    BY <2>2, <2>3
<1>9. Promise!Send(e)
  BY <1>1, <1>2, <1>3 DEF Promise!Send
<1> QED
  BY <1>2, <1>4, <1>5, <1>6, <1>8, <1>9

LEMMA LeaveFacts ==
    ASSUME TypeOK, NEW r \in Relays, NEW to \in {"down", "polling"}, Leave(r, to)
    PROVE  /\ at' \in [Relays -> {"down", "polling", "sending"}]
           /\ batch' \in [Relays -> SUBSET Events] /\ marked' \in [Relays -> SUBSET Events]
           /\ at'[r] = to /\ batch'[r] = {} /\ marked'[r] = {}
           /\ \A q \in Relays \ {r} :
                 at'[q] = at[q] /\ batch'[q] = batch[q] /\ marked'[q] = marked[q]
  BY DEF TypeOK, Leave

LEMMA CommitInv ==
    ASSUME Inv, NEW r \in Relays, Commit(r)
    PROVE  Inv' /\ \E E \in SUBSET Events : Promise!Publish(E)
<1> USE DEF Inv, TypeOK
<1>1. /\ marked[r] = batch[r] /\ marked[r] \in SUBSET Events
      /\ status' = [e \in Events |-> IF e \in marked[r] THEN "PUBLISHED" ELSE status[e]]
      /\ UNCHANGED <<queue, handled, faults>>
      /\ Leave(r, "polling")
  BY DEF Commit
<1>2. /\ at' \in [Relays -> {"down", "polling", "sending"}]
      /\ batch' \in [Relays -> SUBSET Events] /\ marked' \in [Relays -> SUBSET Events]
      /\ at'[r] = "polling" /\ batch'[r] = {} /\ marked'[r] = {}
      /\ \A q \in Relays \ {r} :
            at'[q] = at[q] /\ batch'[q] = batch[q] /\ marked'[q] = marked[q]
  BY <1>1, LeaveFacts
<1>3. TypeOK'
  BY <1>1, <1>2
<1>4. Exclusive'
  BY <1>1, <1>2 DEF Exclusive
<1>5. MarkedIsSent'
  BY <1>1, <1>2 DEF MarkedIsSent
<1>6. \A e \in Events : Taken(e) => Taken(e)'
  BY <1>1, <1>2 DEF Taken
<1>7. DuplicatesBounded'
  BY <1>1, <1>3, <1>6 DEF DuplicatesBounded
<1>8. Promise!Publish(marked[r])
  BY <1>1 DEF Promise!Publish, Exclusive, MarkedIsSent
<1> QED
  BY <1>1, <1>3, <1>4, <1>5, <1>7, <1>8

LEMMA AbortInv ==
    ASSUME Inv, NEW r \in Relays, NEW to \in {"polling", "down"}, Abort(r, to)
    PROVE  Inv' /\ (UNCHANGED Promise!vars \/ \E e \in Events : Promise!Send(e))
<1> USE DEF Inv, TypeOK
<1>1. UNCHANGED <<status, handled>> /\ faults' = faults + 1 /\ Leave(r, to)
  BY DEF Abort, Fault
<1>2. /\ at' \in [Relays -> {"down", "polling", "sending"}]
      /\ batch' \in [Relays -> SUBSET Events] /\ marked' \in [Relays -> SUBSET Events]
      /\ at'[r] = to /\ batch'[r] = {} /\ marked'[r] = {}
      /\ \A q \in Relays \ {r} :
            at'[q] = at[q] /\ batch'[q] = batch[q] /\ marked'[q] = marked[q]
  BY <1>1, LeaveFacts
<1>3. Exclusive'
  BY <1>1, <1>2 DEF Exclusive
<1>4. /\ queue' \in [Events -> Nat]
      /\ \A f \in Events : /\ queue'[f] >= queue[f]
                           /\ queue'[f] + handled[f] <= faults + 1
      /\ UNCHANGED Promise!vars \/ \E e \in Events : Promise!Send(e)
  <2>1. CASE UNCHANGED queue
    BY <1>1, <2>1 DEF DuplicatesBounded, Promise!vars
  <2>2. CASE \E e \in Upcoming(r) : queue' = [queue EXCEPT ![e] = @ + 1]
    <3>1. PICK e \in Upcoming(r) : queue' = [queue EXCEPT ![e] = @ + 1]
      BY <2>2
    <3>2. e \in Events /\ status[e] = "PENDING" /\ ~Taken(e)
      BY UpcomingFree
    <3>3. Promise!Send(e)
      BY <1>1, <3>1, <3>2 DEF Promise!Send
    <3>4. queue[e] + handled[e] <= faults
      BY <3>2 DEF DuplicatesBounded
    <3>5. \A f \in Events \ {e} : queue'[f] = queue[f] /\ queue[f] + handled[f] <= faults + 1
      BY <3>1 DEF DuplicatesBounded
    <3>6. queue'[e] = queue[e] + 1
      BY <3>1, <3>2
    <3> QED
      BY <3>1, <3>2, <3>3, <3>4, <3>5, <3>6
  <2> QED
    BY <2>1, <2>2 DEF Abort
<1>5. TypeOK'
  BY <1>1, <1>2, <1>4
<1>6. MarkedIsSent'
  BY <1>1, <1>2, <1>4 DEF MarkedIsSent
<1>7. DuplicatesBounded'
  BY <1>1, <1>4, <1>5 DEF DuplicatesBounded
<1> QED
  BY <1>3, <1>4, <1>5, <1>6, <1>7

-----------------------------------------------------------------------------
(* The theorems                                                            *)

LEMMA NextInv == Inv /\ [Next]_vars => Inv' /\ [Promise!Next]_(Promise!vars)
<1> SUFFICES ASSUME Inv, [Next]_vars PROVE Inv' /\ [Promise!Next]_(Promise!vars)
  OBVIOUS
<1>1. CASE UNCHANGED vars
  BY <1>1 DEF vars, Promise!vars, Inv, TypeOK, Exclusive, MarkedIsSent, DuplicatesBounded, Taken
<1>2. ASSUME NEW e \in Events, Emit(e) \/ Handle(e) \/ HandleUnacked(e)
      PROVE  Inv' /\ [Promise!Next]_(Promise!vars)
  BY <1>2, EmitInv, HandleInv DEF Promise!Next
<1>3. ASSUME NEW r \in Relays, Relay(r) \/ Start(r) \/ Terminate(r)
      PROVE  Inv' /\ [Promise!Next]_(Promise!vars)
  BY <1>3, IdleInv, SendInv, CommitInv DEF Relay, Promise!Next
<1>4. ASSUME NEW r \in Relays, NEW to \in {"polling", "down"}, Abort(r, to)
      PROVE  Inv' /\ [Promise!Next]_(Promise!vars)
  BY <1>4, AbortInv DEF Promise!Next
<1> QED
  BY <1>1, <1>2, <1>3, <1>4 DEF Next

LEMMA Invariant == Spec => []Inv
  BY InitInv, NextInv, PTL DEF Spec

\* Every variable keeps its type, and a relay marks only rows it has locked.
THEOREM TypesAreKept == Spec => []TypeOK
<1>1. Inv => TypeOK
  BY DEF Inv
<1> QED
  BY <1>1, Invariant, PTL

\* Every failure costs an event at most one duplicate, with any number of replicas.
THEOREM DuplicatesAreBounded == Spec => []DuplicatesBounded
<1>1. Inv => DuplicatesBounded
  BY DEF Inv
<1> QED
  BY <1>1, Invariant, PTL

\* The relay implements the promise: nothing is marked PUBLISHED that was not sent, nothing
\* is sent that was not committed, and a failed batch marks nothing.
THEOREM PromiseIsKept == Spec => KeepsPromise
<1>1. Init => Promise!Init
  BY DEF Init, Promise!Init
<1> QED
  BY <1>1, Invariant, NextInv, PTL DEF Spec, KeepsPromise, Promise!Spec

=============================================================================
