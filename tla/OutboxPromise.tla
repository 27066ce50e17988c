---------------------------- MODULE OutboxPromise ----------------------------
(***************************************************************************)
(* What the transactional outbox promises, whatever relays do and however  *)
(* they fail: an event that was committed reaches the broker, and is never *)
(* put aside as PUBLISHED before it has.  At least once, not exactly once. *)
(***************************************************************************)
EXTENDS Naturals

CONSTANT Events

VARIABLES
    status,     \* status[e]: the committed row, "NONE" before the event exists
    queue,      \* queue[e]: messages for e in the broker
    handled     \* handled[e]: runs of the task for e

vars == <<status, queue, handled>>

Init ==
    /\ status = [e \in Events |-> "NONE"]
    /\ queue = [e \in Events |-> 0]
    /\ handled = [e \in Events |-> 0]

Emit(e) ==
    /\ status[e] = "NONE"
    /\ status' = [status EXCEPT ![e] = "PENDING"]
    /\ UNCHANGED <<queue, handled>>

Send(e) ==
    /\ status[e] = "PENDING"
    /\ queue' = [queue EXCEPT ![e] = @ + 1]
    /\ UNCHANGED <<status, handled>>

\* Only what is pending and has been sent, and all of it at once.
Publish(E) ==
    /\ \A e \in E : status[e] = "PENDING" /\ queue[e] + handled[e] > 0
    /\ status' = [e \in Events |-> IF e \in E THEN "PUBLISHED" ELSE status[e]]
    /\ UNCHANGED <<queue, handled>>

\* A message is handled before it goes, and may be handled again.
Handle(e) ==
    /\ queue[e] > 0
    /\ handled' = [handled EXCEPT ![e] = @ + 1]
    /\ queue' = [queue EXCEPT ![e] = @ - 1] \/ UNCHANGED queue
    /\ UNCHANGED status

Next ==
    \/ \E e \in Events : Emit(e) \/ Send(e) \/ Handle(e)
    \/ \E E \in SUBSET Events : Publish(E)

Spec == Init /\ [][Next]_vars

=============================================================================
