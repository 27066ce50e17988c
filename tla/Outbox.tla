------------------------------- MODULE Outbox --------------------------------
(***************************************************************************)
(* The outbox relay: replicas that claim batches of PENDING events, send   *)
(* one Celery message for each, mark the rows and commit.  Sending is      *)
(* final, marking is not: a batch that fails half-way has sent some of its *)
(* messages and marked nothing.  At the other end of the broker are the    *)
(* tasks process_order (module OrderLifecycle) and notify_low_stock.       *)
(*                                                                         *)
(* Abstracted: the kind and the payload of an event (both kinds have a     *)
(* handler), the poll interval.                                            *)
(***************************************************************************)
EXTENDS Naturals, FiniteSets

CONSTANTS
    Events,
    CreatedAt,  \* CreatedAt[e]: created_at, when the emitting transaction began
    Relays,     \* relay processes
    BatchSize,  \* outbox_relay.BATCH_SIZE
    MaxFaults   \* bound: failures, crashes and stops

ASSUME EventsAssumption == IsFiniteSet(Events) /\ CreatedAt \in [Events -> Nat]
ASSUME BoundsAssumption == BatchSize \in Nat \ {0} /\ MaxFaults \in Nat

VARIABLES
    status,     \* status[e]: the committed row, "NONE" before the event exists
    queue,      \* queue[e]: messages for e in the broker
    handled,    \* handled[e]: runs of the task for e
    at,         \* at[r]: "down", "polling", or "sending" a batch
    batch,      \* batch[r]: the rows r has locked
    marked,     \* marked[r]: those it has sent and marked, uncommitted
    faults

vars == <<status, queue, handled, at, batch, marked, faults>>

Promise == INSTANCE OutboxPromise

Fault == faults < MaxFaults /\ faults' = faults + 1

-----------------------------------------------------------------------------
(* The table and the broker                                                *)

\* outbox_repository.create, in the transaction of the order or of the alert. Transactions
\* commit in any order, whatever their created_at.
Emit(e) ==
    /\ status[e] = "NONE"
    /\ status' = [status EXCEPT ![e] = "PENDING"]
    /\ UNCHANGED <<queue, handled, at, batch, marked, faults>>

\* A Celery worker runs the task and acknowledges its message.
Handle(e) ==
    /\ queue[e] > 0
    /\ queue' = [queue EXCEPT ![e] = @ - 1]
    /\ handled' = [handled EXCEPT ![e] = @ + 1]
    /\ UNCHANGED <<status, at, batch, marked, faults>>

\* The worker dies between the two, and the message is delivered again.
HandleUnacked(e) ==
    /\ Fault
    /\ queue[e] > 0
    /\ handled' = [handled EXCEPT ![e] = @ + 1]
    /\ UNCHANGED <<status, queue, at, batch, marked>>

-----------------------------------------------------------------------------
(* The relay                                                               *)

Start(r) ==
    /\ at[r] = "down"
    /\ at' = [at EXCEPT ![r] = "polling"]
    /\ UNCHANGED <<status, queue, handled, batch, marked, faults>>

\* SIGTERM is looked at between two batches only.
Terminate(r) ==
    /\ Fault
    /\ at[r] = "polling"
    /\ at' = [at EXCEPT ![r] = "down"]
    /\ UNCHANGED <<status, queue, handled, batch, marked>>

\* Mutants: without FOR UPDATE SKIP LOCKED; without the rows that have been sent before.
UnlockedAny == {e \in Events : status[e] = "PENDING"}
UnlockedUnsent ==
    {e \in Events : /\ status[e] = "PENDING" /\ queue[e] + handled[e] = 0
                    /\ \A r \in Relays : e \notin batch[r]}

Unlocked == {e \in Events : status[e] = "PENDING" /\ \A r \in Relays : e \notin batch[r]}

Least(m, n) == IF m <= n THEN m ELSE n

\* The oldest rows that nobody has locked, up to the limit.
Oldest ==
    {B \in SUBSET Unlocked :
        /\ Cardinality(B) = Least(BatchSize, Cardinality(Unlocked))
        /\ \A e \in B, f \in Unlocked \ B : CreatedAt[e] <= CreatedAt[f]}

\* claim_pending_batch; a poll that finds nothing is no step.
ClaimBatch(r) ==
    /\ at[r] = "polling"
    /\ \E B \in Oldest \ {{}} : batch' = [batch EXCEPT ![r] = B]
    /\ at' = [at EXCEPT ![r] = "sending"]
    /\ UNCHANGED <<status, queue, handled, marked, faults>>

\* The rows r may send next: the list is in the order of created_at.
Upcoming(r) ==
    {e \in batch[r] \ marked[r] : \A f \in batch[r] \ marked[r] : CreatedAt[e] <= CreatedAt[f]}

\* handler(event.payload), then mark_published.
Send(r) ==
    /\ at[r] = "sending"
    /\ \E e \in Upcoming(r) :
          /\ queue' = [queue EXCEPT ![e] = @ + 1]
          /\ marked' = [marked EXCEPT ![r] = @ \cup {e}]
    /\ UNCHANGED <<status, handled, at, batch, faults>>

\* The transaction is over, and the relay goes on or is gone.
Leave(r, to) ==
    /\ at' = [at EXCEPT ![r] = to]
    /\ batch' = [batch EXCEPT ![r] = {}]
    /\ marked' = [marked EXCEPT ![r] = {}]

\* Mutant: the messages are not waited for.
CommitEarly(r) ==
    /\ at[r] = "sending"
    /\ status' = [e \in Events |-> IF e \in batch[r] THEN "PUBLISHED" ELSE status[e]]
    /\ Leave(r, "polling")
    /\ UNCHANGED <<queue, handled, faults>>

Commit(r) ==
    /\ at[r] = "sending"
    /\ marked[r] = batch[r]
    /\ status' = [e \in Events |-> IF e \in marked[r] THEN "PUBLISHED" ELSE status[e]]
    /\ Leave(r, "polling")
    /\ UNCHANGED <<queue, handled, faults>>

\* An exception in a handler, in mark_published or at the commit rolls the batch back, and
\* the relay goes on polling; a crash does the same and stops it. The broker may have
\* taken the message whose call failed.
Abort(r, to) ==
    /\ Fault
    /\ at[r] = "sending"
    /\ Leave(r, to)
    /\ \/ UNCHANGED queue
       \/ \E e \in Upcoming(r) : queue' = [queue EXCEPT ![e] = @ + 1]
    /\ UNCHANGED <<status, handled>>

-----------------------------------------------------------------------------
Init ==
    /\ status = [e \in Events |-> "NONE"]
    /\ queue = [e \in Events |-> 0]
    /\ handled = [e \in Events |-> 0]
    /\ at = [r \in Relays |-> "down"]
    /\ batch = [r \in Relays |-> {}]
    /\ marked = [r \in Relays |-> {}]
    /\ faults = 0

Relay(r) == ClaimBatch(r) \/ Send(r) \/ Commit(r)

Next ==
    \/ \E e \in Events : Emit(e) \/ Handle(e) \/ HandleUnacked(e)
    \/ \E r \in Relays : Relay(r) \/ Start(r) \/ Terminate(r)
    \/ \E r \in Relays, to \in {"polling", "down"} : Abort(r, to)

Spec == Init /\ [][Next]_vars

\* A relay that runs polls for ever, and the workers take messages. Nobody promises to
\* start a relay again: docker-compose.yml has no restart policy.
FairSpec ==
    /\ Spec
    /\ \A r \in Relays : WF_vars(Relay(r))
    /\ \A e \in Events : WF_vars(Handle(e))

-----------------------------------------------------------------------------
(* Properties                                                              *)

\* Every variable keeps its type; a relay marks rows it has locked, and has locked none
\* outside a batch.
TypeOK ==
    /\ status \in [Events -> {"NONE", "PENDING", "PUBLISHED"}]
    /\ queue \in [Events -> Nat]
    /\ handled \in [Events -> Nat]
    /\ at \in [Relays -> {"down", "polling", "sending"}]
    /\ batch \in [Relays -> SUBSET Events]
    /\ marked \in [Relays -> SUBSET Events]
    /\ faults \in Nat
    /\ \A r \in Relays : marked[r] \subseteq batch[r] /\ (at[r] # "sending" => batch[r] = {})

Taken(e) == status[e] = "PUBLISHED" \/ \E r \in Relays : e \in marked[r]

\* Replicas share the work: an event is sent once, and once more at most for every failure,
\* whichever replicas claim it, and however a batch is cut short.
DuplicatesBounded ==
    \A e \in Events : queue[e] + handled[e] <= faults + (IF Taken(e) THEN 1 ELSE 0)

\* The batches, locks and failures of the relay implement the promise of the outbox.
KeepsPromise == Promise!Spec

\* models/outbox.py: publication is durable. While some relay runs, every committed event
\* is marked in the end, and its task has run.
EventsHandled ==
    <>[](\E r \in Relays : at[r] # "down")
        => \A e \in Events : (status[e] = "PENDING") ~> (status[e] = "PUBLISHED" /\ handled[e] > 0)

=============================================================================
