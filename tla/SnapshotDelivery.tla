--------------------------- MODULE SnapshotDelivery ---------------------------
(***************************************************************************)
(* What the delivery engine sends for the notification and the channel     *)
(* response channels: the snapshot row (NotificationDelivery,              *)
(* ChannelResponseDelivery) that says what to send, for which tool call or *)
(* agent reply.  Its producer creates the Delivery in one transaction and  *)
(* the snapshot in the next; the channel handler reads the snapshot.       *)
(* Composes the producers with Delivery, whose steps it takes.             *)
(***************************************************************************)
EXTENDS Delivery

CONSTANTS
    Sources,    \* tool executions of notification.send, or agent replies
    NoSource,
    Producers   \* bound: calls of create_or_reuse, retried handlers included

ASSUME SnapshotAssumption ==
    /\ NoSource \notin Sources
    /\ Webhooks = {}

VARIABLES
    producer,   \* calls of create_or_reuse in progress
    snapshot,   \* the source a delivery's snapshot row is for
    recorded    \* the attempt that wrote the snapshot's provider_message_id; 0: blank

snapshotVars == <<producer, snapshot, recorded>>
allVars == <<vars, snapshotVars>>

NewProducer == [pc |-> "new", source |-> NoSource, delivery |-> NoDelivery]

SnapshotInit ==
    /\ Init
    /\ producer = [p \in Producers |-> NewProducer]
    /\ snapshot = [d \in Deliveries |-> NoSource]
    /\ recorded = [d \in Deliveries |-> 0]

-----------------------------------------------------------------------------
(* The producer *)

HasSnapshot(s) == \E d \in Deliveries : snapshot[d] = s

\* create_or_reuse_notification_delivery, _create_or_reuse_response_delivery: the
\* source may have its snapshot already.
create_or_reuse(p, s) ==
    /\ producer[p].pc = "new"
    /\ producer' = [producer EXCEPT ![p].source = s,
                                    ![p].pc = IF HasSnapshot(s) THEN "done" ELSE "delivery"]
    /\ UNCHANGED <<vars, snapshot, recorded>>

\* The delivery commits, and is published, before there is anything to send.
create_for_source(p, d) ==
    /\ producer[p].pc = "delivery"
    /\ create_delivery(d)
    /\ producer' = [producer EXCEPT ![p].pc = "snapshot", ![p].delivery = d]
    /\ UNCHANGED <<snapshot, recorded>>

\* Mutation: the source column is not unique.
create_snapshot_not_unique(p) ==
    /\ producer[p].pc = "snapshot"
    /\ snapshot' = [snapshot EXCEPT ![producer[p].delivery] = producer[p].source]
    /\ producer' = [producer EXCEPT ![p].pc = "done"]
    /\ UNCHANGED <<vars, recorded>>

\* One snapshot per source: a second insert is refused and its delivery stays empty.
create_snapshot(p) ==
    /\ producer[p].pc = "snapshot"
    /\ snapshot' = IF HasSnapshot(producer[p].source) THEN snapshot
                   ELSE [snapshot EXCEPT ![producer[p].delivery] = producer[p].source]
    /\ producer' = [producer EXCEPT ![p].pc = "done"]
    /\ UNCHANGED <<vars, recorded>>

\* The producer's process dies, or the run's on_commit hook is never reached.
ProducerCrash(p) ==
    /\ producer[p].pc \in {"delivery", "snapshot"}
    /\ producer' = [producer EXCEPT ![p].pc = "done"]
    /\ UNCHANGED <<vars, snapshot, recorded>>

-----------------------------------------------------------------------------
(* The channel handler *)

\* Mutation: nothing to send is a success.
handle_snapshot_attempt_empty_ok(w) ==
    LET d == worker[w].delivery
        n == worker[w].token IN
    /\ worker[w].pc = "attempt"
    /\ worker' = [worker EXCEPT ![w].pc = "complete", ![w].outcome = "ok"]
    /\ sent' = IF snapshot[d] = NoSource THEN sent ELSE [sent EXCEPT ![d][n] = @ + 1]
    /\ UNCHANGED <<row, tasks, faults, snapshotVars>>

\* handle_notification_delivery_attempt, handle_channel_response_delivery_attempt:
\* without a snapshot the attempt ends as a terminal failure; with one
\* send_notification is called (which is what sent counts), and an accepted
\* message's id, if there is one, is written whoever owns the delivery by now.
handle_snapshot_attempt(w) ==
    LET d == worker[w].delivery IN
    /\ handle_delivery_attempt(w)
    /\ snapshot[d] # NoSource <=> sent' # sent
    /\ \/ /\ snapshot[d] # NoSource /\ worker'[w].outcome = "ok"
          /\ recorded' = [recorded EXCEPT ![d] = worker[w].token]
       \/ UNCHANGED recorded
    /\ UNCHANGED <<producer, snapshot>>

\* The engine's other steps do not touch the snapshot.
EngineStep(w) ==
    /\ \/ complete_delivery_success(w)
       \/ complete_delivery_failure(w)
       \/ stale_claim(w)
    /\ UNCHANGED snapshotVars

EngineTake(w, d) == process_claimed_delivery(w, d) /\ UNCHANGED snapshotVars
EngineSweep(d) == Sweep(d) /\ UNCHANGED snapshotVars
EngineTime(d) == Time(d) /\ UNCHANGED snapshotVars
EngineCrash(w) == WorkerCrash(w) /\ UNCHANGED snapshotVars

-----------------------------------------------------------------------------

ProducerStep(p) ==
    \/ \E s \in Sources : create_or_reuse(p, s)
    \/ \E d \in Deliveries : create_for_source(p, d)
    \/ create_snapshot(p)

SnapshotNext ==
    \/ \E p \in Producers : ProducerStep(p) \/ ProducerCrash(p)
    \/ \E w \in Workers : handle_snapshot_attempt(w) \/ EngineStep(w) \/ EngineCrash(w)
    \/ \E w \in Workers, d \in Deliveries : EngineTake(w, d)
    \/ \E d \in Deliveries : EngineSweep(d) \/ EngineTime(d)

SnapshotSpec == SnapshotInit /\ [][SnapshotNext]_allVars

-----------------------------------------------------------------------------
(* Properties *)

\* The snapshot side keeps its types.
SnapshotTypeOK ==
    /\ producer \in [Producers -> [pc : {"new", "delivery", "snapshot", "done"},
                                   source : Sources \cup {NoSource},
                                   delivery : Deliveries \cup {NoDelivery}]]
    /\ snapshot \in [Deliveries -> Sources \cup {NoSource}]
    /\ recorded \in [Deliveries -> 0..AttemptCap]

\* A tool call that is retried while its first handler thread still runs, or a
\* producer that dies half way and is called again, never notifies twice: only
\* deliveries with a snapshot call the provider, and no two have the same source.
OneNotificationPerSource ==
    \A c, d \in Deliveries : \A m, n \in AttemptNumbers :
        sent[c][m] > 0 /\ sent[d][n] > 0 =>
            snapshot[c] # NoSource /\ (snapshot[c] = snapshot[d] => c = d)

\* DELIVERED means that the provider was called, for a known source, by the very
\* attempt that is recorded as the successful one; and the provider's message id
\* is that of a call that was made, even when a stale worker wrote it.
DeliveredWasSent ==
    \A d \in Deliveries :
        /\ status[d] = "DELIVERED" => snapshot[d] # NoSource /\ sent[d][attempts[d]] = 1
        /\ recorded[d] # 0 => sent[d][recorded[d]] = 1
=============================================================================
