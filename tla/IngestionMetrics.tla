-------------------------- MODULE IngestionMetrics --------------------------
(***************************************************************************)
(* The metrics reporter beside the handler: reportMetrics wakes up every   *)
(* 30 seconds and logs Metrics.Snapshot(), which loads the five atomic     *)
(* counters one after the other while the handler keeps adding to them.    *)
(* This module composes the reporter goroutine with Ingestion.             *)
(***************************************************************************)
EXTENDS Ingestion

VARIABLES snap,   \* the values loaded so far by this snapshot
          next    \* which counter is loaded next; 0 between two snapshots

mvars == <<vars, snap, next>>

(* Mutant of LoadOrder: received is loaded last.                           *)
LoadOrderReceivedLast ==
    <<"accepted", "rejected", "duplicates", "storeErrors", "received">>

(* The order of the map literal in Snapshot.                               *)
LoadOrder == <<"received", "accepted", "rejected", "duplicates", "storeErrors">>

MInit ==
    /\ Init
    /\ snap = ZeroMetrics
    /\ next = 0

(* The goroutine starts after Connect and ends with ctx.                   *)
Reporting == proc \in {"connected", "subscribing", "running"}

TickerFires ==
    /\ Reporting
    /\ next = 0
    /\ next' = 1
    /\ UNCHANGED <<vars, snap>>

(* An atomic load; the last one completes the map that is logged.          *)
LoadCounter ==
    /\ next # 0
    /\ snap' = [snap EXCEPT ![LoadOrder[next]] = metrics[LoadOrder[next]]]
    /\ next' = IF next = Len(LoadOrder) THEN 0 ELSE next + 1
    /\ UNCHANGED vars

(* A step of the service; a snapshot under way dies with the process.      *)
ServiceStep ==
    /\ Next
    /\ IF proc' = "down"
       THEN snap' = ZeroMetrics /\ next' = 0
       ELSE UNCHANGED <<snap, next>>

MNext == TickerFires \/ LoadCounter \/ ServiceStep

MSpec == MInit /\ [][MNext]_mvars

-----------------------------------------------------------------------------
MTypeOK ==
    /\ TypeOK
    /\ snap \in [Counters -> Nat]
    /\ next \in 0 .. Len(LoadOrder)

SnapProcessed ==
    snap["accepted"] + snap["rejected"] + snap["duplicates"] + snap["storeErrors"]

(* The five loads are not one atomic read, yet a logged snapshot never     *)
(* shows more than one received message without its outcome: received is   *)
(* loaded first, and one handler runs at a time.                           *)
SnapshotIsCoherent ==
    next = 0 => snap["received"] <= SnapProcessed + 1
=============================================================================
