---------------------------- MODULE SnapshotView ----------------------------
(***************************************************************************)
(* What gold promises of bronze, however the job behind it is scheduled,   *)
(* fails or is killed: its readers always see a complete pass over the     *)
(* source as it was at one instant, and never at an older one than before. *)
(***************************************************************************)
EXTENDS Integers

CONSTANT View(_)     \* what a complete pass over a set of rows yields

VARIABLES source,    \* the rows of the source, which are only ever added
          view       \* what its readers see

Init == source = {} /\ view = View({})

(* `past` is what the source held at some instant: the rows are numbered   *)
(* in the order in which they were ingested.                               *)
AsOf(past) ==
    /\ past \subseteq source
    /\ \A r \in past, q \in source \ past : r.ingestedAt < q.ingestedAt

(* The source gains rows; its readers see nothing of it yet.               *)
Gain ==
    /\ source \subseteq source'
    /\ \A r \in source, q \in source' \ source : r.ingestedAt < q.ingestedAt
    /\ UNCHANGED view

(* The view is replaced as a whole, by that of the same instant or of a    *)
(* later one.                                                              *)
Refresh ==
    /\ \E past, later \in SUBSET source :
         /\ AsOf(past) /\ view = View(past)
         /\ AsOf(later) /\ view' = View(later)
         /\ past \subseteq later
    /\ UNCHANGED source

Spec == Init /\ [][Gain \/ Refresh]_<<source, view>>
=============================================================================
