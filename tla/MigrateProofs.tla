--------------------------- MODULE MigrateProofs ---------------------------
(***************************************************************************)
(* The schema is complete for whoever got past EnsureUp, and the version   *)
(* table never lists a migration twice, for any processes, migrations and  *)
(* faults.  The argument: no process works on a migration beyond the next  *)
(* one, and the one whose CREATE TABLE went through is alone, because the  *)
(* others wait for its transaction.                                        *)
(***************************************************************************)
EXTENDS Migrate, TLAPS

(* A process that was told a version works on the next migration or, when  *)
(* somebody was faster, on one that is done.                               *)
NeverBeyond == \A p \in Procs : pc[p] = "executing" => step[p] <= Len(versions)

(* The open transaction that holds a table holds the next one.             *)
HoldsTheNext == \A p \in Procs : pc[p] = "executed" => step[p] = Len(versions)

HoldsAlone ==
    \A p, q \in Procs : pc[p] = "executed" /\ pc[q] = "executed" => p = q

UpToDate == \A p \in Services : pc[p] \in {"migrated", "ready"} => Len(versions) > Latest

MigrateInv ==
    MigrateTypeOK /\ OnceInOrder /\ NeverBeyond /\ HoldsTheNext /\ HoldsAlone /\ UpToDate

-----------------------------------------------------------------------------
(* The next migration is the number of rows of the version table.          *)
LEMMA PendingIsNext ==
    ASSUME MigrateTypeOK, OnceInOrder
    PROVE  Pending = Len(versions)
<1>1. CASE versions = <<>>
  BY <1>1 DEF Pending
<1>2. CASE versions # <<>>
  <2>1. Len(versions) \in DOMAIN versions /\ Len(versions) \in Nat
    BY <1>2 DEF MigrateTypeOK
  <2> QED
    BY <1>2, <2>1 DEF Pending, OnceInOrder
<1> QED
  BY <1>1, <1>2

(* Recording the next migration keeps the version table in order.          *)
LEMMA RecordingKeepsOrder ==
    ASSUME MigrateTypeOK, OnceInOrder,
           versions' = Append(versions, Len(versions)),
           tables' = tables \cup {Len(versions)}
    PROVE  /\ OnceInOrder'
           /\ versions' \in Seq(Nat) /\ tables' \subseteq Nat
           /\ Len(versions') = Len(versions) + 1
<1> DEFINE n == Len(versions)
<1>1. versions \in Seq(Nat) /\ n \in Nat /\ tables \subseteq Nat
  BY DEF MigrateTypeOK
<1>2. /\ versions' \in Seq(Nat) /\ Len(versions') = n + 1
      /\ DOMAIN versions' = 1 .. n + 1
  BY <1>1
<1>3. \A i \in 1 .. n + 1 : versions'[i] = i - 1
  BY <1>1 DEF OnceInOrder
<1>4. tables' = 0 .. (n + 1 - 1)
  BY <1>1 DEF OnceInOrder
<1> QED
  BY <1>1, <1>2, <1>3, <1>4 DEF OnceInOrder

-----------------------------------------------------------------------------
(* What the invariant says of a step in which process p goes somewhere     *)
(* else and nothing is recorded.                                           *)
LEMMA MovingKeepsMigrateInv ==
    ASSUME MigrateInv, NEW p \in Procs, NEW place \in Places, Goto(p, place),
           UNCHANGED <<tables, versions>>, faults' \in Nat,
           NEW s \in Nat, step' = [step EXCEPT ![p] = s],
           place = "executing" => s <= Len(versions),
           place = "executed" => s = Len(versions)
                                 /\ \A q \in Procs : pc[q] # "executed",
           p \in Services /\ place \in {"migrated", "ready"} => Len(versions) > Latest
    PROVE  MigrateInv'
<1> USE DEF MigrateInv
<1>1. pc \in [Procs -> Places] /\ step \in [Procs -> Nat]
  BY DEF MigrateTypeOK
<1>2. /\ pc' \in [Procs -> Places] /\ step' \in [Procs -> Nat]
      /\ pc'[p] = place /\ step'[p] = s
      /\ \A q \in Procs : q # p => pc'[q] = pc[q] /\ step'[q] = step[q]
  BY <1>1 DEF Goto
<1>3. MigrateTypeOK'
  BY <1>2 DEF MigrateTypeOK
<1>4. OnceInOrder'
  BY DEF OnceInOrder
<1>5. NeverBeyond'
  BY <1>2 DEF NeverBeyond
<1>6. HoldsTheNext' /\ HoldsAlone'
  BY <1>2 DEF HoldsTheNext, HoldsAlone
<1>7. UpToDate'
  <2>1. Services \subseteq Procs
    BY DEF Procs
  <2> QED
    BY <1>2, <2>1 DEF UpToDate
<1> QED
  BY <1>3, <1>4, <1>5, <1>6, <1>7

(* And of one in which the next migration is recorded, by p's commit or as *)
(* the version table p found missing.                                      *)
LEMMA RecordingKeepsMigrateInv ==
    ASSUME MigrateInv, NEW p \in Procs, NEW place \in Places, Goto(p, place),
           place \notin {"executing", "executed", "migrated", "ready"},
           versions' = Append(versions, Len(versions)),
           tables' = tables \cup {Len(versions)},
           faults' \in Nat, UNCHANGED step,
           \A q \in Procs : q # p => pc[q] # "executed"
    PROVE  MigrateInv'
<1> USE DEF MigrateInv
<1>1. pc \in [Procs -> Places] /\ step \in [Procs -> Nat] /\ Len(versions) \in Nat
      /\ Latest \in Nat
  BY MigrateAssumption DEF MigrateTypeOK
<1>2. /\ pc' \in [Procs -> Places] /\ pc'[p] = place
      /\ \A q \in Procs : q # p => pc'[q] = pc[q]
  BY <1>1 DEF Goto
<1>3. /\ OnceInOrder' /\ versions' \in Seq(Nat) /\ tables' \subseteq Nat
      /\ Len(versions') = Len(versions) + 1
  BY RecordingKeepsOrder
<1>4. MigrateTypeOK'
  BY <1>1, <1>2, <1>3 DEF MigrateTypeOK
<1>5. NeverBeyond'
  BY <1>1, <1>2, <1>3 DEF NeverBeyond
<1>6. HoldsTheNext' /\ HoldsAlone'
  BY <1>2 DEF HoldsTheNext, HoldsAlone
<1>7. UpToDate'
  <2>1. Services \subseteq Procs
    BY DEF Procs
  <2> QED
    BY <1>1, <1>2, <1>3, <2>1 DEF UpToDate
<1> QED
  BY <1>3, <1>4, <1>5, <1>6, <1>7

-----------------------------------------------------------------------------
LEMMA MigrateInvInit == Init => MigrateInv
BY DEF Init, MigrateInv, MigrateTypeOK, OnceInOrder, NeverBeyond, HoldsTheNext,
       HoldsAlone, UpToDate, Places, Procs

(* Recording what the process holds is recording the next migration.       *)
LEMMA CommitKeepsMigrateInv ==
    ASSUME MigrateInv, NEW p \in Procs, pc[p] = "executed", Commits(p),
           NEW place \in {"reading", "checking", "exited"}, Goto(p, place),
           faults' \in Nat, UNCHANGED step
    PROVE  MigrateInv'
<1>1. step[p] = Len(versions)
  BY DEF MigrateInv, HoldsTheNext
<1>2. \A q \in Procs : q # p => pc[q] # "executed"
  BY DEF MigrateInv, HoldsAlone
<1>3. place \in Places /\ place \notin {"executing", "executed", "migrated", "ready"}
  BY DEF Places
<1> QED
  BY <1>1, <1>2, <1>3, RecordingKeepsMigrateInv DEF Commits

LEMMA MigrateInvNext ==
    ASSUME MigrateInv, [Next]_vars
    PROVE  MigrateInv'
<1>0. /\ pc \in [Procs -> Places] /\ step \in [Procs -> Nat]
      /\ faults \in Nat /\ Len(versions) \in Nat
  BY DEF MigrateInv, MigrateTypeOK
<1> SUFFICES ASSUME Next PROVE MigrateInv'
  <2>1. CASE UNCHANGED vars
    BY <2>1 DEF vars, MigrateInv, MigrateTypeOK, OnceInOrder, NeverBeyond,
                HoldsTheNext, HoldsAlone, UpToDate
  <2> QED
    BY <2>1
<1> PICK p \in Procs : Start(p) \/ Progress(p) \/ StatementFails(p) \/ Kill(p)
  BY DEF Next
<1>k. step[p] \in Nat /\ step = [step EXCEPT ![p] = step[p]]
  BY <1>0
<1>1. CASE Start(p)
  <2>1. "reading" \in Places
    BY DEF Places
  <2> QED
    BY <1>0, <1>1, <1>k, <2>1, MovingKeepsMigrateInv DEF Start
<1>2. CASE ReadVersion(p)
  <2>1. Pending = Len(versions)
    BY PendingIsNext DEF MigrateInv
  <2>2. CASE Pending <= Goal(p)
    <3>1. "executing" \in Places
      BY DEF Places
    <3>2. /\ Goto(p, "executing") /\ step' = [step EXCEPT ![p] = Len(versions)]
          /\ UNCHANGED <<tables, versions, faults>>
      BY <1>2, <2>1, <2>2 DEF ReadVersion
    <3>3. faults' \in Nat /\ Len(versions) \in Nat /\ Len(versions) <= Len(versions)
      BY <1>0, <3>2
    <3> QED
      BY <3>1, <3>2, <3>3, MovingKeepsMigrateInv
  <2>3. CASE ~(Pending <= Goal(p))
    <3>1. "migrated" \in Places
      BY DEF Places
    <3>2. p \in Services => Goal(p) = Latest /\ Latest \in Nat
      BY MigrateAssumption DEF Goal
    <3>3. p \in Services => Len(versions) > Latest
      BY <1>0, <2>1, <2>3, <3>2
    <3> QED
      BY <1>0, <1>2, <2>1, <2>3, <3>1, <3>3, MovingKeepsMigrateInv DEF ReadVersion
  <2> QED
    BY <2>2, <2>3
<1>3. CASE Execute(p)
  <2>1. "executed" \in Places
    BY DEF Places
  <2>2. step[p] <= Len(versions) /\ tables = 0 .. (Len(versions) - 1)
    BY <1>3 DEF Execute, MigrateInv, NeverBeyond, OnceInOrder
  <2>3. step[p] = Len(versions)
    BY <1>0, <1>3, <1>k, <2>2 DEF Execute
  <2>4. \A q \in Procs : pc[q] # "executed"
    BY <1>3, <2>3 DEF Execute, Free, MigrateInv, HoldsTheNext
  <2> QED
    BY <1>0, <1>3, <1>k, <2>1, <2>3, <2>4, MovingKeepsMigrateInv DEF Execute
<1>4. CASE Commit(p)
  BY <1>0, <1>4, CommitKeepsMigrateInv DEF Commit
<1>5. CASE TableExists(p)
  <2>1. "checking" \in Places /\ "exited" \in Places
    BY DEF Places
  <2> QED
    BY <1>0, <1>5, <1>k, <2>1, MovingKeepsMigrateInv DEF TableExists, AfterError
<1>6. CASE CheckVersion(p)
  <2>1. "exited" \in Places
    BY DEF Places
  <2>2. CASE versions = <<>>
    <3>1. Len(versions) = 0 /\ versions' = Append(versions, 0)
      BY <1>6, <2>2 DEF CheckVersion
    <3>2. \A q \in Procs : pc[q] # "executed"
      BY <1>6, <3>1 DEF CheckVersion, MigrateInv, HoldsTheNext
    <3> QED
      BY <1>0, <1>6, <2>1, <2>2, <3>1, <3>2, RecordingKeepsMigrateInv DEF CheckVersion
  <2>3. CASE versions # <<>>
    BY <1>0, <1>6, <1>k, <2>1, <2>3, MovingKeepsMigrateInv DEF CheckVersion
  <2> QED
    BY <2>2, <2>3
<1>7. CASE UseSchema(p)
  <2>1. "ready" \in Places
    BY DEF Places
  <2>2. p \in Services => Len(versions) > Latest
    BY <1>7 DEF UseSchema, MigrateInv, UpToDate
  <2> QED
    BY <1>0, <1>7, <1>k, <2>1, <2>2, MovingKeepsMigrateInv DEF UseSchema
<1>8. CASE StatementFails(p)
  <2>1. PICK place \in {"checking", "exited"} : Goto(p, place)
    BY <1>8 DEF StatementFails, AfterError
  <2>2. place \in Places /\ faults' \in Nat /\ UNCHANGED step
    BY <1>0, <1>8 DEF StatementFails, Places
  <2>3. CASE UNCHANGED <<tables, versions>>
    BY <1>k, <2>1, <2>2, <2>3, MovingKeepsMigrateInv
  <2>4. CASE pc[p] = "executed" /\ Commits(p)
    BY <2>1, <2>2, <2>4, CommitKeepsMigrateInv
  <2> QED
    BY <1>8, <2>3, <2>4 DEF StatementFails
<1>9. CASE Kill(p)
  <2>1. "exited" \in Places /\ faults' \in Nat
    BY <1>0, <1>9 DEF Places, Kill
  <2> QED
    BY <1>9, <1>k, <2>1, MovingKeepsMigrateInv DEF Kill
<1> QED
  BY <1>1, <1>2, <1>3, <1>4, <1>5, <1>6, <1>7, <1>8, <1>9 DEF Progress

(* The inductive invariant of the migrations, from which the others follow. *)
THEOREM MigrationsInvariant == Spec => []MigrateInv
BY MigrateInvInit, MigrateInvNext, PTL DEF Spec

(* The variables have their types, for any processes and migrations.       *)
THEOREM MigrationsTyped == Spec => []MigrateTypeOK
<1>1. MigrateInv => MigrateTypeOK
  BY DEF MigrateInv
<1> QED
  BY <1>1, MigrationsInvariant, PTL

(* Whoever races, fails or is killed, every migration is recorded once, in *)
(* order and with its tables: goose.Up without a session lock is safe.     *)
THEOREM MigrationsOnceInOrder == Spec => []OnceInOrder
<1>1. MigrateInv => OnceInOrder
  BY DEF MigrateInv
<1> QED
  BY <1>1, MigrationsInvariant, PTL

(* A service past EnsureUp has every table, whoever created them.          *)
THEOREM MigrationsComplete == Spec => []UpIsComplete
<1>1. MigrateInv => UpIsComplete
  <2> SUFFICES ASSUME MigrateInv, NEW p \in Services, pc[p] \in {"migrated", "ready"}
               PROVE  1 .. Latest \subseteq tables
    BY DEF UpIsComplete
  <2>1. Len(versions) > Latest /\ tables = 0 .. (Len(versions) - 1)
        /\ Len(versions) \in Nat /\ Latest \in Nat
    BY MigrateAssumption DEF MigrateInv, UpToDate, OnceInOrder, MigrateTypeOK
  <2> QED
    BY <2>1
<1> QED
  BY <1>1, MigrationsInvariant, PTL

-----------------------------------------------------------------------------
(* Nobody works on a migration the directory does not have.                *)
WithinLatest ==
    \A p \in Procs : pc[p] \in {"executing", "executed"} => step[p] <= Latest

LEMMA WithinLatestInit == Init => WithinLatest
BY DEF Init, WithinLatest

LEMMA WithinLatestNext ==
    ASSUME MigrateInv, WithinLatest, [Next]_vars
    PROVE  WithinLatest'
<1>0. pc \in [Procs -> Places] /\ step \in [Procs -> Nat] /\ Latest \in Nat
  BY MigrateAssumption DEF MigrateInv, MigrateTypeOK
<1>1. CASE UNCHANGED vars
  BY <1>1 DEF vars, WithinLatest
<1>2. ASSUME NEW p \in Procs, ReadVersion(p) PROVE WithinLatest'
  <2>1. Goal(p) \in {0, Latest} /\ Pending \in Nat
    BY PendingIsNext DEF Goal, MigrateInv, MigrateTypeOK
  <2>2. Pending <= Goal(p) => Pending <= Latest
    BY <1>0, <2>1
  <2>3. /\ step' = [step EXCEPT ![p] = Pending]
        /\ pc'[p] = "executing" => Pending <= Latest
        /\ pc'[p] # "executed"
        /\ \A q \in Procs : q # p => pc'[q] = pc[q]
    BY <1>0, <1>2, <2>2 DEF ReadVersion, Goto
  <2> QED BY <1>0, <2>3 DEF WithinLatest
<1>3. ASSUME NEW p \in Procs,
             \/ Start(p) \/ Execute(p) \/ Commit(p) \/ TableExists(p)
             \/ CheckVersion(p) \/ UseSchema(p) \/ StatementFails(p) \/ Kill(p)
      PROVE  WithinLatest'
  <2>1. /\ step' = step
        /\ \E place \in Places : Goto(p, place)
        /\ pc'[p] \in {"executing", "executed"} => pc[p] = "executing"
    BY <1>0, <1>3
       DEF Start, Execute, Commit, TableExists, CheckVersion, UseSchema,
           StatementFails, Kill, AfterError, Goto, Places
  <2>2. \A q \in Procs : q # p => pc'[q] = pc[q]
    BY <1>0, <2>1 DEF Goto
  <2> QED BY <2>1, <2>2 DEF WithinLatest
<1> QED BY <1>1, <1>2, <1>3 DEF Next, Progress

(* For any processes and faults, the schema is only changed by the next    *)
(* migration of the directory, as a whole: its tables and its version row. *)
THEOREM MigrationsOnlyAdvance == Spec => SchemaOnlyAdvances
<1>1. MigrateInv /\ WithinLatest /\ [Next]_vars =>
        [/\ Len(versions) <= Latest
         /\ versions' = Append(versions, Len(versions))
         /\ tables' = tables \cup {Len(versions)}]_<<tables, versions>>
  <2> SUFFICES ASSUME MigrateInv, WithinLatest, [Next]_vars,
                      ~UNCHANGED <<tables, versions>>
               PROVE  /\ Len(versions) <= Latest
                      /\ versions' = Append(versions, Len(versions))
                      /\ tables' = tables \cup {Len(versions)}
    OBVIOUS
  <2>1. PICK p \in Procs :
           \/ pc[p] = "executed" /\ Commits(p)
           \/ versions = <<>> /\ tables' = tables \cup {0} /\ versions' = <<0>>
    BY DEF Next, Progress, Start, ReadVersion, Execute, Commit, TableExists,
           CheckVersion, UseSchema, StatementFails, Kill, vars
  <2>2. CASE pc[p] = "executed" /\ Commits(p)
    BY <2>2 DEF MigrateInv, HoldsTheNext, WithinLatest, Commits
  <2>3. CASE versions = <<>> /\ tables' = tables \cup {0} /\ versions' = <<0>>
    BY <2>3, MigrateAssumption
  <2> QED BY <2>1, <2>2, <2>3
<1> QED
  BY <1>1, WithinLatestInit, WithinLatestNext, MigrationsInvariant, PTL
     DEF Spec, SchemaOnlyAdvances
=============================================================================
