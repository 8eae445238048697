-------------------------- MODULE MigrationsProofs --------------------------
(***************************************************************************)
(* Proofs about Migrations for any set of processes and any number of      *)
(* kills, errors and rollbacks.                                            *)
(***************************************************************************)
EXTENDS Migrations, TLAPS

\* A process beyond the first version has seen it recorded, and one about to
\* record a version has applied it.
Progress ==
    \A p \in Procs :
        /\ pc[p] \in {"stopped", "ping", "create", "serve"} => at[p] = First
        /\ at[p] = Last => First \in recorded
        /\ pc[p] = "record" => Applied(at[p])

\* Nobody starts during a rollback, which reverts from the last version down.
RollbackIsAlone ==
    down # "off" =>
        /\ \A p \in Procs : pc[p] = "stopped"
        /\ down \in {"revert", "forget"} => downAt \in recorded
        /\ downAt = First => Last \notin recorded
        /\ down = "forget" /\ downAt = First => schema = "none"

\* After a rollback that dropped the tables and left the record of the first
\* version, no start gets anywhere: it skips that version and cannot apply the next.
DroppedStaysDropped ==
    /\ torn \subseteq recorded
    /\ First \in torn =>
          /\ schema = "none"
          /\ Last \notin recorded
          /\ \A p \in Procs :
                /\ pc[p] \notin {"record", "serve"}
                /\ pc[p] = "apply" => at[p] = Last

IInv ==
    /\ TypeOK
    /\ RecordedIsApplied
    /\ RecordsArePrefix
    /\ ServingHasSchema
    /\ Progress
    /\ RollbackIsAlone
    /\ DroppedStaysDropped

-----------------------------------------------------------------------------

\* Each bound is a number.
LEMMA Bounds == MaxKills \in Nat /\ MaxErrors \in Nat /\ MaxDowns \in Nat
  BY MigrationsAssumption

\* The state the program starts from, an empty database, satisfies the invariant.
LEMMA InitInv == Init => IInv
<1>. SUFFICES ASSUME Init PROVE IInv
  OBVIOUS
<1>. USE DEF Init, First, Last
<1>1. TypeOK
  <2>1. pc \in [Procs -> Steps \cup {"stopped", "serve"}]
    OBVIOUS
  <2>2. at \in [Procs -> Versions] /\ downAt \in Versions
    BY DEF Versions
  <2>3. recorded \subseteq Versions /\ torn \subseteq Versions
    OBVIOUS
  <2>4. kills \in 0 .. MaxKills /\ errors \in 0 .. MaxErrors /\ downs \in 0 .. MaxDowns
    BY Bounds
  <2>5. schema \in Schemas /\ {table, data} \subseteq BOOLEAN
    BY DEF Schemas
  <2>. QED
    BY <2>1, <2>2, <2>3, <2>4, <2>5 DEF TypeOK
<1>2. RecordedIsApplied /\ RecordsArePrefix /\ ServingHasSchema
  BY DEF RecordedIsApplied, RecordsArePrefix, ServingHasSchema
<1>3. Progress /\ RollbackIsAlone /\ DroppedStaysDropped
  BY DEF Progress, RollbackIsAlone, DroppedStaysDropped
<1>. QED
  BY <1>1, <1>2, <1>3 DEF IInv

\* A process whose start ends, by an error or a kill, leaves the database alone.
LEMMA GiveUpStep ==
  ASSUME IInv, NEW p \in Procs, GiveUp(p), UNCHANGED <<database, rollback>>,
         kills' \in 0 .. MaxKills, errors' \in 0 .. MaxErrors
  PROVE  IInv'
  BY DEF GiveUp, Goto, database, rollback, IInv, TypeOK, RecordedIsApplied, Applied,
         RecordsArePrefix, ServingHasSchema, Progress, RollbackIsAlone,
         DroppedStaysDropped, Versions, First, Last, Steps, Schemas

\* A failing statement is one of these ends.
LEMMA FailStep ==
  ASSUME IInv, NEW p \in Procs, StatementFails(p), UNCHANGED <<rollback, kills>>
  PROVE  IInv'
<1>1. errors' \in 0 .. MaxErrors /\ kills' \in 0 .. MaxKills
  BY Bounds DEF StatementFails, Breaks, IInv, TypeOK
<1>. QED
  BY <1>1, GiveUpStep DEF StatementFails

LEMMA StartStep ==
  ASSUME IInv, NEW p \in Procs, Start(p)
  PROVE  IInv'
  BY DEF Start, Goto, database, rollback, IInv, TypeOK, RecordedIsApplied, Applied,
         RecordsArePrefix, ServingHasSchema, Progress, RollbackIsAlone,
         DroppedStaysDropped, Versions, First, Last, Steps, Schemas

LEMMA PingStep ==
  ASSUME IInv, NEW p \in Procs, Ping(p)
  PROVE  IInv'
<1>1. CASE Works /\ Goto(p, "create") /\ UNCHANGED <<database, at>>
  BY <1>1 DEF Ping, Works, Goto, database, rollback, IInv, TypeOK, RecordedIsApplied,
         Applied, RecordsArePrefix, ServingHasSchema, Progress, RollbackIsAlone,
         DroppedStaysDropped, Versions, First, Last, Steps, Schemas
<1>2. CASE StatementFails(p)
  BY <1>2, FailStep DEF Ping
<1>. QED
  BY <1>1, <1>2 DEF Ping

LEMMA CreateTableStep ==
  ASSUME IInv, NEW p \in Procs, CreateTable(p)
  PROVE  IInv'
<1>1. CASE /\ Works /\ Goto(p, "query") /\ table' = TRUE
           /\ UNCHANGED <<schema, recorded, data, at>>
  BY <1>1 DEF CreateTable, Works, Goto, rollback, IInv, TypeOK, RecordedIsApplied,
         Applied, RecordsArePrefix, ServingHasSchema, Progress, RollbackIsAlone,
         DroppedStaysDropped, Versions, First, Last, Steps, Schemas
<1>2. CASE StatementFails(p)
  BY <1>2, FailStep DEF CreateTable
<1>. QED
  BY <1>1, <1>2 DEF CreateTable

\* Skipping a recorded version, or finding one to apply.
LEMMA QueryStep ==
  ASSUME IInv, NEW p \in Procs, Query(p)
  PROVE  IInv'
<1>1. CASE Works /\ at[p] \in recorded /\ at[p] = Last /\ Advance(p) /\ UNCHANGED database
  <2>1. recorded = Versions /\ down = "off" /\ First \notin torn
    BY <1>1 DEF Query, IInv, TypeOK, RecordsArePrefix, RollbackIsAlone,
       DroppedStaysDropped, Versions, First, Last
  <2>2. schema # "none" /\ (schema = "numeric" \/ Last \in torn)
    BY <2>1 DEF IInv, RecordedIsApplied, Applied, Versions, First, Last
  <2>3. pc' = [pc EXCEPT ![p] = "serve"] /\ at' = [at EXCEPT ![p] = First]
    BY <1>1 DEF Advance, Goto
  <2>4. UNCHANGED <<database, rollback, kills, errors>>
    BY <1>1 DEF Query, Works
  <2>5. TypeOK'
    BY <2>3, <2>4 DEF database, rollback, IInv, TypeOK, Versions, First, Last, Steps
  <2>6. (RecordedIsApplied /\ RecordsArePrefix /\ RollbackIsAlone)'
    BY <2>1, <2>4 DEF database, rollback, IInv, RecordedIsApplied, Applied,
       RecordsArePrefix, RollbackIsAlone
  <2>7. (ServingHasSchema /\ Progress /\ DroppedStaysDropped)'
    BY <2>1, <2>2, <2>3, <2>4 DEF database, rollback, IInv, TypeOK, ServingHasSchema,
       Progress, Applied, DroppedStaysDropped, Versions, First, Last
  <2>. QED
    BY <2>5, <2>6, <2>7 DEF IInv
<1>2. CASE Works /\ at[p] \in recorded /\ at[p] # Last /\ Advance(p) /\ UNCHANGED database
  BY <1>2 DEF Query, Works, Advance, Goto, database, rollback,
         IInv, TypeOK, RecordedIsApplied, Applied, RecordsArePrefix, ServingHasSchema,
         Progress, RollbackIsAlone, DroppedStaysDropped, Versions, First, Last, Steps,
         Schemas
<1>3. CASE /\ Works /\ Goto(p, "apply") /\ at[p] \notin recorded
           /\ UNCHANGED <<at, database>>
  BY <1>3 DEF Query, Works, Goto, database, rollback,
         IInv, TypeOK, RecordedIsApplied, Applied, RecordsArePrefix, ServingHasSchema,
         Progress, RollbackIsAlone, DroppedStaysDropped, Versions, First, Last, Steps,
         Schemas
<1>4. CASE StatementFails(p)
  BY <1>4, FailStep DEF Query
<1>. QED
  BY <1>1, <1>2, <1>3, <1>4 DEF Query

\* Applying a version keeps what the recorded ones have made of the schema.
LEMMA ApplyStep ==
  ASSUME IInv, NEW p \in Procs, Apply(p)
  PROVE  IInv'
<1>1. CASE /\ Works /\ Up(at[p]) /\ Goto(p, "record")
           /\ UNCHANGED <<table, recorded, at>>
  <2>1. CASE at[p] = First
    BY <1>1, <2>1 DEF Apply, Up, Works, Goto, rollback,
         IInv, TypeOK, RecordedIsApplied, Applied, RecordsArePrefix, ServingHasSchema,
         Progress, RollbackIsAlone, DroppedStaysDropped, Versions, First, Last, Steps,
         Schemas
  <2>2. CASE at[p] = Last
    BY <1>1, <2>2 DEF Apply, Up, Works, Goto, rollback,
         IInv, TypeOK, RecordedIsApplied, Applied, RecordsArePrefix, ServingHasSchema,
         Progress, RollbackIsAlone, DroppedStaysDropped, Versions, First, Last, Steps,
         Schemas
  <2>. QED
    BY <2>1, <2>2 DEF IInv, TypeOK, Versions, First, Last
<1>2. CASE Works /\ ~UpRuns(at[p]) /\ GiveUp(p) /\ UNCHANGED database
  <2>1. kills' \in 0 .. MaxKills /\ errors' \in 0 .. MaxErrors
    BY <1>2 DEF Apply, Works, IInv, TypeOK
  <2>. QED
    BY <1>2, <2>1, GiveUpStep DEF Apply
<1>3. CASE StatementFails(p)
  BY <1>3, FailStep DEF Apply
<1>. QED
  BY <1>1, <1>2, <1>3 DEF Apply

\* What is recorded has been applied by the process that records it.
LEMMA RecordStep ==
  ASSUME IInv, NEW p \in Procs, Record(p)
  PROVE  IInv'
<1>1. CASE /\ Works /\ recorded' = recorded \cup {at[p]} /\ Advance(p)
           /\ UNCHANGED <<schema, table, data>>
  <2>1. CASE at[p] = First
    BY <1>1, <2>1 DEF Record, Advance, Works, Goto, rollback,
         IInv, TypeOK, RecordedIsApplied, Applied, RecordsArePrefix, ServingHasSchema,
         Progress, RollbackIsAlone, DroppedStaysDropped, Versions, First, Last, Steps,
         Schemas
  <2>2. CASE at[p] = Last
    <3>1. /\ First \in recorded /\ First \notin torn /\ down = "off"
          /\ schema = "numeric" /\ pc[p] = "record"
      BY <1>1, <2>2 DEF Record, IInv, TypeOK, Progress, Applied, RollbackIsAlone,
         DroppedStaysDropped, First, Last
    <3>2. recorded' = Versions
      <4>1. Versions = {First, Last}
        BY DEF Versions, First, Last
      <4>2. recorded \subseteq Versions
        BY DEF IInv, TypeOK
      <4>3. recorded' = recorded \cup {Last}
        BY <1>1, <2>2
      <4>. QED
        BY <3>1, <4>1, <4>2, <4>3
    <3>3. pc' = [pc EXCEPT ![p] = "serve"] /\ at' = [at EXCEPT ![p] = First]
      BY <1>1, <2>2 DEF Advance, Goto
    <3>4. UNCHANGED <<schema, table, data, rollback, kills, errors>>
      BY <1>1 DEF Record, Works
    <3>5. TypeOK'
      BY <3>2, <3>3, <3>4 DEF rollback, IInv, TypeOK, Versions, First, Last, Steps
    <3>6. (RecordedIsApplied /\ RecordsArePrefix /\ RollbackIsAlone)'
      BY <3>1, <3>2, <3>4 DEF rollback, RecordedIsApplied, Applied, RecordsArePrefix,
         RollbackIsAlone, Versions, First, Last
    <3>7. (ServingHasSchema /\ Progress /\ DroppedStaysDropped)'
      BY <3>1, <3>2, <3>3, <3>4 DEF rollback, IInv, TypeOK, ServingHasSchema, Progress,
         Applied, DroppedStaysDropped, Versions, First, Last
    <3>. QED
      BY <3>5, <3>6, <3>7 DEF IInv
  <2>. QED
    BY <2>1, <2>2 DEF IInv, TypeOK, Versions, First, Last
<1>2. CASE StatementFails(p)
  BY <1>2, FailStep DEF Record
<1>. QED
  BY <1>1, <1>2 DEF Record

LEMMA ServeStep ==
  ASSUME IInv, NEW p \in Procs, Serve(p)
  PROVE  IInv'
  BY DEF Serve, rollback,
         IInv, TypeOK, RecordedIsApplied, Applied, RecordsArePrefix, ServingHasSchema,
         Progress, RollbackIsAlone, DroppedStaysDropped, Versions, First, Last, Steps,
         Schemas

LEMMA KillStep ==
  ASSUME IInv, NEW p \in Procs, Kill(p)
  PROVE  IInv'
<1>1. kills' \in 0 .. MaxKills /\ errors' \in 0 .. MaxErrors
  BY Bounds DEF Kill, IInv, TypeOK
<1>. QED
  BY <1>1, GiveUpStep DEF Kill

\* A rollback begins with every process stopped.
LEMMA BeginDownStep ==
  ASSUME IInv, BeginDown
  PROVE  IInv'
<1>1. downs' \in 0 .. MaxDowns
  BY Bounds DEF BeginDown, IInv, TypeOK
<1>. QED
  BY <1>1 DEF BeginDown, database,
         IInv, TypeOK, RecordedIsApplied, Applied, RecordsArePrefix, ServingHasSchema,
         Progress, RollbackIsAlone, DroppedStaysDropped, Versions, First, Last, Steps,
         Schemas

\* A failing statement ends a rollback.
LEMMA DownFailsStep ==
  ASSUME IInv, down \in {"query", "revert"}, DownFails,
         UNCHANGED <<pc, at, torn, downs, kills>>
  PROVE  IInv'
<1>1. errors' \in 0 .. MaxErrors
  BY Bounds DEF DownFails, Breaks, IInv, TypeOK
<1>. QED
  BY <1>1 DEF DownFails, EndDown, database,
         IInv, TypeOK, RecordedIsApplied, Applied, RecordsArePrefix, ServingHasSchema,
         Progress, RollbackIsAlone, DroppedStaysDropped, Versions, First, Last, Steps,
         Schemas

LEMMA DownQueryStep ==
  ASSUME IInv, DownQuery
  PROVE  IInv'
<1>1. CASE Works /\ EndDown /\ UNCHANGED database
  BY <1>1 DEF DownQuery, EndDown, Works, database,
         IInv, TypeOK, RecordedIsApplied, Applied, RecordsArePrefix, ServingHasSchema,
         Progress, RollbackIsAlone, DroppedStaysDropped, Versions, First, Last, Steps,
         Schemas
<1>2. CASE /\ Works /\ downAt \in recorded /\ down' = "revert"
           /\ UNCHANGED <<downAt, database>>
  BY <1>2 DEF DownQuery, Works, database,
         IInv, TypeOK, RecordedIsApplied, Applied, RecordsArePrefix, ServingHasSchema,
         Progress, RollbackIsAlone, DroppedStaysDropped, Versions, First, Last, Steps,
         Schemas
<1>3. CASE Works /\ downAt \notin recorded /\ Retreat /\ UNCHANGED database
  BY <1>3 DEF DownQuery, Retreat, EndDown, Works, database,
         IInv, TypeOK, RecordedIsApplied, Applied, RecordsArePrefix, ServingHasSchema,
         Progress, RollbackIsAlone, DroppedStaysDropped, Versions, First, Last, Steps,
         Schemas
<1>4. CASE DownFails
  BY <1>4, DownFailsStep DEF DownQuery
<1>. QED
  BY <1>1, <1>2, <1>3, <1>4 DEF DownQuery

LEMMA DownRevertStep ==
  ASSUME IInv, DownRevert
  PROVE  IInv'
<1>1. CASE /\ Works /\ Down(downAt) /\ down' = "forget"
           /\ UNCHANGED <<table, recorded, downAt>>
  <2>1. CASE downAt = First
    <3>1. /\ Last \notin recorded /\ downAt \in recorded /\ down = "revert"
          /\ \A p \in Procs : pc[p] = "stopped"
      BY <2>1 DEF DownRevert, IInv, RollbackIsAlone
    <3>2. schema' = "none" /\ data' = FALSE /\ down' = "forget"
      BY <1>1, <2>1 DEF Down, First
    <3>3. UNCHANGED <<table, recorded, pc, at, downAt, torn, kills, errors, downs>>
      BY <1>1 DEF DownRevert, Works
    <3>4. TypeOK'
      BY <3>2, <3>3 DEF IInv, TypeOK, Schemas
    <3>5. (RecordedIsApplied /\ RecordsArePrefix)'
      BY <2>1, <3>1, <3>2, <3>3 DEF IInv, TypeOK, RecordedIsApplied, RecordsArePrefix,
         Versions, First, Last
    <3>6. (ServingHasSchema /\ Progress)'
      BY <3>1, <3>3 DEF IInv, ServingHasSchema, Progress
    <3>7. (RollbackIsAlone /\ DroppedStaysDropped)'
      BY <2>1, <3>1, <3>2, <3>3 DEF IInv, RollbackIsAlone, DroppedStaysDropped
    <3>. QED
      BY <3>4, <3>5, <3>6, <3>7 DEF IInv
  <2>2. CASE downAt = Last
    BY <1>1, <2>2 DEF DownRevert, Down, Works,
         IInv, TypeOK, RecordedIsApplied, Applied, RecordsArePrefix, ServingHasSchema,
         Progress, RollbackIsAlone, DroppedStaysDropped, Versions, First, Last, Steps,
         Schemas
  <2>. QED
    BY <2>1, <2>2 DEF IInv, TypeOK, Versions, First, Last
<1>2. CASE DownFails
  BY <1>2, DownFailsStep DEF DownRevert
<1>. QED
  BY <1>1, <1>2 DEF DownRevert

\* A version whose record is removed, or stays and is marked as torn.
LEMMA DownForgetStep ==
  ASSUME IInv, DownForget
  PROVE  IInv'
<1>1. CASE /\ Works /\ recorded' = recorded \ {downAt} /\ torn' = torn \ {downAt}
           /\ Retreat /\ UNCHANGED <<schema, table, data>>
  <2>1. CASE downAt = First
    BY <1>1, <2>1 DEF DownForget, Retreat, EndDown, Works,
         IInv, TypeOK, RecordedIsApplied, Applied, RecordsArePrefix, ServingHasSchema,
         Progress, RollbackIsAlone, DroppedStaysDropped, Versions, First, Last, Steps,
         Schemas
  <2>2. CASE downAt = Last
    BY <1>1, <2>2 DEF DownForget, Retreat, EndDown, Works,
         IInv, TypeOK, RecordedIsApplied, Applied, RecordsArePrefix, ServingHasSchema,
         Progress, RollbackIsAlone, DroppedStaysDropped, Versions, First, Last, Steps,
         Schemas
  <2>. QED
    BY <2>1, <2>2 DEF IInv, TypeOK, Versions, First, Last
<1>2. CASE DownFails /\ torn' = torn \cup {downAt}
  <2>1. errors' \in 0 .. MaxErrors
    BY <1>2, Bounds DEF DownFails, Breaks, IInv, TypeOK
  <2>. QED
    BY <1>2, <2>1 DEF DownForget, DownFails, EndDown, database,
         IInv, TypeOK, RecordedIsApplied, Applied, RecordsArePrefix, ServingHasSchema,
         Progress, RollbackIsAlone, DroppedStaysDropped, Versions, First, Last, Steps,
         Schemas
<1>. QED
  BY <1>1, <1>2 DEF DownForget

LEMMA KillDownStep ==
  ASSUME IInv, KillDown
  PROVE  IInv'
<1>1. kills' \in 0 .. MaxKills
  BY Bounds DEF KillDown, IInv, TypeOK
<1>2. CASE down = "forget"
  BY <1>1, <1>2 DEF KillDown, EndDown, database,
         IInv, TypeOK, RecordedIsApplied, Applied, RecordsArePrefix, ServingHasSchema,
         Progress, RollbackIsAlone, DroppedStaysDropped, Versions, First, Last, Steps,
         Schemas
<1>3. CASE down # "forget"
  BY <1>1, <1>3 DEF KillDown, EndDown, database,
         IInv, TypeOK, RecordedIsApplied, Applied, RecordsArePrefix, ServingHasSchema,
         Progress, RollbackIsAlone, DroppedStaysDropped, Versions, First, Last, Steps,
         Schemas
<1>. QED
  BY <1>2, <1>3

\* Every step of every process and of the rollback keeps the invariant.
LEMMA NextInv == IInv /\ [Next]_vars => IInv'
<1>. SUFFICES ASSUME IInv, [Next]_vars PROVE IInv'
  OBVIOUS
<1>1. ASSUME NEW p \in Procs, Open(p) PROVE IInv'
  BY <1>1, StartStep, PingStep, CreateTableStep, QueryStep, ApplyStep, RecordStep DEF Open
<1>2. ASSUME NEW p \in Procs, Serve(p) \/ Kill(p) PROVE IInv'
  BY <1>2, ServeStep, KillStep
<1>3. CASE BeginDown \/ Revert \/ KillDown
  BY <1>3, BeginDownStep, DownQueryStep, DownRevertStep, DownForgetStep, KillDownStep
  DEF Revert
<1>4. CASE UNCHANGED vars
  BY <1>4 DEF vars, database, rollback,
         IInv, TypeOK, RecordedIsApplied, Applied, RecordsArePrefix, ServingHasSchema,
         Progress, RollbackIsAlone, DroppedStaysDropped, Versions, First, Last, Steps,
         Schemas
<1>. QED
  BY <1>1, <1>2, <1>3, <1>4 DEF Next

\* The invariant holds in every state that kills, errors and rollbacks lead to.
LEMMA Invariance == Spec => []IInv
  BY InitInv, NextInv, PTL DEF Spec

-----------------------------------------------------------------------------

\* The model's variables keep their types.
THEOREM TypeCorrect == Spec => []TypeOK
<1>1. IInv => TypeOK
  BY DEF IInv
<1>. QED
  BY <1>1, Invariance, PTL

\* However many processes race to migrate, and wherever they are killed, a version
\* that Runner.Up finds recorded is one that was applied.
THEOREM RecordedApplied == Spec => []RecordedIsApplied
<1>1. IInv => RecordedIsApplied
  BY DEF IInv
<1>. QED
  BY <1>1, Invariance, PTL

\* Runner.Up and Runner.Down keep the recorded versions without gaps.
THEOREM NoGaps == Spec => []RecordsArePrefix
<1>1. IInv => RecordsArePrefix
  BY DEF IInv
<1>. QED
  BY <1>1, Invariance, PTL

\* A process that Open let serve has its tables and all records, whatever the others
\* do meanwhile.
THEOREM ServersHaveSchema == Spec => []ServingHasSchema
<1>1. IInv => ServingHasSchema
  BY DEF IInv
<1>. QED
  BY <1>1, Invariance, PTL

\* Applying a migration again, as a start after a kill does, never empties the
\* tables; only Runner.Down at the first version does.
THEOREM StartsKeep == Spec => StartsKeepData
<1>1. ASSUME IInv, [Next]_vars, data, ~data'
      PROVE  down = "revert" /\ downAt = First
  <2>1. ASSUME NEW p \in Procs, Open(p) PROVE FALSE
    BY <1>1, <2>1 DEF Open, Start, Ping, CreateTable, Query, Apply, Record,
       StatementFails, Up, database
  <2>2. ASSUME NEW p \in Procs, Serve(p) \/ Kill(p) PROVE FALSE
    BY <1>1, <2>2 DEF Serve, Kill, database
  <2>3. ASSUME BeginDown \/ DownQuery \/ DownForget \/ KillDown PROVE FALSE
    BY <1>1, <2>3 DEF BeginDown, DownQuery, DownForget, KillDown, DownFails, database
  <2>4. CASE DownRevert
    BY <1>1, <2>4 DEF DownRevert, Down, DownFails, database, First
  <2>5. CASE UNCHANGED vars
    BY <1>1, <2>5 DEF vars, database
  <2>. QED
    BY <1>1, <2>1, <2>2, <2>3, <2>4, <2>5 DEF Next, Revert
<1>2. IInv /\ [Next]_vars => [data /\ ~data' => down = "revert" /\ downAt = First]_vars
  BY <1>1
<1>. QED
  BY <1>2, Invariance, PTL DEF Spec, StartsKeepData

=============================================================================
