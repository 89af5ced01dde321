---------------------------- MODULE StartupProofs ----------------------------
(***************************************************************************)
(* What an update promises that overlaps no other, RecordsAreUnique,       *)
(* SuccessIsExact and RunningKeepsRecords, and what a start promises that  *)
(* waits for one, ServersAreFound: for all nodes, any number of failed     *)
(* calls and dead processes, and any number of updates.                    *)
(***************************************************************************)
EXTENDS Startup, TLAPS

-----------------------------------------------------------------------------
(* ClusterManager: an update that overlaps no other                        *)

Records == [kind : Kinds, ip : Nodes, id : Updaters \X Nat]

ManagerTypeOK ==
    /\ life \in [Nodes -> {"new", "running", "gone"}]
    /\ records \subseteq Records
    /\ pc \in [Updaters -> Underway \cup {"idle", "failed", "updated"}]
    /\ view \in [Updaters -> SUBSET Nodes]
    /\ dels \in [Updaters -> SUBSET Records]
    /\ adds \in [Updaters -> SUBSET (Kinds \X Nodes)]
    /\ attempts \in [Updaters -> Nat]
    /\ mixed \subseteq Updaters

\* m's update is under way and has overlapped no other.
Solo(m) == pc[m] \in Underway /\ m \notin mixed

SoloIsAlone == \A m, u \in Updaters : Solo(m) /\ pc[u] \in Underway => u = m

\* What an update has still to do follows from the nodes it has seen.
PlansFit ==
    \A m \in Updaters :
        /\ pc[m] # "apply" => dels[m] = {} /\ adds[m] = {}
        /\ \A a \in adds[m] : a[2] \in view[m]
        /\ \A r \in dels[m] : r.ip \notin view[m]

\* Nobody knows of an instance before it runs.
NewIsUnknown ==
    \A n \in Nodes : life[n] = "new" =>
        /\ \A r \in records : r.ip # n
        /\ \A m \in Updaters : n \notin view[m]

\* The nodes that run and have a record have been seen.
SoloSees ==
    \A m \in Updaters : Solo(m) /\ pc[m] # "nodes" =>
        \A r \in records : life[r.ip] = "running" => r.ip \in view[m]

SoloPublished ==
    \A m \in Updaters : Solo(m) /\ pc[m] \in {"list", "apply"} => nodeList = view[m]

\* The records are those of the nodes seen, but for what is still to be done.
SoloExact ==
    \A m \in Updaters : Solo(m) /\ pc[m] = "apply" =>
        /\ \A r \in records : r \in dels[m] \/ r.ip \in view[m]
        /\ \A k \in Kinds : \A i \in view[m] : i \in Ips(k) <=> <<k, i>> \notin adds[m]

ManagerIInv ==
    /\ ManagerTypeOK /\ SoloIsAlone /\ PlansFit /\ NewIsUnknown
    /\ SoloSees /\ SoloPublished /\ SoloExact

\* No instance runs and no record is there.
LEMMA ManagerInitial == Init => ManagerIInv
BY DEF Init, ManagerIInv, ManagerTypeOK, SoloIsAlone, PlansFit, NewIsUnknown,
       SoloSees, SoloPublished, SoloExact, Solo, Underway

\* Ending some updates keeps what holds of the others.
LEMMA EndKeeps ==
    ASSUME ManagerIInv, NEW ms \in SUBSET Updaters, NEW to \in {"idle", "failed", "updated"},
           EndAll(ms, to), life' \in [Nodes -> {"new", "running", "gone"}],
           \A n \in Nodes : /\ life'[n] = "new" => life[n] = "new"
                            /\ life'[n] = "running" => life[n] = "running",
           UNCHANGED <<nodeList, records, attempts, mixed>>
    PROVE  ManagerIInv'
<1> USE DEF ManagerIInv
<1>1. \A m \in Updaters :
         /\ m \in ms => pc'[m] = to /\ view'[m] = {} /\ dels'[m] = {} /\ adds'[m] = {}
         /\ m \notin ms => /\ pc'[m] = pc[m] /\ view'[m] = view[m]
                           /\ dels'[m] = dels[m] /\ adds'[m] = adds[m]
    BY DEF EndAll
<1>2. ManagerTypeOK'
    BY DEF EndAll, ManagerTypeOK
<1>3. \A m \in Updaters : Solo(m)' => m \notin ms /\ Solo(m)
    BY <1>1 DEF Solo, Underway
<1>4. \A m \in Updaters : pc'[m] \in Underway => pc[m] \in Underway
    BY <1>1 DEF Underway
<1>5. SoloIsAlone'
    BY <1>3, <1>4 DEF SoloIsAlone
<1>6. PlansFit'
    BY <1>1 DEF PlansFit
<1>7. NewIsUnknown'
    BY <1>1 DEF NewIsUnknown
<1>8. SoloSees'
    BY <1>1, <1>3 DEF SoloSees, ManagerTypeOK, Records
<1>9. SoloPublished'
    BY <1>1, <1>3 DEF SoloPublished
<1>10. SoloExact'
    BY <1>1, <1>3 DEF SoloExact, Ips
<1> QED
    BY <1>2, <1>5, <1>6, <1>7, <1>8, <1>9, <1>10

\* An instance that starts is not in any record or list yet.
LEMMA StartKeeps ==
    ASSUME ManagerIInv, NEW n \in Nodes, StartNode(n)
    PROVE  ManagerIInv'
<1> USE DEF ManagerIInv
<1>1. /\ UNCHANGED <<nodeList, records, pc, view, dels, adds, attempts, mixed>>
      /\ life[n] = "new" /\ life' = [life EXCEPT ![n] = "running"]
    BY DEF StartNode
<1>2. /\ life'[n] = "running" /\ \A i \in Nodes \ {n} : life'[i] = life[i]
      /\ life' \in [Nodes -> {"new", "running", "gone"}]
    BY <1>1 DEF ManagerTypeOK
<1>3. ManagerTypeOK'
    BY <1>1, <1>2 DEF ManagerTypeOK
<1>4. SoloIsAlone' /\ PlansFit' /\ SoloPublished' /\ SoloExact'
    BY <1>1 DEF SoloIsAlone, PlansFit, SoloPublished, SoloExact, Solo, Ips
<1>5. NewIsUnknown'
    BY <1>1, <1>2 DEF NewIsUnknown
<1>6. SoloSees'
    BY <1>1, <1>2 DEF SoloSees, Solo, NewIsUnknown, ManagerTypeOK, Records
<1> QED
    BY <1>3, <1>4, <1>5, <1>6

\* An update that begins is alone, or it and all that are under way are mixed.
LEMMA BeginKeeps ==
    ASSUME ManagerIInv, NEW m \in Updaters, BeginUpdate(m)
    PROVE  ManagerIInv'
<1> USE DEF ManagerIInv
<1>1. /\ UNCHANGED <<life, nodeList, records, view, dels, adds>>
      /\ pc' = [pc EXCEPT ![m] = "nodes"] /\ attempts' = [attempts EXCEPT ![m] = @ + 1]
      /\ mixed' = IF Overlapped = {} THEN mixed \ {m} ELSE mixed \cup Overlapped \cup {m}
    BY DEF BeginUpdate, Goto
<1>2. pc'[m] = "nodes" /\ \A u \in Updaters \ {m} : pc'[u] = pc[u]
    BY <1>1 DEF ManagerTypeOK
<1>3. pc[m] # "apply"
    BY DEF BeginUpdate, Underway, ManagerTypeOK
<1>4. ManagerTypeOK'
    BY <1>1 DEF ManagerTypeOK, Overlapped, Underway
<1>5. \A u \in Updaters : Solo(u)' => u = m /\ Overlapped = {}
    BY <1>1, <1>2 DEF Solo, Overlapped
<1>6. SoloIsAlone'
    BY <1>2, <1>5 DEF SoloIsAlone, Overlapped
<1>7. PlansFit' /\ NewIsUnknown'
    BY <1>1, <1>2, <1>3 DEF PlansFit, NewIsUnknown
<1>8. SoloSees' /\ SoloPublished' /\ SoloExact'
    BY <1>2, <1>5 DEF SoloSees, SoloPublished, SoloExact
<1> QED
    BY <1>4, <1>6, <1>7, <1>8

\* main and get_nodes between them swap role and stage back.
LEMMA NodesAreTheRunning == NodesOf(MainsManager) = Running
BY DEF NodesOf, MainsManager, NewManager, LoadNodesFromEc2, Running

\* The three steps before the records are changed.
LEMMA ReadsKeep ==
    ASSUME ManagerIInv, NEW m \in Updaters,
           GetNodes(m) \/ UploadClusterJson(m) \/ ListRecords(m)
    PROVE  ManagerIInv'
<1> USE DEF ManagerIInv
<1>1. /\ UNCHANGED <<life, records, attempts, mixed>>
      /\ pc[m] \in Underway /\ pc[m] # "apply" /\ pc'[m] \in Underway /\ pc'[m] # "nodes"
      /\ \A u \in Updaters \ {m} : /\ pc'[u] = pc[u] /\ view'[u] = view[u]
                                   /\ dels'[u] = dels[u] /\ adds'[u] = adds[u]
    BY DEF GetNodes, UploadClusterJson, ListRecords, Goto, Underway, ManagerTypeOK
<1>2. \A u \in Updaters : Solo(u)' => Solo(u)
    BY <1>1 DEF Solo
<1>3. \A u \in Updaters : Solo(u) => u = m
    BY <1>1 DEF SoloIsAlone
<1>4. SoloIsAlone'
    BY <1>1, <1>2 DEF SoloIsAlone
<1>5. CASE GetNodes(m)
    <2>1. /\ view' = [view EXCEPT ![m] = Running] /\ pc'[m] = "upload"
          /\ UNCHANGED <<nodeList, dels, adds>> /\ view'[m] = Running
        BY <1>5, NodesAreTheRunning DEF GetNodes, Goto, ManagerTypeOK
    <2>2. ManagerTypeOK'
        BY <1>1, <1>5, <2>1 DEF GetNodes, Goto, ManagerTypeOK, Running, Underway
    <2>3. PlansFit' /\ NewIsUnknown'
        BY <1>1, <2>1 DEF PlansFit, NewIsUnknown, Running
    <2>4. SoloSees' /\ SoloPublished' /\ SoloExact'
        BY <1>1, <1>2, <1>3, <2>1
        DEF SoloSees, SoloPublished, SoloExact, Running, ManagerTypeOK, Records
    <2> QED
        BY <1>4, <2>2, <2>3, <2>4
<1>6. CASE UploadClusterJson(m)
    <2>1. /\ UNCHANGED <<view, dels, adds>> /\ pc[m] = "upload" /\ pc'[m] = "list"
          /\ nodeList' = view[m]
        BY <1>6 DEF UploadClusterJson, Goto, ManagerTypeOK
    <2>2. ManagerTypeOK'
        BY <1>1, <1>6, <2>1 DEF UploadClusterJson, Goto, ManagerTypeOK, Underway
    <2>3. PlansFit' /\ NewIsUnknown'
        BY <1>1, <2>1 DEF PlansFit, NewIsUnknown
    <2>4. SoloSees' /\ SoloPublished' /\ SoloExact'
        BY <1>1, <1>2, <1>3, <2>1 DEF SoloSees, SoloPublished, SoloExact
    <2> QED
        BY <1>4, <2>2, <2>3, <2>4
<1>7. CASE ListRecords(m)
    <2>1. /\ UNCHANGED <<nodeList, view>> /\ pc[m] = "list" /\ pc'[m] = "apply"
          /\ dels' = [dels EXCEPT ![m] = ToDelete(view[m])]
          /\ adds' = [adds EXCEPT ![m] = ToAdd(view[m])]
          /\ dels'[m] = ToDelete(view[m]) /\ adds'[m] = ToAdd(view[m])
        BY <1>7 DEF ListRecords, Goto, ManagerTypeOK
    <2>2. /\ ToDelete(view[m]) \subseteq records /\ view[m] \in SUBSET Nodes
          /\ ToAdd(view[m]) \subseteq Kinds \X Nodes
          /\ \A k \in Kinds, i \in view[m] : <<k, i>> \in ToAdd(view[m]) <=> i \notin Ips(k)
          /\ \A a \in ToAdd(view[m]) : a[2] \in view[m]
          /\ \A r \in records : r \in ToDelete(view[m]) <=> r.ip \notin view[m]
        BY DEF ToDelete, ToAdd, ManagerTypeOK
    <2>3. ManagerTypeOK'
        BY <1>1, <1>7, <2>1, <2>2 DEF ListRecords, Goto, ManagerTypeOK, Underway
    <2>4. PlansFit' /\ NewIsUnknown'
        BY <1>1, <2>1, <2>2 DEF PlansFit, NewIsUnknown
    <2>5. SoloSees' /\ SoloPublished'
        BY <1>1, <1>2, <1>3, <2>1 DEF SoloSees, SoloPublished
    <2>6. \A k \in Kinds : Ips(k)' = Ips(k)
        BY <1>1 DEF Ips
    <2>7. SoloExact'
        BY <1>1, <1>2, <1>3, <2>1, <2>2, <2>6 DEF SoloExact
    <2> QED
        BY <1>4, <2>3, <2>4, <2>5, <2>7
<1> QED
    BY <1>5, <1>6, <1>7

\* A record that is gone ends the update; another is taken out of the zone.
LEMMA DeleteKeeps ==
    ASSUME ManagerIInv, NEW m \in Updaters, NEW r \in dels[m], DeleteRecord(m, r)
    PROVE  ManagerIInv'
<1>1. CASE r \notin records
    <2>1. records' = records /\ EndAll({m}, "failed") /\ UNCHANGED <<life, nodeList, attempts, mixed>>
        BY <1>1 DEF DeleteRecord, Ended
    <2>2. life' \in [Nodes -> {"new", "running", "gone"}]
        BY <2>1 DEF ManagerIInv, ManagerTypeOK
    <2> QED
        BY <2>1, <2>2, EndKeeps
<1>2. CASE r \in records
    <2> USE DEF ManagerIInv
    <2>1. /\ records' = records \ {r} /\ dels' = [dels EXCEPT ![m] = @ \ {r}]
          /\ UNCHANGED <<life, nodeList, pc, view, adds, attempts, mixed>>
          /\ pc[m] = "apply"
        BY <1>2 DEF DeleteRecord
    <2>2. /\ dels'[m] = dels[m] \ {r}
          /\ \A u \in Updaters \ {m} : dels'[u] = dels[u]
        BY <2>1 DEF ManagerTypeOK
    <2>3. ManagerTypeOK'
        BY <2>1 DEF ManagerTypeOK
    <2>4. SoloIsAlone' /\ PlansFit' /\ NewIsUnknown' /\ SoloSees' /\ SoloPublished'
        BY <2>1, <2>2 DEF SoloIsAlone, PlansFit, NewIsUnknown, SoloSees, SoloPublished, Solo
    <2>5. \A u \in Updaters : Solo(u) => u = m
        BY <2>1 DEF SoloIsAlone, Underway
    <2>6. r.ip \notin view[m] /\ \A k \in Kinds : \A i \in view[m] : i \in Ips(k)' <=> i \in Ips(k)
        BY <2>1 DEF PlansFit, Ips
    <2>7. SoloExact'
        BY <2>1, <2>2, <2>5, <2>6 DEF SoloExact, Solo
    <2> QED
        BY <2>3, <2>4, <2>7
<1> QED
    BY <1>1, <1>2

\* A node that has been seen gets the record it still needs.
LEMMA AddKeeps ==
    ASSUME ManagerIInv, NEW m \in Updaters, NEW a \in adds[m], AddRecord(m, a[1], a[2])
    PROVE  ManagerIInv'
<1> USE DEF ManagerIInv
<1> DEFINE q == [kind |-> a[1], ip |-> a[2], id |-> <<m, attempts[m]>>]
<1>1. /\ records' = records \cup {q} /\ adds' = [adds EXCEPT ![m] = @ \ {<<a[1], a[2]>>}]
      /\ UNCHANGED <<life, nodeList, pc, view, dels, attempts, mixed>> /\ pc[m] = "apply"
    BY DEF AddRecord
<1>2. /\ a[1] \in Kinds /\ a[2] \in Nodes /\ a[2] \in view[m] /\ <<a[1], a[2]>> = a
      /\ q \in Records
    BY DEF ManagerTypeOK, PlansFit, Records
<1>3. q.kind = a[1] /\ q.ip = a[2]
    OBVIOUS
<1> HIDE DEF q
<1>4. adds'[m] = adds[m] \ {a} /\ \A u \in Updaters \ {m} : adds'[u] = adds[u]
    BY <1>1, <1>2 DEF ManagerTypeOK
<1>5. ManagerTypeOK'
    BY <1>1, <1>2 DEF ManagerTypeOK
<1>6. life[a[2]] # "new"
    BY <1>2 DEF NewIsUnknown
<1>7. SoloIsAlone' /\ PlansFit' /\ NewIsUnknown' /\ SoloPublished'
    BY <1>1, <1>2, <1>3, <1>4, <1>6 DEF SoloIsAlone, PlansFit, NewIsUnknown, SoloPublished, Solo
<1>8. \A u \in Updaters : Solo(u) => u = m
    BY <1>1 DEF SoloIsAlone, Underway
<1>9. SoloSees'
    BY <1>1, <1>2, <1>3, <1>8 DEF SoloSees, Solo
<1>10. \A k \in Kinds : Ips(k)' = IF k = a[1] THEN Ips(k) \cup {a[2]} ELSE Ips(k)
    BY <1>1, <1>3 DEF Ips
<1>11. \A k \in Kinds, i \in Nodes : <<k, i>> = a <=> k = a[1] /\ i = a[2]
    BY <1>2
<1>12. SoloExact'
    <2> SUFFICES ASSUME Solo(m), Solo(m)'
                 PROVE  /\ \A r \in records' : r \in dels'[m] \/ r.ip \in view'[m]
                        /\ \A k \in Kinds : \A i \in view'[m] :
                              i \in Ips(k)' <=> <<k, i>> \notin adds'[m]
        BY <1>1, <1>8 DEF SoloExact, Solo
    <2>1. view[m] \subseteq Nodes
        BY DEF ManagerTypeOK
    <2> QED
        BY <1>1, <1>2, <1>3, <1>4, <1>10, <1>11, <2>1 DEF SoloExact
<1> QED
    BY <1>5, <1>7, <1>9, <1>12

\* Every step keeps the invariant.
LEMMA ManagerStep == ManagerIInv /\ [Next]_vars => ManagerIInv'
<1> SUFFICES ASSUME ManagerIInv, [Next]_vars PROVE ManagerIInv'
    OBVIOUS
<1>1. CASE UNCHANGED vars
    BY <1>1 DEF vars, ManagerIInv, ManagerTypeOK, SoloIsAlone, PlansFit, NewIsUnknown,
                SoloSees, SoloPublished, SoloExact, Solo, Ips
<1>2. ASSUME NEW n \in Nodes, NEW lost \in {{}, {Request}},
             StopNode(n, lost) \/ KillProcess(n, lost)
      PROVE  ManagerIInv'
    <2>1. /\ EndAll({n} \cup lost, "idle") /\ {n} \cup lost \in SUBSET Updaters
          /\ UNCHANGED <<nodeList, records, attempts, mixed>>
        BY <1>2 DEF StopNode, KillProcess, Updaters
    <2>2. life' = life \/ life' = [life EXCEPT ![n] = "gone"]
        BY <1>2 DEF StopNode, KillProcess
    <2>3. /\ life' \in [Nodes -> {"new", "running", "gone"}]
          /\ \A i \in Nodes : /\ life'[i] = "new" => life[i] = "new"
                              /\ life'[i] = "running" => life[i] = "running"
        BY <2>2 DEF ManagerIInv, ManagerTypeOK
    <2> QED
        BY <2>1, <2>3, EndKeeps
<1>3. ASSUME NEW m \in Updaters, FinishUpdate(m) \/ FailUpdate(m) PROVE ManagerIInv'
    <2>1. /\ EndAll({m}, "updated") \/ EndAll({m}, "failed")
          /\ UNCHANGED <<life, nodeList, records, attempts, mixed>>
        BY <1>3 DEF FinishUpdate, FailUpdate, Ended
    <2>2. life' \in [Nodes -> {"new", "running", "gone"}]
        BY <2>1 DEF ManagerIInv, ManagerTypeOK
    <2> QED
        BY <2>1, <2>2, EndKeeps
<1>4. ASSUME NEW m \in Updaters, BeginUpdate(m) \/ UpdateStep(m) PROVE ManagerIInv'
    BY <1>3, <1>4, BeginKeeps, ReadsKeep, DeleteKeeps, AddKeeps DEF UpdateStep
<1> QED
    BY <1>1, <1>2, <1>3, <1>4, StartKeeps DEF Next

\* A step that changes a record is an AddRecord or a DeleteRecord.
LEMMA RecordSteps ==
    ASSUME [Next]_vars, records' # records
    PROVE  \E m \in Updaters :
              \/ \E a \in adds[m] : AddRecord(m, a[1], a[2])
              \/ \E r \in dels[m] : DeleteRecord(m, r)
BY DEF Next, vars, StartNode, StopNode, KillProcess, BeginUpdate, UpdateStep, FailUpdate,
       FinishUpdate, GetNodes, UploadClusterJson, ListRecords

\* Only an update that overlapped another gives a host a node twice.
THEOREM NoRecordTwice == Spec => RecordsAreUnique
<1> DEFINE Unique ==
        \A q \in records' \ records : \A r \in records :
           q.kind = r.kind /\ q.ip = r.ip => q.id[1] \in mixed
<1>1. ASSUME ManagerIInv, [Next]_vars PROVE [Unique]_vars
    <2>1. CASE records' \subseteq records
        BY <2>1
    <2>2. ASSUME NEW m \in Updaters, NEW a \in adds[m], AddRecord(m, a[1], a[2])
          PROVE  Unique
        <3> DEFINE q == [kind |-> a[1], ip |-> a[2], id |-> <<m, attempts[m]>>]
        <3>1. records' = records \cup {q} /\ q.kind = a[1] /\ q.ip = a[2] /\ q.id[1] = m
            BY <2>2 DEF AddRecord
        <3>2. /\ a[1] \in Kinds /\ a[2] \in view[m] /\ <<a[1], a[2]>> \in adds[m]
            BY <1>1, <2>2 DEF ManagerIInv, ManagerTypeOK, PlansFit
        <3>3. m \notin mixed => a[2] \notin Ips(a[1])
            BY <1>1, <2>2, <3>2 DEF ManagerIInv, SoloExact, Solo, AddRecord, Underway
        <3> HIDE DEF q
        <3>4. \A r \in records : r.kind = a[1] /\ r.ip = a[2] => a[2] \in Ips(a[1])
            BY DEF Ips
        <3> QED
            BY <3>1, <3>3, <3>4
    <2>3. ASSUME NEW m \in Updaters, NEW r \in dels[m], DeleteRecord(m, r)
          PROVE  records' \subseteq records
        BY <2>3 DEF DeleteRecord
    <2> QED
        BY <1>1, <2>1, <2>2, <2>3, RecordSteps
<1> QED
    BY <1>1, ManagerInitial, ManagerStep, PTL DEF Spec, RecordsAreUnique

\* An update that overlaps no other takes no running node out of the zone,
\* although nodes start and stop while it runs.
THEOREM RunningKeepTheirRecords == Spec => RunningKeepsRecords
<1> DEFINE Kept ==
        \A n \in Running \cap Running' : \A k \in Kinds :
           n \in Ips(k) \ Ips(k)' => \E m \in mixed : dels'[m] # dels[m]
<1>1. ASSUME ManagerIInv, [Next]_vars PROVE [Kept]_vars
    <2>1. CASE records \subseteq records'
        BY <2>1 DEF Ips
    <2>2. ASSUME NEW m \in Updaters, NEW a \in adds[m], AddRecord(m, a[1], a[2])
          PROVE  records \subseteq records'
        BY <2>2 DEF AddRecord
    <2>3. ASSUME NEW m \in Updaters, NEW r \in dels[m], DeleteRecord(m, r), r \in records
          PROVE  Kept
        <3>1. /\ dels' = [dels EXCEPT ![m] = @ \ {r}] /\ records' = records \ {r}
              /\ UNCHANGED life /\ pc[m] = "apply"
            BY <2>3 DEF DeleteRecord
        <3>2. dels'[m] # dels[m]
            BY <1>1, <3>1 DEF ManagerIInv, ManagerTypeOK
        <3>3. r.ip \notin view[m]
            BY <1>1 DEF ManagerIInv, PlansFit
        <3>4. m \notin mixed => life[r.ip] # "running"
            BY <1>1, <2>3, <3>1, <3>3 DEF ManagerIInv, SoloSees, Solo, Underway
        <3>5. \A n \in Nodes, k \in Kinds : n \in Ips(k) \ Ips(k)' => n = r.ip
            BY <3>1 DEF Ips
        <3> QED
            BY <3>2, <3>4, <3>5 DEF Running
    <2>4. ASSUME NEW m \in Updaters, NEW r \in dels[m], DeleteRecord(m, r), r \notin records
          PROVE  records \subseteq records'
        BY <2>4 DEF DeleteRecord
    <2> QED
        BY <1>1, <2>1, <2>2, <2>3, <2>4, RecordSteps
<1> QED
    BY <1>1, ManagerInitial, ManagerStep, PTL DEF Spec, RunningKeepsRecords

\* An update that overlaps no other and succeeds leaves the list and the zone
\* as the nodes it saw require.
THEOREM SuccessLeavesWhatWasSeen == Spec => SuccessIsExact
<1> DEFINE Exact ==
        \A m \in Updaters \ mixed :
           pc[m] = "apply" /\ pc'[m] = "updated" =>
              /\ nodeList = view[m]
              /\ \A k \in Kinds : Ips(k) = view[m]
<1>1. ASSUME ManagerIInv, [Next]_vars PROVE [Exact]_vars
    <2> SUFFICES ASSUME NEW m \in Updaters \ mixed, pc[m] = "apply", pc'[m] = "updated"
                 PROVE  nodeList = view[m] /\ \A k \in Kinds : Ips(k) = view[m]
        OBVIOUS
    <2>1. dels[m] = {} /\ adds[m] = {}
        <3>1. \A u \in Updaters : FinishUpdate(u) => u = m
            BY DEF FinishUpdate, Ended, EndAll
        <3>2. \A u \in Updaters : ~ FinishUpdate(u) /\ (BeginUpdate(u) \/ UpdateStep(u) \/ FailUpdate(u))
                                    => pc'[m] # "updated"
            BY <1>1, ZenonT(40) DEF BeginUpdate, UpdateStep, FailUpdate, GetNodes,
                   UploadClusterJson, ListRecords, DeleteRecord, AddRecord, Ended,
                   EndAll, Goto, ManagerIInv, ManagerTypeOK
        <3>3. \A n \in Nodes, lost \in {{}, {Request}} :
                 StartNode(n) \/ StopNode(n, lost) \/ KillProcess(n, lost) => pc'[m] # "updated"
            BY DEF StartNode, StopNode, KillProcess, EndAll
        <3> QED
            BY <1>1, <3>1, <3>2, <3>3 DEF Next, vars, FinishUpdate
    <2>2. /\ nodeList = view[m]
          /\ \A r \in records : r.ip \in view[m]
          /\ \A k \in Kinds : \A i \in view[m] : i \in Ips(k)
        BY <1>1, <2>1 DEF ManagerIInv, SoloPublished, SoloExact, Solo, Underway
    <2> QED
        BY <2>2 DEF Ips
<1> QED
    BY <1>1, ManagerInitial, ManagerStep, PTL DEF Spec, SuccessIsExact

-----------------------------------------------------------------------------
(* ClusterManager: the nodes that have updated                             *)

\* A process that updates or has updated belongs to a running instance.
BusyRuns ==
    \A n \in Nodes : pc[n] \in Underway \cup {"updated"} => life[n] = "running"

\* While healed, what is under way has overlapped nothing.
HealedIsSolo == healed => \A m \in Updaters : pc[m] \in Underway => m \notin mixed

\* An update that overlaps no other has seen its own node and all that have
\* updated before.
SoloSeesUpdated ==
    \A m \in Updaters : Solo(m) /\ pc[m] # "nodes" =>
        \A n \in Nodes : pc[n] = "updated" \/ n = m => n \in view[m]

\* While healed, the nodes that have updated are in the list and the zone.
UpdatedAreFound ==
    healed => \A n \in Nodes : pc[n] = "updated" => IsFound(n)

\* The invariant of the nodes that have updated, next to ManagerIInv
FoundInv ==
    /\ healed \in BOOLEAN
    /\ BusyRuns /\ HealedIsSolo /\ SoloSeesUpdated /\ UpdatedAreFound

\* Nobody has updated.
LEMMA FoundInitial == Init => FoundInv
BY DEF Init, FoundInv, BusyRuns, HealedIsSolo, SoloSeesUpdated, UpdatedAreFound, Solo,
       Underway, Updaters

\* What has ended promises nothing.
LEMMA EndKeepsFound ==
    ASSUME ManagerIInv, FoundInv, NEW ms \in SUBSET Updaters,
           NEW to \in {"idle", "failed"}, EndAll(ms, to),
           \A n \in Nodes \ ms : life'[n] = life[n],
           UNCHANGED <<nodeList, records, mixed, healed>>
    PROVE  FoundInv'
<1> USE DEF FoundInv
<1>1. /\ \A m \in Updaters : IF m \in ms THEN pc'[m] = to
                             ELSE pc'[m] = pc[m] /\ view'[m] = view[m]
      /\ Nodes \subseteq Updaters
    BY DEF EndAll, Updaters
<1>2. \A m \in Updaters : Solo(m)' => m \notin ms /\ Solo(m)
    BY <1>1 DEF Solo, Underway
<1>3. BusyRuns' /\ HealedIsSolo'
    BY <1>1 DEF BusyRuns, HealedIsSolo, Underway
<1>4. SoloSeesUpdated'
    BY <1>1, <1>2 DEF SoloSeesUpdated
<1>5. \A n \in Nodes : IsFound(n)' <=> IsFound(n)
    BY DEF IsFound, Ips
<1>6. UpdatedAreFound'
    BY <1>1, <1>5 DEF UpdatedAreFound
<1> QED
    BY <1>3, <1>4, <1>6

\* An update that begins beside another one is no longer healed.
LEMMA BeginKeepsFound ==
    ASSUME ManagerIInv, FoundInv, NEW m \in Updaters, BeginUpdate(m)
    PROVE  FoundInv'
<1> USE DEF FoundInv
<1>1. /\ UNCHANGED <<life, nodeList, records, view>>
      /\ m \in Nodes => life[m] = "running"
      /\ mixed' = IF Overlapped = {} THEN mixed \ {m} ELSE mixed \cup Overlapped \cup {m}
      /\ healed' = (healed /\ Overlapped = {})
      /\ pc'[m] = "nodes" /\ \A u \in Updaters \ {m} : pc'[u] = pc[u]
    BY ManagerAssumption DEF BeginUpdate, Goto, Running, ManagerIInv, ManagerTypeOK
<1>2. Nodes \subseteq Updaters
    BY DEF Updaters
<1>3. BusyRuns' /\ HealedIsSolo'
    BY <1>1, <1>2 DEF BusyRuns, HealedIsSolo, Overlapped
<1>4. \A u \in Updaters : Solo(u)' => u = m
    BY <1>1 DEF Solo, Overlapped
<1>5. SoloSeesUpdated'
    BY <1>1, <1>4 DEF SoloSeesUpdated
<1>6. \A n \in Nodes : IsFound(n)' <=> IsFound(n)
    BY <1>1 DEF IsFound, Ips
<1>7. UpdatedAreFound'
    BY <1>1, <1>2, <1>6 DEF UpdatedAreFound
<1> QED
    BY <1>1, <1>3, <1>5, <1>7

\* A step of an update that goes on leaves the other updates alone, sees the
\* running nodes, and takes what has been seen out of neither list.
LEMMA GoOnKeepsFound ==
    ASSUME ManagerIInv, FoundInv, NEW m \in Updaters,
           UNCHANGED <<life, mixed, healed>>,
           pc[m] \in Underway, pc'[m] \in Underway \ {"nodes"},
           \A u \in Updaters \ {m} : pc'[u] = pc[u] /\ view'[u] = view[u],
           view'[m] = Running \/ (view'[m] = view[m] /\ pc[m] # "nodes"),
           \A n \in Nodes : n \in view[m] /\ pc[m] # "nodes" /\ IsFound(n) => IsFound(n)',
           pc[m] = "nodes" => UNCHANGED <<nodeList, records>>
    PROVE  FoundInv'
<1> USE DEF FoundInv
<1>1. Nodes \subseteq Updaters
    BY DEF Updaters
<1>2. BusyRuns' /\ HealedIsSolo'
    BY <1>1 DEF BusyRuns, HealedIsSolo
<1>3. \A u \in Updaters : Solo(u)' => u = m /\ Solo(m)
    BY DEF Solo, ManagerIInv, SoloIsAlone
<1>4. \A n \in Nodes : pc'[n] = "updated" => pc[n] = "updated"
    BY <1>1 DEF Underway
<1>5. SoloSeesUpdated'
    <2> SUFFICES ASSUME Solo(m), NEW n \in Nodes, pc'[n] = "updated" \/ n = m
                 PROVE  n \in view'[m]
        BY <1>3 DEF SoloSeesUpdated
    <2>1. pc[n] = "updated" \/ n = m
        BY <1>4
    <2>2. life[n] = "running"
        BY <2>1 DEF BusyRuns
    <2> QED
        BY <2>1, <2>2 DEF SoloSeesUpdated, Running
<1>6. UpdatedAreFound'
    <2> SUFFICES ASSUME healed, NEW n \in Nodes, pc'[n] = "updated"
                 PROVE  IsFound(n)'
        BY DEF UpdatedAreFound
    <2>1. Solo(m) /\ pc[n] = "updated" /\ IsFound(n)
        BY <1>4 DEF HealedIsSolo, Solo, UpdatedAreFound
    <2>2. CASE pc[m] = "nodes"
        BY <2>1, <2>2 DEF IsFound, Ips
    <2>3. CASE pc[m] # "nodes"
        BY <2>1, <2>3 DEF SoloSeesUpdated
    <2> QED
        BY <2>2, <2>3
<1> QED
    BY <1>2, <1>5, <1>6

\* An update that succeeds and overlapped no other has published all that have
\* updated, its own node among them.
LEMMA FinishKeepsFound ==
    ASSUME ManagerIInv, FoundInv, NEW m \in Updaters, FinishUpdate(m)
    PROVE  FoundInv'
<1> USE DEF FoundInv
<1>1. /\ pc[m] = "apply" /\ dels[m] = {} /\ adds[m] = {}
      /\ UNCHANGED <<life, nodeList, records, mixed>>
      /\ healed' = (healed \/ m \notin mixed)
      /\ pc'[m] = "updated"
      /\ \A u \in Updaters \ {m} : pc'[u] = pc[u] /\ view'[u] = view[u]
    BY DEF FinishUpdate, Ended, EndAll
<1>2. Nodes \subseteq Updaters
    BY DEF Updaters
<1>3. BusyRuns'
    BY <1>1, <1>2 DEF BusyRuns, Underway
<1>4. healed' => Solo(m)
    BY <1>1 DEF HealedIsSolo, Solo, Underway
<1>5. Solo(m) => \A u \in Updaters : pc'[u] \notin Underway
    BY <1>1 DEF ManagerIInv, SoloIsAlone, Underway
<1>6. HealedIsSolo'
    BY <1>4, <1>5 DEF HealedIsSolo
<1>7. \A u \in Updaters : ~Solo(u)'
    <2>1. CASE Solo(m)
        BY <1>5, <2>1 DEF Solo
    <2>2. CASE ~Solo(m)
        BY <1>1, <2>2 DEF Solo, ManagerIInv, SoloIsAlone, Underway
    <2> QED
        BY <2>1, <2>2
<1>8. SoloSeesUpdated'
    BY <1>7 DEF SoloSeesUpdated
<1>9. UpdatedAreFound'
    <2> SUFFICES ASSUME Solo(m), NEW n \in Nodes, pc[n] = "updated" \/ n = m
                 PROVE  IsFound(n)
        BY <1>1, <1>2, <1>4 DEF UpdatedAreFound, IsFound, Ips
    <2>1. n \in view[m]
        BY <1>1 DEF SoloSeesUpdated
    <2>2. nodeList = view[m] /\ \A k \in Kinds : \A i \in view[m] : i \in Ips(k)
        BY <1>1 DEF ManagerIInv, SoloPublished, SoloExact
    <2> QED
        BY <2>1, <2>2 DEF IsFound
<1> QED
    BY <1>1, <1>3, <1>6, <1>8, <1>9

\* The steps of an update that do not end it.
LEMMA StepKeepsFound ==
    ASSUME ManagerIInv, FoundInv, NEW m \in Updaters, UpdateStep(m)
    PROVE  FoundInv'
<1> USE DEF Underway
<1>1. CASE GetNodes(m)
    <2>1. /\ UNCHANGED <<life, mixed, healed, nodeList, records>>
          /\ pc[m] = "nodes" /\ pc'[m] = "upload" /\ view'[m] = Running
          /\ \A u \in Updaters \ {m} : pc'[u] = pc[u] /\ view'[u] = view[u]
        BY <1>1, NodesAreTheRunning DEF GetNodes, Goto, ManagerIInv, ManagerTypeOK
    <2> QED
        BY <2>1, GoOnKeepsFound
<1>2. CASE UploadClusterJson(m)
    <2>1. /\ UNCHANGED <<life, mixed, healed, records, view>>
          /\ pc[m] = "upload" /\ pc'[m] = "list" /\ nodeList' = view[m]
          /\ \A u \in Updaters \ {m} : pc'[u] = pc[u]
        BY <1>2 DEF UploadClusterJson, Goto, ManagerIInv, ManagerTypeOK
    <2>2. \A n \in Nodes : n \in view[m] /\ IsFound(n) => IsFound(n)'
        BY <2>1 DEF IsFound, Ips
    <2> QED
        BY <2>1, <2>2, GoOnKeepsFound
<1>3. CASE ListRecords(m)
    <2>1. /\ UNCHANGED <<life, mixed, healed, nodeList, records, view>>
          /\ pc[m] = "list" /\ pc'[m] = "apply"
          /\ \A u \in Updaters \ {m} : pc'[u] = pc[u]
        BY <1>3 DEF ListRecords, Goto, ManagerIInv, ManagerTypeOK
    <2>2. \A n \in Nodes : IsFound(n) => IsFound(n)'
        BY <2>1 DEF IsFound, Ips
    <2> QED
        BY <2>1, <2>2, GoOnKeepsFound
<1>4. ASSUME NEW r \in dels[m], DeleteRecord(m, r) PROVE FoundInv'
    <2>1. CASE r \notin records
        <3>1. EndAll({m}, "failed") /\ UNCHANGED <<life, nodeList, records, mixed, healed>>
            BY <1>4, <2>1 DEF DeleteRecord, Ended
        <3> QED
            BY <3>1, EndKeepsFound
    <2>2. CASE r \in records
        <3>1. /\ UNCHANGED <<life, mixed, healed, nodeList, pc, view>>
              /\ records' = records \ {r} /\ pc[m] = "apply"
            BY <1>4, <2>2 DEF DeleteRecord
        <3>2. r.ip \notin view[m]
            BY <1>4 DEF ManagerIInv, PlansFit
        <3>3. \A n \in Nodes : n \in view[m] /\ IsFound(n) => IsFound(n)'
            BY <3>1, <3>2 DEF IsFound, Ips
        <3> QED
            BY <3>1, <3>3, GoOnKeepsFound
    <2> QED
        BY <2>1, <2>2
<1>5. ASSUME NEW a \in adds[m], AddRecord(m, a[1], a[2]) PROVE FoundInv'
    <2>1. /\ UNCHANGED <<life, mixed, healed, nodeList, pc, view>>
          /\ records \subseteq records' /\ pc[m] = "apply"
        BY <1>5 DEF AddRecord
    <2>2. \A n \in Nodes : IsFound(n) => IsFound(n)'
        BY <2>1 DEF IsFound, Ips
    <2> QED
        BY <2>1, <2>2, GoOnKeepsFound
<1> QED
    BY <1>1, <1>2, <1>3, <1>4, <1>5, FinishKeepsFound DEF UpdateStep

\* Every step keeps FoundInv.
LEMMA FoundStep == ManagerIInv /\ FoundInv /\ [Next]_vars => FoundInv'
<1> SUFFICES ASSUME ManagerIInv, FoundInv, [Next]_vars PROVE FoundInv'
    OBVIOUS
<1>1. ASSUME NEW n \in Nodes, StartNode(n) PROVE FoundInv'
    <2>1. /\ UNCHANGED <<nodeList, records, pc, view, mixed, healed>>
          /\ \A i \in Nodes : life[i] = "running" => life'[i] = "running"
        BY <1>1 DEF StartNode, ManagerIInv, ManagerTypeOK
    <2> QED
        BY <2>1 DEF FoundInv, BusyRuns, HealedIsSolo, SoloSeesUpdated,
                    UpdatedAreFound, Solo, IsFound, Ips
<1>2. ASSUME NEW n \in Nodes, NEW lost \in {{}, {Request}},
             StopNode(n, lost) \/ KillProcess(n, lost)
      PROVE  FoundInv'
    <2>1. /\ EndAll({n} \cup lost, "idle") /\ {n} \cup lost \in SUBSET Updaters
          /\ UNCHANGED <<nodeList, records, mixed, healed>>
        BY <1>2 DEF StopNode, KillProcess, Updaters
    <2>2. \A i \in Nodes \ ({n} \cup lost) : life'[i] = life[i]
        BY <1>2 DEF StopNode, KillProcess, ManagerIInv, ManagerTypeOK
    <2> QED
        BY <2>1, <2>2, EndKeepsFound
<1>3. ASSUME NEW m \in Updaters, FailUpdate(m) PROVE FoundInv'
    <2>1. EndAll({m}, "failed") /\ UNCHANGED <<life, nodeList, records, mixed, healed>>
        BY <1>3 DEF FailUpdate, Ended
    <2> QED
        BY <2>1, EndKeepsFound
<1>4. CASE UNCHANGED vars
    BY <1>4 DEF vars, FoundInv, BusyRuns, HealedIsSolo, SoloSeesUpdated,
                UpdatedAreFound, Solo, IsFound, Ips
<1> QED
    BY <1>1, <1>2, <1>3, <1>4, BeginKeepsFound, StepKeepsFound DEF Next

\* Unless updates overlapped and none has succeeded alone since, a node whose
\* update has succeeded stays in the list and the zone, whatever others do.
LEMMA UpdatedStayFound == Spec => [](ManagerIInv /\ FoundInv)
BY ManagerInitial, ManagerStep, FoundInitial, FoundStep, PTL DEF Spec

-----------------------------------------------------------------------------
(* Startup                                                                 *)

\* A node of a cluster gets past its update only when that has succeeded.
PhaseInv ==
    /\ phase \in [Nodes -> {"off", "tags", "secrets", "update", "load", "serving", "status"}]
    /\ pc \in [Updaters -> Underway \cup {"idle", "failed", "updated"}]
    /\ HasClusterNodeHost =>
          \A n \in Nodes :
              phase[n] \in {"load", "serving", "status"} => pc[n] = "updated"

\* The servers' phases
LEMMA WhereServersStart ==
    FirstOf(Servers) \in {"load", "serving", "status"} /\ Servers \in {"serving", "status"}
BY DEF FirstOf, Servers

\* A step of an update moves the update alone.
LEMMA UpdateMoves ==
    ASSUME PhaseInv, NEW m \in Updaters,
           BeginUpdate(m) \/ UpdateStep(m) \/ FailUpdate(m)
    PROVE  /\ pc' \in [Updaters -> Underway \cup {"idle", "failed", "updated"}]
           /\ \A u \in Updaters \ {m} : pc'[u] = pc[u]
<1> USE DEF PhaseInv, Underway, Goto, Ended, EndAll
<1>1. CASE BeginUpdate(m)
    BY <1>1 DEF BeginUpdate
<1>2. CASE FailUpdate(m)
    BY <1>2 DEF FailUpdate
<1>3. CASE UpdateStep(m)
    <2>1. CASE GetNodes(m)
        BY <2>1 DEF GetNodes
    <2>2. CASE UploadClusterJson(m)
        BY <2>2 DEF UploadClusterJson
    <2>3. CASE ListRecords(m)
        BY <2>3 DEF ListRecords
    <2>4. ASSUME NEW r \in dels[m], DeleteRecord(m, r)
          PROVE  UNCHANGED pc \/ EndAll({m}, "failed")
        BY <2>4 DEF DeleteRecord
    <2>5. ASSUME NEW a \in adds[m], AddRecord(m, a[1], a[2]) PROVE UNCHANGED pc
        BY <2>5 DEF AddRecord
    <2>6. CASE FinishUpdate(m)
        BY <2>6 DEF FinishUpdate
    <2> QED
        BY <1>3, <2>1, <2>2, <2>3, <2>4, <2>5, <2>6 DEF UpdateStep
<1> QED
    BY <1>1, <1>2, <1>3

\* A process that dies starts over before its update.
LEMMA DeathKeepsPhases ==
    ASSUME PhaseInv, NEW n \in Nodes, Stop(n) \/ Kill(n)
    PROVE  PhaseInv'
<1>1. PICK lost \in {{}, {Request}} :
         /\ EndAll({n} \cup lost, "idle")
         /\ Reset(n, "off") \/ Reset(n, "tags")
    BY DEF Stop, Kill, StopNode, KillProcess
<1>2. /\ UNCHANGED deployment
      /\ phase' = [phase EXCEPT ![n] = "off"] \/ phase' = [phase EXCEPT ![n] = "tags"]
    BY <1>1 DEF Reset, Enter
<1>3. /\ pc' \in [Updaters -> Underway \cup {"idle", "failed", "updated"}]
      /\ \A i \in Nodes \ {n} : pc'[i] = pc[i]
    BY <1>1, ManagerAssumption DEF EndAll, PhaseInv, Updaters
<1> QED
    BY <1>2, <1>3 DEF PhaseInv, HasClusterNodeHost, IsSet, Has

\* Every step of the start keeps the phases in step with the update.
LEMMA PhaseStep == PhaseInv /\ [StartupNext]_allVars => PhaseInv'
<1> SUFFICES ASSUME PhaseInv, [StartupNext]_allVars PROVE PhaseInv'
    OBVIOUS
<1> USE DEF PhaseInv, HasClusterNodeHost, IsSet, Has
<1>1. ASSUME NEW n \in Nodes, Launch(n) PROVE PhaseInv'
    BY <1>1 DEF Launch, StartNode, Enter
<1>2. ASSUME NEW n \in Nodes, LoadTags(n) PROVE PhaseInv'
    BY <1>2 DEF LoadTags, Enter, vars
<1>3. ASSUME NEW n \in Nodes, LoadSecrets(n) PROVE PhaseInv'
    <2>1. UNCHANGED <<pc, deployment>> /\ \E to \in {"tags", "update", FirstOf(Servers)} :
             /\ phase' = [phase EXCEPT ![n] = to]
             /\ HasClusterNodeHost => to \in {"tags", "update"}
        BY <1>3 DEF LoadSecrets, Enter, vars
    <2> QED
        BY <2>1, WhereServersStart
<1>4. ASSUME NEW n \in Nodes, GoOn(n) PROVE PhaseInv'
    <2>1. /\ UNCHANGED <<pc, deployment>> /\ pc[n] = "updated"
          /\ phase' = [phase EXCEPT ![n] = FirstOf(Servers)]
        BY <1>4 DEF GoOn, MayPass, Enter, vars
    <2> QED
        BY <2>1, WhereServersStart
<1>5. ASSUME NEW n \in Nodes, LoadList(n) \/ LoadListFails(n) PROVE PhaseInv'
    <2>1. /\ UNCHANGED <<pc, deployment>> /\ phase[n] \in {"load", "serving", "status"}
          /\ \E to \in {"load", Servers} : phase' = [phase EXCEPT ![n] = to]
        BY <1>5 DEF LoadList, LoadListFails, Enter, vars
    <2> QED
        BY <2>1, WhereServersStart
<1>6. ASSUME NEW n \in Nodes, Update(n) \/ UpdateOrPanic(n, FailUpdate(n)) PROVE PhaseInv'
    <2>1. /\ BeginUpdate(n) \/ UpdateStep(n) \/ FailUpdate(n)
          /\ phase[n] = "update" /\ UNCHANGED deployment
          /\ UNCHANGED phase \/ phase' = [phase EXCEPT ![n] = "tags"]
        BY <1>6 DEF Update, UpdateOrPanic, Reset, Enter, startVars
    <2>2. n \in Updaters /\ Nodes \subseteq Updaters
        BY DEF Updaters
    <2>3. /\ pc' \in [Updaters -> Underway \cup {"idle", "failed", "updated"}]
          /\ \A i \in Nodes \ {n} : pc'[i] = pc[i]
        BY <2>1, <2>2, UpdateMoves
    <2> QED
        BY <2>1, <2>3
<1>7. CASE RequestUpdate \/ RequestFails
    <2>1. /\ BeginUpdate(Request) \/ UpdateStep(Request) \/ FailUpdate(Request)
          /\ UNCHANGED startVars
        BY <1>7 DEF RequestUpdate, RequestFails
    <2>2. Request \in Updaters /\ Nodes \subseteq Updaters \ {Request}
        BY ManagerAssumption DEF Updaters
    <2>3. /\ pc' \in [Updaters -> Underway \cup {"idle", "failed", "updated"}]
          /\ \A i \in Nodes : pc'[i] = pc[i]
        BY <2>1, <2>2, UpdateMoves
    <2> QED
        BY <2>1, <2>3 DEF startVars
<1>8. CASE UNCHANGED allVars
    BY <1>8 DEF allVars, vars, startVars
<1> QED
    BY <1>1, <1>2, <1>3, <1>4, <1>5, <1>6, <1>7, <1>8, DeathKeepsPhases
    DEF StartupNext, ProcessStep

\* Every step of the start is a step of the updates, or none: what updates
\* promise, they promise to the processes that main drives.
THEOREM StartsAreUpdates == StartupSpec => Spec
<1>1. StartupInit => Init
    BY DEF StartupInit
<1>2. ASSUME [StartupNext]_allVars PROVE [Next]_vars
    <2>1. ASSUME NEW n \in Nodes,
                 Launch(n) \/ Stop(n) \/ Kill(n) \/ Update(n)
                 \/ UpdateOrPanic(n, FailUpdate(n))
          PROVE  Next
        BY <2>1 DEF Launch, Stop, Kill, Update, UpdateOrPanic, Next, Updaters
    <2>2. ASSUME NEW n \in Nodes,
                 LoadTags(n) \/ LoadSecrets(n) \/ GoOn(n) \/ LoadList(n) \/ LoadListFails(n)
          PROVE  UNCHANGED vars
        BY <2>2 DEF LoadTags, LoadSecrets, GoOn, LoadList, LoadListFails
    <2>3. CASE RequestUpdate \/ RequestFails
        BY <2>3 DEF RequestUpdate, RequestFails, Next, Updaters
    <2> QED
        BY <1>2, <2>1, <2>2, <2>3 DEF StartupNext, ProcessStep, allVars
<1> QED
    BY <1>1, <1>2, PTL DEF StartupSpec, Spec

\* A node serves only once it is found, and stays found while it serves, unless
\* updates overlapped and none has succeeded alone since.
THEOREM ServingNodesAreFound == StartupSpec => []ServersAreFound
<1>1. StartupInit => PhaseInv
    BY DEF StartupInit, Init, PhaseInv
<1>2. FoundInv /\ PhaseInv => ServersAreFound
    BY DEF FoundInv, UpdatedAreFound, PhaseInv, ServersAreFound
<1> QED
    BY <1>1, <1>2, PhaseStep, StartsAreUpdates, UpdatedStayFound, PTL DEF StartupSpec
==============================================================================
