----------------------------- MODULE CoreProofs -----------------------------
(* The managers that bring the core up, renew it and deal with other       *)
(* processes, for any number of components, phases, reloads, pids, clients *)
(* and identities: what runs is ready and what stopped is released, one    *)
(* reload is under way at a time and waits for work only, the records that *)
(* say RUNNING are the children there are, and the IPC server keeps its    *)
(* connections apart and answers only whom it may.                         *)
EXTENDS FiniteSetTheorems, SequenceTheorems, MCCoreRuntime, TLAPS

-----------------------------------------------------------------------------
(* Processes *)

(* What makes the numbers of records and children equal: a pid has one     *)
(* record at most that says RUNNING.                                       *)
OneRecordEach ==
  managerUp =>
    \A i, j \in Recorded("RUNNING") : processes[i].pid = processes[j].pid => i = j

SamePids ==
  managerUp => {processes[i].pid : i \in Recorded("RUNNING")} = {p \in Pids : child[p] # "none"}

ProcessInv == ProcessTypeOK /\ OneRecordEach /\ SamePids

Record == [pid : Pids \cup {NoPid}, state : ProcessStates]

LEMMA EqualNumbers == ProcessTypeOK /\ OneRecordEach /\ SamePids => RecordsMatchChildren
<1> SUFFICES ASSUME ProcessTypeOK, OneRecordEach, SamePids, managerUp
             PROVE  Cardinality(Recorded("RUNNING")) = Cardinality({p \in Pids : child[p] # "none"})
  BY DEF SamePids, RecordsMatchChildren
<1> DEFINE there == {p \in Pids : child[p] # "none"}
           f == [i \in Recorded("RUNNING") |-> processes[i].pid]
<1>1. IsFiniteSet(Recorded("RUNNING"))
  <2>1. Recorded("RUNNING") \subseteq 1..Len(processes) /\ Len(processes) \in Nat
    BY DEF Recorded, ProcessTypeOK
  <2>2. IsFiniteSet(1..Len(processes))
    BY <2>1, FS_Interval
  <2> QED BY <2>1, <2>2, FS_Subset
<1>2. f \in [Recorded("RUNNING") -> there] /\ {f[i] : i \in Recorded("RUNNING")} = there
  BY DEF SamePids
<1>3. \A i, j \in Recorded("RUNNING") : f[i] = f[j] => i = j
  BY DEF OneRecordEach
<1>4. f \in Bijection(Recorded("RUNNING"), there)
  BY <1>2, <1>3 DEF Bijection, Injection, Surjection, IsInjective
<1>5. ExistsBijection(Recorded("RUNNING"), there)
  BY <1>4 DEF ExistsBijection
<1> QED BY <1>1, <1>5, FS_Bijection

LEMMA ProcessInitHolds == ProcessInit => ProcessInv
<1> SUFFICES ASSUME ProcessInit PROVE ProcessInv OBVIOUS
<1>1. processes \in Seq(Record) /\ Len(processes) = 0 /\ Recorded("RUNNING") = {}
  BY DEF ProcessInit, Recorded
<1>2. ProcessTypeOK
  BY <1>1, ProcessAssumption DEF ProcessInit, ProcessTypeOK, Record
<1> QED BY <1>1, <1>2 DEF ProcessInit, ProcessInv, OneRecordEach, SamePids

LEMMA ProcessStepHolds == ProcessInv /\ [ProcessNext]_processVars => ProcessInv'
<1> SUFFICES ASSUME ProcessInv, [ProcessNext]_processVars PROVE ProcessInv' OBVIOUS
<1>1. /\ processes \in Seq(Record) /\ Len(processes) \in Nat /\ Len(processes) <= ProcessCapacity
      /\ DOMAIN processes = 1..Len(processes)
      /\ child \in [Pids -> {"none", "alive", "zombie"}] /\ managerUp \in BOOLEAN
      /\ \A i \in DOMAIN processes : processes[i] \in Record
  <2>1. processes \in Seq(Record) /\ Len(processes) <= ProcessCapacity
    BY DEF ProcessInv, ProcessTypeOK, Record
  <2>2. Len(processes) \in Nat /\ DOMAIN processes = 1..Len(processes)
        /\ \A i \in DOMAIN processes : processes[i] \in Record
    BY <2>1
  <2> QED BY <2>1, <2>2 DEF ProcessInv, ProcessTypeOK
<1>2. ASSUME NEW r \in Record, processes' = Append(processes, r), Len(processes) < ProcessCapacity
      PROVE  /\ processes' \in Seq(Record) /\ Len(processes') <= ProcessCapacity
             /\ DOMAIN processes' = 1..(Len(processes) + 1)
             /\ \A i \in 1..Len(processes) : processes'[i] = processes[i]
             /\ processes'[Len(processes) + 1] = r
  BY <1>1, <1>2, ProcessAssumption
<1>3. ASSUME NEW f, processes' = [i \in DOMAIN processes |-> f[i]],
             \A i \in DOMAIN processes : f[i] \in Record
      PROVE  processes' \in Seq(Record) /\ Len(processes') = Len(processes)
  BY <1>1, <1>3
<1>4. CASE CreateProcess
  <2>1. CASE processes' = Append(processes, [pid |-> NoPid, state |-> "FAILED"]) /\ UNCHANGED child
    <3>1. [pid |-> NoPid, state |-> "FAILED"] \in Record
      BY DEF Record, ProcessStates
    <3>2. ProcessTypeOK'
      BY <1>1, <1>2, <1>4, <2>1, <3>1 DEF CreateProcess, ProcessTypeOK, Record
    <3>3. Recorded("RUNNING")' = Recorded("RUNNING")
      BY <1>1, <1>2, <1>4, <2>1, <3>1 DEF CreateProcess, Recorded
    <3>4. \A i \in Recorded("RUNNING") : processes'[i] = processes[i]
      BY <1>1, <1>2, <1>4, <2>1, <3>1 DEF CreateProcess, Recorded
    <3>5. managerUp /\ child' = child
      BY <1>4, <2>1 DEF CreateProcess
    <3>6. OneRecordEach'
      BY <3>3, <3>4, <3>5 DEF ProcessInv, OneRecordEach
    <3>7. {processes'[i].pid : i \in Recorded("RUNNING")'} = {processes[i].pid : i \in Recorded("RUNNING")}
      BY <3>3, <3>4
    <3> QED BY <3>2, <3>5, <3>6, <3>7 DEF ProcessInv, SamePids
  <2>2. ASSUME NEW p \in Pids, child[p] = "none", child' = [child EXCEPT ![p] = "alive"],
               processes' = Append(processes, [pid |-> p, state |-> "RUNNING"])
        PROVE  ProcessInv'
    <3> DEFINE n == Len(processes) + 1
    <3>1. [pid |-> p, state |-> "RUNNING"] \in Record
      BY DEF Record, ProcessStates
    <3>2. ProcessTypeOK'
      BY <1>1, <1>2, <1>4, <2>2, <3>1 DEF CreateProcess, ProcessTypeOK, Record
    <3>3. Recorded("RUNNING")' = Recorded("RUNNING") \cup {n} /\ n \notin Recorded("RUNNING")
      BY <1>1, <1>2, <1>4, <2>2, <3>1 DEF CreateProcess, Recorded
    <3>4. (\A i \in Recorded("RUNNING") : processes'[i] = processes[i]) /\ processes'[n].pid = p
      BY <1>1, <1>2, <1>4, <2>2, <3>1 DEF CreateProcess, Recorded
    <3>5. \A i \in Recorded("RUNNING") : processes[i].pid # p
      BY <1>4, <2>2 DEF CreateProcess, ProcessInv, SamePids
    <3>6. OneRecordEach'
      BY <1>4, <3>3, <3>4, <3>5 DEF CreateProcess, ProcessInv, OneRecordEach
    <3>7. {q \in Pids : child'[q] # "none"} = {q \in Pids : child[q] # "none"} \cup {p}
      BY <1>1, <2>2
    <3>8. {processes'[i].pid : i \in Recorded("RUNNING")'}
            = {processes[i].pid : i \in Recorded("RUNNING")} \cup {p}
      BY <3>3, <3>4
    <3> QED BY <1>4, <3>2, <3>6, <3>7, <3>8 DEF CreateProcess, ProcessInv, SamePids
  <2> QED BY <1>4, <2>1, <2>2 DEF CreateProcess
<1>5. CASE ChildEnds
  <2> PICK p \in Pids : child[p] = "alive" /\ child' = [child EXCEPT ![p] = "zombie"]
    BY <1>5 DEF ChildEnds
  <2>1. {q \in Pids : child'[q] # "none"} = {q \in Pids : child[q] # "none"}
    BY <1>1
  <2>2. ProcessTypeOK' /\ Recorded("RUNNING")' = Recorded("RUNNING")
    BY <1>1, <1>5 DEF ChildEnds, ProcessInv, ProcessTypeOK, Recorded
  <2> QED BY <1>5, <2>1, <2>2 DEF ChildEnds, ProcessInv, OneRecordEach, SamePids
<1>6. CASE Reap
  <2> PICK ending \in [Zombies -> {"EXITED", "TERMINATED"}] :
        processes' = [i \in DOMAIN processes |->
           IF \E p \in Zombies : IsRecordOf(i, p)
             THEN [processes[i] EXCEPT !.state = ending[processes[i].pid]]
             ELSE processes[i]]
    BY <1>6 DEF Reap
  <2>0. managerUp /\ managerUp' = managerUp
        /\ child' = [p \in Pids |-> IF p \in Zombies THEN "none" ELSE child[p]]
    BY <1>6 DEF Reap
  <2> DEFINE ended(i) == \E p \in Zombies : IsRecordOf(i, p)
             f == [i \in DOMAIN processes |->
                     IF ended(i) THEN [processes[i] EXCEPT !.state = ending[processes[i].pid]]
                     ELSE processes[i]]
  <2>1. \A i \in DOMAIN processes : ended(i) => processes[i].pid \in Zombies
    BY DEF IsRecordOf
  <2>2. \A i \in DOMAIN processes :
          /\ ended(i) => f[i] = [pid |-> processes[i].pid, state |-> ending[processes[i].pid]]
                         /\ ending[processes[i].pid] \in {"EXITED", "TERMINATED"}
          /\ ~ended(i) => f[i] = processes[i]
    BY <1>1, <2>1 DEF Record
  <2>3. \A i \in DOMAIN processes : f[i] \in Record
    BY <1>1, <2>2 DEF Record, ProcessStates
  <2>4. processes' \in Seq(Record) /\ Len(processes') = Len(processes)
        /\ DOMAIN processes' = DOMAIN processes /\ \A i \in DOMAIN processes : processes'[i] = f[i]
    BY <1>1, <1>3, <2>3
  <2>5. ProcessTypeOK'
    BY <1>1, <2>0, <2>4 DEF ProcessTypeOK, Record, Zombies
  <2>6. \A i \in Recorded("RUNNING") : ended(i) <=> processes[i].pid \in Zombies
    <3>1. SUFFICES ASSUME NEW i \in Recorded("RUNNING"), processes[i].pid \in Zombies PROVE ended(i)
      BY <2>1 DEF Recorded
    <3>2. \A j \in Recorded("RUNNING") : processes[j].pid = processes[i].pid => j = i
      BY <2>0 DEF ProcessInv, OneRecordEach
    <3>3. i \in Nat
      BY <1>1 DEF Recorded
    <3> QED BY <3>1, <3>2, <3>3 DEF IsRecordOf
  <2>7. \A i : ended(i) => i \in Recorded("RUNNING")
    BY DEF IsRecordOf
  <2>7b. \A i \in DOMAIN processes : ended(i) => f[i].state # "RUNNING"
    <3> SUFFICES ASSUME NEW i \in DOMAIN processes, ended(i) PROVE f[i].state # "RUNNING"
      OBVIOUS
    <3>1. f[i].state = ending[processes[i].pid]
      BY <2>2
    <3>2. ending[processes[i].pid] # "RUNNING"
      BY <2>2
    <3> QED BY <3>1, <3>2
  <2> HIDE DEF ended, f
  <2>8. Recorded("RUNNING")' = {i \in Recorded("RUNNING") : processes[i].pid \notin Zombies}
        /\ \A i \in Recorded("RUNNING")' : processes'[i] = processes[i]
    <3>1. \A i \in DOMAIN processes :
            f[i].state = "RUNNING" <=> i \in Recorded("RUNNING") /\ ~ended(i)
      <4> SUFFICES ASSUME NEW i \in DOMAIN processes
                   PROVE  f[i].state = "RUNNING" <=> i \in Recorded("RUNNING") /\ ~ended(i)
        OBVIOUS
      <4>1. CASE ended(i)
        BY <2>7b, <4>1
      <4>2. CASE ~ended(i)
        BY <2>2, <4>2 DEF Recorded
      <4> QED BY <4>1, <4>2
    <3>2. Recorded("RUNNING")' = {i \in DOMAIN processes : f[i].state = "RUNNING"}
      BY <2>4 DEF Recorded
    <3>3. \A i \in Recorded("RUNNING") : i \in DOMAIN processes
      BY DEF Recorded
    <3> QED BY <2>2, <2>4, <2>6, <3>1, <3>2, <3>3
  <2>9. OneRecordEach'
    BY <2>0, <2>8 DEF ProcessInv, OneRecordEach
  <2>10. {p \in Pids : child'[p] # "none"} = {p \in Pids : child[p] # "none"} \ Zombies
    BY <2>0 DEF Zombies
  <2>11. {processes'[i].pid : i \in Recorded("RUNNING")'}
           = {processes[i].pid : i \in Recorded("RUNNING")} \ Zombies
    BY <2>8
  <2> QED BY <2>0, <2>5, <2>9, <2>10, <2>11 DEF ProcessInv, SamePids
<1>7. ASSUME NEW n \in DOMAIN processes, Terminate(n) PROVE ProcessInv'
  <2>0. /\ managerUp /\ managerUp' = managerUp /\ n \in Recorded("RUNNING")
        /\ child' = [child EXCEPT ![processes[n].pid] = "none"]
        /\ processes' = [processes EXCEPT ![n].state = "TERMINATED"]
    BY <1>7 DEF Terminate
  <2>1. processes[n].pid \in Pids /\ child[processes[n].pid] # "none"
    BY <2>0 DEF ProcessInv, SamePids
  <2>2. /\ processes' \in Seq(Record) /\ Len(processes') = Len(processes)
        /\ DOMAIN processes' = DOMAIN processes
        /\ processes'[n] = [pid |-> processes[n].pid, state |-> "TERMINATED"]
        /\ \A i \in DOMAIN processes \ {n} : processes'[i] = processes[i]
    BY <1>1, <2>0 DEF Record, ProcessStates
  <2>3. ProcessTypeOK'
    BY <1>1, <2>0, <2>2 DEF ProcessTypeOK, Record
  <2>4. Recorded("RUNNING")' = Recorded("RUNNING") \ {n}
    BY <2>2 DEF Recorded
  <2>5. \A i \in Recorded("RUNNING") \ {n} : processes'[i] = processes[i]
    BY <2>2 DEF Recorded
  <2>6. OneRecordEach'
    BY <2>0, <2>4, <2>5 DEF ProcessInv, OneRecordEach
  <2>7. {p \in Pids : child'[p] # "none"} = {p \in Pids : child[p] # "none"} \ {processes[n].pid}
    BY <1>1, <2>0, <2>1
  <2>8. {processes'[i].pid : i \in Recorded("RUNNING")'}
          = {processes[i].pid : i \in Recorded("RUNNING")} \ {processes[n].pid}
    <3>1. \A i \in Recorded("RUNNING") : processes[i].pid = processes[n].pid => i = n
      BY <2>0 DEF ProcessInv, OneRecordEach
    <3> QED BY <2>4, <2>5, <3>1
  <2> QED BY <2>0, <2>3, <2>6, <2>7, <2>8 DEF ProcessInv, SamePids
<1>8. CASE ShutDownProcesses
  <2>1. processes' \in Seq(Record) /\ Len(processes') = 0
    BY <1>8 DEF ShutDownProcesses
  <2>2. child' \in [Pids -> {"none", "alive", "zombie"}] /\ managerUp' = FALSE
    BY <1>1, <1>8 DEF ShutDownProcesses
  <2>3. ProcessTypeOK'
    <3>1. Len(processes') <= ProcessCapacity
      BY <2>1, ProcessAssumption
    <3>2. managerUp' \in BOOLEAN
      BY <2>2
    <3> QED BY <2>1, <2>2, <3>1, <3>2, Zenon DEF ProcessTypeOK, Record
  <2> QED BY <2>2, <2>3 DEF ProcessInv, OneRecordEach, SamePids
<1>9. CASE UNCHANGED processVars
  BY <1>9 DEF processVars, ProcessInv, ProcessTypeOK, OneRecordEach, SamePids, Recorded
<1> QED BY <1>4, <1>5, <1>6, <1>7, <1>8, <1>9 DEF ProcessNext

(* The records that say RUNNING and the children of the kernel correspond  *)
(* one to one, however children end, are reaped and are terminated         *)
(* (processes.c:229, :262), and the table keeps its bounds.                *)
THEOREM ProcessesCorrect == ProcessSpec => []ProcessesSafe
<1>1. ProcessInv => ProcessesSafe
  BY EqualNumbers DEF ProcessInv, ProcessesSafe
<1> QED BY <1>1, ProcessInitHolds, ProcessStepHolds, PTL DEF ProcessSpec
-----------------------------------------------------------------------------
(* The IPC server *)

(* A step by step look at what answers: one place alone, which has just    *)
(* asked who the identity of the connection is now.                        *)
LEMMA AnswersStep == IpcNext => AnswersAuthorized'
<1> SUFFICES ASSUME IpcNext PROVE AnswersAuthorized' OBVIOUS
<1>1. ASSUME answered' = {} PROVE AnswersAuthorized'
  BY <1>1 DEF AnswersAuthorized
<1>2. CASE Client \/ Accept \/ StopServer \/ Policy
  BY <1>1, <1>2 DEF Client, Accept, StopServer, Policy
<1>3. ASSUME NEW i \in 1..Slots, Serve(i) PROVE AnswersAuthorized'
  <2> DEFINE p == slots[i].peer
             m == Head(inbox[p])
             rest == SubSeq(inbox[p], IF m.whole THEN 2 ELSE 3, Len(inbox[p]))
  <2>1. CASE i \notin Live \/ inbox[p] = <<>>
    BY <1>1, <1>3, <2>1 DEF Serve, Unmoved, Disconnect, End
  <2>2. CASE i \in Live /\ ReadMessage(i, p, m)
    <3>1. CASE m.kind = "REST" /\ Misread(p)
      BY <1>1, <3>1 DEF Misread, Unmoved
    <3>2. CASE Unmoved
      BY <1>1, <3>2 DEF Unmoved
    <3>3. CASE Hello(i, m.id, rest)
      BY <1>1, <3>3 DEF Hello, Unmoved, Disconnect, End
    <3>4. CASE Bye(i)
      BY <1>1, <3>4 DEF Bye, End
    <3>5. CASE Request(i, rest)
      <4>1. slots' = slots /\ trust' = trust /\ role' = role /\ bound' = bound
        BY <1>3, <3>5 DEF Serve, Pass, policyVars, Request, serverVars
      <4>2. answered' = {} \/ /\ answered' = {slots[i].peer} /\ slots[i].state = "READY"
                              /\ Authorized(slots[i].id)
        BY <3>5 DEF Request
      <4>3. i \in Live'
        BY <2>2, <4>1 DEF Live
      <4> QED BY <1>1, <4>1, <4>2, <4>3 DEF AnswersAuthorized, Authorized
    <3> QED BY <2>2, <3>1, <3>2, <3>3, <3>4, <3>5 DEF ReadMessage
  <2> QED BY <1>3, <2>1, <2>2 DEF Serve
<1> QED BY <1>2, <1>3 DEF IpcNext

(* Whoever is answered has, at that moment, an identity that is trusted    *)
(* and holds a role that grants the request: a revocation counts from the  *)
(* next request on (authorization.c:624, :648).                            *)
THEOREM AnswersAreAuthorized == IpcSpec => []AnswersAuthorized
<1>1. IpcInit => AnswersAuthorized
  BY DEF IpcInit, AnswersAuthorized
<1>2. AnswersAuthorized /\ UNCHANGED ipcVars => AnswersAuthorized'
  BY DEF ipcVars, serverVars, policyVars, AnswersAuthorized, Live
<1>3. AnswersAuthorized /\ [IpcNext]_ipcVars => AnswersAuthorized'
  BY <1>2, AnswersStep
<1> QED BY <1>1, <1>3, PTL DEF IpcSpec

(* What keeps connections apart: sockets wait once, those that wait are    *)
(* not served, and only a socket that connected does either.               *)
WaitsOnce == \A j, k \in DOMAIN backlog : backlog[j] = backlog[k] => j = k

HasConnected ==
  /\ \A i \in Live : slots[i].peer \in Peers /\ line[slots[i].peer] # "away"
  /\ \A k \in DOMAIN backlog : line[backlog[k]] # "away"

SlotInv == CountCovers /\ OwnConnection /\ ReadyMayClaim /\ WaitsOnce /\ HasConnected
IpcInv == IpcTypeOK /\ SlotInv /\ BoundRolesExist

Part == Message \cup {Rest}
Slot == [state : SlotStates, peer : Peers \cup {NoPeer}, id : Ids \cup {NoId}]
Lines == {"away", "open", "owing", "shut", "closed"}

LEMMA LiveIsFinite == IsFiniteSet(Live) /\ Live \subseteq 1..Slots
<1>1. IsFiniteSet(1..Slots)
  BY IpcAssumption, FS_Interval
<1>2. Live \subseteq 1..Slots
  BY DEF Live
<1> QED BY <1>1, <1>2, FS_Subset

LEMMA FreeIsASlot == Free \in Slot /\ Free.state = "DISCONNECTED"
  BY DEF Free, Slot, SlotStates

(* The three ways in which a slot changes.                                 *)
LEMMA EndsLive ==
  ASSUME IpcTypeOK, NEW i \in Live, slots' = [slots EXCEPT ![i] = Free]
  PROVE  /\ slots' \in [1..Slots -> Slot] /\ Live' = Live \ {i}
         /\ Cardinality(Live') = Cardinality(Live) - 1
         /\ \A j \in Live' : slots'[j] = slots[j]
<1>1. slots \in [1..Slots -> Slot] /\ i \in 1..Slots
  BY LiveIsFinite DEF IpcTypeOK, Slot
<1>2. slots' \in [1..Slots -> Slot]
  BY <1>1, FreeIsASlot
<1>3. Live' = Live \ {i} /\ \A j \in Live' : slots'[j] = slots[j]
  BY <1>1, FreeIsASlot DEF Live
<1>4. Cardinality(Live \ {i}) = Cardinality(Live) - 1
  BY LiveIsFinite, FS_RemoveElement
<1> QED BY <1>2, <1>3, <1>4

LEMMA TakesFree ==
  ASSUME IpcTypeOK, NEW i \in (1..Slots) \ Live, NEW p \in Peers,
         slots' = [slots EXCEPT ![i] = [state |-> "HANDSHAKING", peer |-> p, id |-> NoId]]
  PROVE  /\ slots' \in [1..Slots -> Slot] /\ Live' = Live \cup {i}
         /\ Cardinality(Live') = Cardinality(Live) + 1
         /\ slots'[i].peer = p /\ slots'[i].state = "HANDSHAKING"
         /\ \A j \in Live : j # i /\ slots'[j] = slots[j]
<1>1. slots \in [1..Slots -> Slot]
  BY DEF IpcTypeOK, Slot
<1>2. [state |-> "HANDSHAKING", peer |-> p, id |-> NoId] \in Slot
  BY DEF Slot, SlotStates
<1>3. slots' \in [1..Slots -> Slot]
  BY <1>1, <1>2
<1>4. Live' = Live \cup {i} /\ \A j \in Live : j # i /\ slots'[j] = slots[j]
  BY <1>1 DEF Live
<1>5. Cardinality(Live \cup {i}) = Cardinality(Live) + 1
  BY LiveIsFinite, FS_AddElement
<1> QED BY <1>1, <1>3, <1>4, <1>5

LEMMA BecomesReady ==
  ASSUME IpcTypeOK, NEW i \in Live, NEW d \in Ids,
         slots' = [slots EXCEPT ![i].state = "READY", ![i].id = d]
  PROVE  /\ slots' \in [1..Slots -> Slot] /\ Live' = Live
         /\ slots'[i].id = d /\ \A j \in 1..Slots : slots'[j].peer = slots[j].peer
         /\ \A j \in Live : j # i => slots'[j] = slots[j]
<1>1. slots \in [1..Slots -> Slot] /\ i \in 1..Slots
  BY LiveIsFinite DEF IpcTypeOK, Slot
<1>2. slots' = [slots EXCEPT ![i] = [state |-> "READY", peer |-> slots[i].peer, id |-> d]]
  <2> DEFINE first == [slots EXCEPT ![i].state = "READY"]
  <2>1. slots' = [first EXCEPT ![i].id = d]
    OBVIOUS
  <2>2. first[i] = [state |-> "READY", peer |-> slots[i].peer, id |-> slots[i].id]
    BY <1>1 DEF Slot
  <2>3. DOMAIN first = 1..Slots /\ \A j \in 1..Slots \ {i} : first[j] = slots[j]
    BY <1>1
  <2> HIDE DEF first
  <2>4. slots'[i] = [state |-> "READY", peer |-> slots[i].peer, id |-> d]
    BY <1>1, <2>1, <2>2, <2>3
  <2> QED BY <1>1, <2>1, <2>3, <2>4
<1>3. [state |-> "READY", peer |-> slots[i].peer, id |-> d] \in Slot
  BY <1>1 DEF Slot, SlotStates
<1>4. slots' \in [1..Slots -> Slot]
  BY <1>1, <1>2, <1>3
<1>5. Live' = Live
  BY <1>1, <1>2 DEF Live
<1>6. slots'[i].id = d /\ slots'[i].peer = slots[i].peer
  <2>1. slots'[i] = [state |-> "READY", peer |-> slots[i].peer, id |-> d]
    BY <1>1, <1>2
  <2> QED BY <2>1
<1>7. \A j \in 1..Slots : j # i => slots'[j] = slots[j]
  BY <1>1, <1>2
<1> QED BY <1>4, <1>5, <1>6, <1>7, LiveIsFinite

(* What a look at a slot does to the connections.                          *)
ServesWell(i) ==
  /\ inbox' \in [Peers -> Seq(Part)] /\ answered' \subseteq Peers
  /\ \/ UNCHANGED <<slots, connCount, said, line>>
     \/ /\ i \in Live /\ slots' = [slots EXCEPT ![i] = Free]
        /\ line' = [line EXCEPT ![slots[i].peer] = "closed"]
        /\ \/ connCount' = connCount - 1 /\ said' = said
           \/ connCount' = connCount /\ said' = said + 1
     \/ /\ i \in Live /\ UNCHANGED <<connCount, said, line>>
        /\ \E d \in Ids : /\ slots[i].peer \in mayClaim[d]
                          /\ slots' = [slots EXCEPT ![i].state = "READY", ![i].id = d]

LEMMA ServeEffect ==
  ASSUME IpcInv, NEW i \in 1..Slots, Serve(i)
  PROVE  ServesWell(i)
<1> DEFINE p == slots[i].peer
           m == Head(inbox[p])
           rest == SubSeq(inbox[p], IF m.whole THEN 2 ELSE 3, Len(inbox[p]))
<1>1. inbox \in [Peers -> Seq(Part)]
  BY DEF IpcInv, IpcTypeOK, Part
<1>2. ASSUME NEW q \in Seq(Part), Keep(p, q) PROVE inbox' \in [Peers -> Seq(Part)] /\ line' = line
  BY <1>1, <1>2 DEF Keep
<1>3. ASSUME End(i) PROVE inbox' \in [Peers -> Seq(Part)]
  <2>1. <<>> \in Seq(Part)
    OBVIOUS
  <2> QED BY <1>1, <1>3, <2>1 DEF End
<1>4. CASE i \notin Live \/ (inbox[p] = <<>> /\ UNCHANGED <<line, inbox>> /\ Unmoved)
  <2>1. UNCHANGED <<line, inbox>> /\ Unmoved
    BY <1>4 DEF Serve
  <2>2. inbox' \in [Peers -> Seq(Part)] /\ answered' \subseteq Peers
    BY <1>1, <2>1 DEF Unmoved
  <2>3. UNCHANGED <<slots, connCount, said, line>>
    BY <2>1 DEF Unmoved, serverVars
  <2> QED BY <2>2, <2>3 DEF ServesWell
<1>5. CASE i \in Live /\ Disconnect(i)
  BY <1>3, <1>5 DEF Disconnect, End, ServesWell
<1>6. CASE i \in Live /\ inbox[p] # <<>> /\ ReadMessage(i, p, m)
  <2>1. p \in Peers /\ inbox[p] \in Seq(Part) /\ m \in Part /\ Len(inbox[p]) \in Nat \ {0}
    <3>1. p \in Peers
      BY <1>6 DEF IpcInv, SlotInv, HasConnected
    <3> QED BY <1>1, <1>6, <3>1, HeadTailProperties, EmptySeq
  <2>2. ASSUME NEW a \in 2..3 PROVE SubSeq(inbox[p], a, Len(inbox[p])) \in Seq(Part)
    <3>1. \A k \in a..Len(inbox[p]) : inbox[p][k] \in Part
      BY <2>1, ElementOfSeq
    <3> QED BY <2>1, <3>1, SubSeqProperties
  <2>3. rest \in Seq(Part)
    BY <2>2
  <2>4. CASE m.kind = "REST" /\ Misread(p)
    <3>1. Tail(inbox[p]) \in Seq(Part)
      BY <1>6, <2>1, HeadTailProperties
    <3>2. <<Rest>> \o SubSeq(inbox[p], 3, Len(inbox[p])) \in Seq(Part)
      <4>1. <<Rest>> \in Seq(Part)
        BY DEF Part
      <4> QED BY <2>2, <4>1, ConcatProperties
    <3>3. inbox' \in [Peers -> Seq(Part)] /\ line' = line
      BY <1>2, <2>4, <3>1, <3>2 DEF Misread
    <3> QED BY <2>4, <3>3 DEF Misread, Unmoved, serverVars, ServesWell
  <2>5. CASE Keep(p, <<>>) /\ Unmoved
    <3>1. inbox' \in [Peers -> Seq(Part)] /\ line' = line
      BY <1>2, <2>5, EmptySeq
    <3> QED BY <2>5, <3>1 DEF Unmoved, serverVars, ServesWell
  <2>6. CASE m.kind = "HELLO" /\ Hello(i, m.id, rest)
    <3>1. m.id \in Ids
      BY <2>1, <2>6 DEF Part, Message, Rest
    <3>2. CASE Keep(p, rest) /\ Unmoved
      BY <1>2, <2>3, <3>2 DEF Unmoved, serverVars, ServesWell
    <3>3. CASE Disconnect(i)
      BY <1>5, <1>6, <3>3
    <3>4. CASE /\ Authenticates(p, m.id) /\ Keep(p, rest) /\ answered' = {}
               /\ slots' = [slots EXCEPT ![i].state = "READY", ![i].id = m.id]
               /\ UNCHANGED <<connCount, said>>
      BY <1>2, <1>6, <2>3, <3>1, <3>4 DEF Authenticates, ServesWell
    <3> QED BY <2>6, <3>2, <3>3, <3>4 DEF Hello
  <2>7. CASE Request(i, rest)
    <3>1. Keep(p, rest) /\ UNCHANGED serverVars /\ answered' \subseteq Peers
      BY <2>1, <2>7 DEF Request
    <3> QED BY <1>2, <2>3, <3>1 DEF serverVars, ServesWell
  <2>8. CASE Bye(i)
    BY <1>3, <1>6, <2>8 DEF Bye, End, ServesWell
  <2> QED BY <1>6, <2>4, <2>5, <2>6, <2>7, <2>8 DEF ReadMessage
<1> QED BY <1>4, <1>5, <1>6 DEF Serve

LEMMA HasLeast ==
  ASSUME NEW T \in SUBSET Nat, T # {}
  PROVE  \E x \in T : \A y \in T : x <= y
<1> DEFINE before == OpToRel(<, Nat)
<1>1. IsWellFoundedOn(before, Nat)
  BY NatLessThanWellFounded
<1>2. \A x, y \in Nat : <<y, x>> \in before <=> y < x
  BY DEF OpToRel
<1> HIDE DEF before
<1>3. PICK x \in T : \A y \in T : <<y, x>> \notin before
  BY <1>1, WFMin
<1>4. \A y \in T : ~(y < x)
  BY <1>2, <1>3
<1> QED BY <1>4

(* The invariant of the connections for a given state of the slots, from   *)
(* which the lemmas below take what a step leaves as it was.               *)
LEMMA SlotsOf == IpcTypeOK => slots \in [1..Slots -> Slot] /\ connCount \in Nat /\ said \in Nat
  BY IpcAssumption DEF IpcTypeOK, Slot

LEMMA ServeKeeps ==
  ASSUME IpcInv, NEW i \in 1..Slots, Serve(i)
  PROVE  IpcInv'
<1>1. ServesWell(i)
  BY ServeEffect
<1>2. /\ turn = i /\ turn' = (turn + 1) % (Slots + 1)
      /\ UNCHANGED <<backlog, mayClaim, trust, role, bound>>
  BY DEF Serve, Pass, policyVars
<1>3. turn' \in 0..Slots /\ turn # Stopped
  BY <1>2, IpcAssumption DEF Stopped
<1>4. /\ IpcTypeOK /\ BoundRolesExist /\ CountCovers /\ OwnConnection /\ ReadyMayClaim /\ WaitsOnce
      /\ HasConnected
  BY DEF IpcInv, SlotInv
<1>5. BoundRolesExist' /\ WaitsOnce'
  BY <1>2, <1>4 DEF BoundRolesExist, WaitsOnce
<1>6. ASSUME slots' \in [1..Slots -> Slot], connCount' \in 0..Slots, said' \in Nat, line' \in [Peers -> Lines]
      PROVE  IpcTypeOK'
  BY <1>1, <1>2, <1>3, <1>4, <1>6 DEF IpcTypeOK, ServesWell, Part, Slot, Lines, Stopped
<1>7. line \in [Peers -> Lines] /\ connCount \in 0..Slots /\ said \in Nat /\ slots \in [1..Slots -> Slot]
  BY <1>4 DEF IpcTypeOK, Lines, Slot
<1>8. connCount = Cardinality(Live) + said /\ Cardinality(Live) \in Nat
  BY <1>3, <1>4, LiveIsFinite, FS_CardinalityType DEF CountCovers
<1>9. CASE UNCHANGED <<slots, connCount, said, line>>
  <2>1. IpcTypeOK'
    BY <1>6, <1>7, <1>9
  <2>2. Live' = Live
    BY <1>9 DEF Live
  <2>3. CountCovers' /\ OwnConnection' /\ ReadyMayClaim' /\ HasConnected'
    BY <1>2, <1>4, <1>8, <1>9, <2>2 DEF CountCovers, OwnConnection, ReadyMayClaim, HasConnected
  <2> QED BY <1>5, <2>1, <2>3 DEF IpcInv, SlotInv
<1>10. CASE /\ i \in Live /\ slots' = [slots EXCEPT ![i] = Free]
            /\ line' = [line EXCEPT ![slots[i].peer] = "closed"]
            /\ \/ connCount' = connCount - 1 /\ said' = said
               \/ connCount' = connCount /\ said' = said + 1
  <2>1. /\ slots' \in [1..Slots -> Slot] /\ Live' = Live \ {i}
        /\ Cardinality(Live') = Cardinality(Live) - 1
        /\ \A j \in Live' : slots'[j] = slots[j]
    BY <1>4, <1>10, EndsLive
  <2>2. line' \in [Peers -> Lines] /\ \A p \in Peers : line[p] # "away" => line'[p] # "away"
    BY <1>7, <1>10 DEF Lines
  <2>3. Cardinality(Live') \in Nat
    BY <2>1, LiveIsFinite, FS_RemoveElement, FS_CardinalityType
  <2>4. connCount' \in 0..Slots /\ said' \in Nat /\ connCount' = Cardinality(Live') + said'
    <3>1. Slots \in Nat /\ connCount \in 0..Slots /\ said \in Nat
      BY <1>7, IpcAssumption
    <3>2. connCount = Cardinality(Live) + said /\ Cardinality(Live) \in Nat
      BY <1>8
    <3>3. Cardinality(Live') = Cardinality(Live) - 1 /\ Cardinality(Live') \in Nat
      BY <2>1, <2>3
    <3> DEFINE few == Cardinality(Live)
               fewer == Cardinality(Live')
    <3> HIDE DEF few, fewer
    <3>4. connCount = few + said /\ few \in Nat /\ fewer = few - 1 /\ fewer \in Nat
      BY <3>2, <3>3 DEF few, fewer
    <3>5. CASE connCount' = connCount - 1 /\ said' = said
      <4>1. connCount' \in 0..Slots /\ said' \in Nat /\ connCount' = fewer + said'
        BY <3>1, <3>4, <3>5
      <4> QED BY <4>1 DEF fewer
    <3>6. CASE connCount' = connCount /\ said' = said + 1
      <4>1. connCount' \in 0..Slots /\ said' \in Nat /\ connCount' = fewer + said'
        BY <3>1, <3>4, <3>6
      <4> QED BY <4>1 DEF fewer
    <3> QED BY <1>10, <3>5, <3>6
  <2>5. IpcTypeOK'
    BY <1>6, <2>1, <2>2, <2>4
  <2>6. CountCovers'
    BY <2>4 DEF CountCovers
  <2>7. OwnConnection' /\ ReadyMayClaim'
    BY <1>2, <1>4, <2>1 DEF OwnConnection, ReadyMayClaim
  <2>8. \A k \in DOMAIN backlog : backlog[k] \in Peers
    BY <1>4 DEF IpcTypeOK
  <2>9. HasConnected'
    BY <1>2, <1>4, <2>1, <2>2, <2>8 DEF HasConnected
  <2> QED BY <1>5, <2>5, <2>6, <2>7, <2>9 DEF IpcInv, SlotInv
<1>11. CASE /\ i \in Live /\ UNCHANGED <<connCount, said, line>>
            /\ \E d \in Ids : /\ slots[i].peer \in mayClaim[d]
                              /\ slots' = [slots EXCEPT ![i].state = "READY", ![i].id = d]
  <2>0. PICK d \in Ids : /\ slots[i].peer \in mayClaim[d]
                         /\ slots' = [slots EXCEPT ![i].state = "READY", ![i].id = d]
    BY <1>11
  <2>1. /\ slots' \in [1..Slots -> Slot] /\ Live' = Live
        /\ slots'[i].id = d /\ \A j \in 1..Slots : slots'[j].peer = slots[j].peer
        /\ \A j \in Live : j # i => slots'[j] = slots[j]
    BY <1>4, <1>11, <2>0, BecomesReady
  <2>2. IpcTypeOK'
    BY <1>6, <1>7, <1>11, <2>1
  <2>3. CountCovers'
    BY <1>8, <1>11, <2>1 DEF CountCovers
  <2>4. \A j \in Live : slots'[j].peer = slots[j].peer
    BY <2>1, LiveIsFinite
  <2>5. OwnConnection' /\ HasConnected'
    <3>1. line' = line /\ backlog' = backlog
      BY <1>2, <1>11
    <3>2. /\ \A j, k \in Live : slots[j].peer = slots[k].peer => j = k
          /\ \A j \in Live, k \in DOMAIN backlog : slots[j].peer # backlog[k]
      BY <1>4 DEF OwnConnection
    <3>3. /\ \A j, k \in Live : slots'[j].peer = slots'[k].peer => j = k
          /\ \A j \in Live, k \in DOMAIN backlog : slots'[j].peer # backlog[k]
      BY <2>4, <3>2
    <3>4. OwnConnection'
      BY <2>1, <3>1, <3>3 DEF OwnConnection
    <3>5. HasConnected'
      BY <1>4, <2>1, <2>4, <3>1 DEF HasConnected
    <3> QED BY <3>4, <3>5
  <2>6. ReadyMayClaim'
    BY <1>2, <1>4, <2>0, <2>1, <2>4 DEF ReadyMayClaim
  <2> QED BY <1>5, <2>2, <2>3, <2>5, <2>6 DEF IpcInv, SlotInv
<1> QED BY <1>1, <1>9, <1>10, <1>11 DEF ServesWell

LEMMA AcceptKeeps == IpcInv /\ Accept => IpcInv'
<1> SUFFICES ASSUME IpcInv, Accept PROVE IpcInv' OBVIOUS
<1>1. /\ IpcTypeOK /\ BoundRolesExist /\ CountCovers /\ OwnConnection /\ ReadyMayClaim /\ WaitsOnce
      /\ HasConnected
  BY DEF IpcInv, SlotInv
<1>2. /\ turn = 0 /\ turn' = (turn + 1) % (Slots + 1) /\ answered' = {}
      /\ UNCHANGED <<line, inbox, said, mayClaim, trust, role, bound>>
  BY DEF Accept, Pass, policyVars
<1>3. turn' \in 0..Slots /\ turn # Stopped
  BY <1>2, IpcAssumption DEF Stopped
<1>4. /\ backlog \in Seq(Peers) /\ slots \in [1..Slots -> Slot]
      /\ connCount \in 0..Slots /\ said \in Nat
  BY <1>1 DEF IpcTypeOK, Slot
<1>5. connCount = Cardinality(Live) + said /\ Cardinality(Live) \in Nat
  BY <1>1, <1>3, LiveIsFinite, FS_CardinalityType DEF CountCovers
<1>6. BoundRolesExist'
  BY <1>1, <1>2 DEF BoundRolesExist
<1>7. ASSUME slots' \in [1..Slots -> Slot], connCount' \in 0..Slots, backlog' \in Seq(Peers)
      PROVE  IpcTypeOK'
  BY <1>1, <1>2, <1>3, <1>7 DEF IpcTypeOK, Slot, Stopped
<1>8. CASE UNCHANGED <<backlog, slots, connCount>>
  <2>1. IpcTypeOK'
    BY <1>4, <1>7, <1>8
  <2>2. Live' = Live
    BY <1>8 DEF Live
  <2>3. CountCovers' /\ OwnConnection' /\ ReadyMayClaim' /\ WaitsOnce' /\ HasConnected'
    BY <1>1, <1>2, <1>5, <1>8, <2>2 DEF CountCovers, OwnConnection, ReadyMayClaim, WaitsOnce, HasConnected
  <2> QED BY <1>6, <2>1, <2>3 DEF IpcInv, SlotInv
<1>9. CASE connCount < Slots /\ backlog # <<>>
  <2> DEFINE p == Head(backlog)
             free == (1..Slots) \ Live
  <2>1. /\ backlog' = Tail(backlog) /\ backlog' \in Seq(Peers) /\ p \in Peers
        /\ Len(backlog') = Len(backlog) - 1 /\ Len(backlog) \in Nat \ {0} /\ p = backlog[1]
        /\ \A k \in 1..Len(backlog') : backlog'[k] = backlog[k + 1]
    <3>1. backlog' = Tail(backlog)
      BY <1>9 DEF Accept
    <3>2. Len(backlog) \in Nat \ {0} /\ Head(backlog) = backlog[1]
      BY <1>4, <1>9, EmptySeq
    <3>3. p \in Peers
      BY <1>4, <1>9, HeadTailProperties
    <3>4. /\ Tail(backlog) \in Seq(Peers) /\ Len(Tail(backlog)) = Len(backlog) - 1
          /\ \A k \in 1..Len(Tail(backlog)) : Tail(backlog)[k] = backlog[k + 1]
      BY <1>4, <1>9, HeadTailProperties
    <3> QED BY <3>1, <3>2, <3>3, <3>4
  <2>2. DOMAIN backlog = 1..Len(backlog) /\ DOMAIN backlog' = 1..Len(backlog')
    BY <1>4, <2>1
  <2>3. WaitsOnce' /\ \A k \in DOMAIN backlog' : backlog'[k] # p
    BY <1>1, <2>1, <2>2 DEF WaitsOnce
  <2>4. \A k \in DOMAIN backlog' : \E l \in DOMAIN backlog : backlog'[k] = backlog[l]
    BY <2>1, <2>2
  <2>5. Live # 1..Slots
    BY <1>4, <1>5, <1>9, IpcAssumption, FS_Interval
  <2>6. PICK i \in free : \A g \in free : i <= g
    <3>1. free \subseteq Nat
      BY IpcAssumption
    <3>2. free # {}
      BY <2>5, LiveIsFinite
    <3> HIDE DEF free
    <3> QED BY <3>1, <3>2, HasLeast
  <2> DEFINE first == CHOOSE f \in free : \A g \in free : f <= g
  <2>7. first \in free
    BY <2>6
  <2>8. /\ connCount' = connCount + 1
        /\ slots' = [slots EXCEPT ![first] = [state |-> "HANDSHAKING", peer |-> p, id |-> NoId]]
    BY <1>9, <2>5 DEF Accept
  <2> HIDE DEF first, free, p
  <2>9. /\ slots' \in [1..Slots -> Slot] /\ Live' = Live \cup {first}
        /\ Cardinality(Live') = Cardinality(Live) + 1
        /\ slots'[first].peer = p /\ slots'[first].state = "HANDSHAKING"
        /\ \A j \in Live : j # first /\ slots'[j] = slots[j]
    BY <1>1, <2>1, <2>7, <2>8, TakesFree DEF free
  <2>10. IpcTypeOK'
    <3>1. connCount' \in 0..Slots
      BY <1>4, <1>9, <2>8, IpcAssumption
    <3> QED BY <1>7, <2>1, <2>9, <3>1
  <2>11. CountCovers'
    BY <1>2, <1>4, <1>5, <2>8, <2>9 DEF CountCovers
  <2>12. \A j \in Live : slots[j].peer # p
    BY <1>1, <2>1, <2>2 DEF OwnConnection
  <2>13. OwnConnection'
    BY <1>1, <2>3, <2>4, <2>9, <2>12 DEF OwnConnection
  <2>14. ReadyMayClaim'
    BY <1>1, <1>2, <2>9 DEF ReadyMayClaim
  <2>15. HasConnected'
    BY <1>1, <1>2, <2>1, <2>2, <2>4, <2>9 DEF HasConnected
  <2> QED BY <1>6, <2>3, <2>10, <2>11, <2>13, <2>14, <2>15 DEF IpcInv, SlotInv
<1> QED BY <1>8, <1>9 DEF Accept

(* A client changes neither the slots nor the count; a peer that connects  *)
(* was away, so it has no connection and does not wait.                    *)
LEMMA ClientKeeps == IpcInv /\ Client => IpcInv'
<1> SUFFICES ASSUME IpcInv, Client PROVE IpcInv' OBVIOUS
<1>1. /\ IpcTypeOK /\ BoundRolesExist /\ CountCovers /\ OwnConnection /\ ReadyMayClaim /\ WaitsOnce
      /\ HasConnected
  BY DEF IpcInv, SlotInv
<1>2. answered' = {} /\ UNCHANGED <<turn, slots, connCount, said, mayClaim, trust, role, bound>>
  BY DEF Client, serverVars, policyVars
<1>3. Live' = Live
  BY <1>2 DEF Live
<1>4. CountCovers' /\ ReadyMayClaim' /\ BoundRolesExist'
  BY <1>1, <1>2, <1>3 DEF CountCovers, ReadyMayClaim, BoundRolesExist
<1>5. line \in [Peers -> Lines] /\ backlog \in Seq(Peers) /\ inbox \in [Peers -> Seq(Part)]
  BY <1>1 DEF IpcTypeOK, Lines, Part
<1>6. ASSUME line' \in [Peers -> Lines], backlog' \in Seq(Peers), inbox' \in [Peers -> Seq(Part)]
      PROVE  IpcTypeOK'
  BY <1>1, <1>2, <1>6 DEF IpcTypeOK, Lines, Part
<1>7. ASSUME NEW p \in Peers, Connect(p) PROVE IpcInv'
  <2>1. line[p] = "away" /\ backlog' = Append(backlog, p) /\ inbox' = inbox
    BY <1>7 DEF Connect
  <2>2. line' \in [Peers -> Lines] /\ line'[p] = "open" /\ \A q \in Peers : q # p => line'[q] = line[q]
    BY <1>5, <1>7 DEF Connect, Lines
  <2>3. /\ backlog' \in Seq(Peers) /\ Len(backlog) \in Nat /\ Len(backlog') = Len(backlog) + 1
        /\ \A k \in 1..Len(backlog) : backlog'[k] = backlog[k]
        /\ backlog'[Len(backlog) + 1] = p
    BY <1>5, <2>1, AppendProperties, LenProperties
  <2>4. DOMAIN backlog = 1..Len(backlog) /\ DOMAIN backlog' = 1..Len(backlog) + 1
    BY <1>5, <2>3, LenProperties
  <2>5. \A k \in DOMAIN backlog : backlog[k] \in Peers /\ backlog[k] # p
    BY <1>1, <1>5, <2>1, <2>4, ElementOfSeq DEF HasConnected
  <2>6. \A k \in DOMAIN backlog' :
          \/ k \in DOMAIN backlog /\ backlog'[k] = backlog[k]
          \/ k = Len(backlog) + 1 /\ backlog'[k] = p
    BY <2>3, <2>4
  <2>7. \A i \in Live : slots[i].peer \in Peers /\ slots[i].peer # p
    BY <1>1, <2>1 DEF HasConnected
  <2>8. IpcTypeOK'
    BY <1>5, <1>6, <2>1, <2>2, <2>3
  <2>9. WaitsOnce'
    BY <1>1, <2>5, <2>6 DEF WaitsOnce
  <2>10. OwnConnection'
    BY <1>1, <1>2, <1>3, <2>6, <2>7 DEF OwnConnection
  <2>11. HasConnected'
    BY <1>1, <1>2, <1>3, <2>2, <2>5, <2>6, <2>7 DEF HasConnected
  <2> QED BY <1>4, <2>8, <2>9, <2>10, <2>11 DEF IpcInv, SlotInv
<1>8. ASSUME backlog' = backlog, line' \in [Peers -> Lines], inbox' \in [Peers -> Seq(Part)],
             \A q \in Peers : line[q] # "away" => line'[q] # "away"
      PROVE  IpcInv'
  <2>1. IpcTypeOK'
    BY <1>5, <1>6, <1>8
  <2>2. OwnConnection' /\ WaitsOnce'
    BY <1>1, <1>2, <1>3, <1>8 DEF OwnConnection, WaitsOnce
  <2>3. \A k \in DOMAIN backlog : backlog[k] \in Peers
    BY <1>5
  <2>4. HasConnected'
    BY <1>1, <1>2, <1>3, <1>8, <2>3 DEF HasConnected
  <2> QED BY <1>4, <2>1, <2>2, <2>4 DEF IpcInv, SlotInv
<1>9. ASSUME NEW p \in Peers, NEW m \in Message, Send(p, m) PROVE IpcInv'
  <2>1. Append(inbox[p], m) \in Seq(Part)
    BY <1>5, AppendProperties DEF Part
  <2>2. inbox' \in [Peers -> Seq(Part)] /\ backlog' = backlog
    BY <1>5, <1>9, <2>1 DEF Send
  <2>3. line' \in [Peers -> Lines] /\ \A q \in Peers : line[q] # "away" => line'[q] # "away"
    BY <1>5, <1>9 DEF Send, Lines
  <2> QED BY <1>8, <2>2, <2>3
<1>10. ASSUME NEW p \in Peers, SendRest(p) PROVE IpcInv'
  <2>1. Append(inbox[p], Rest) \in Seq(Part)
    BY <1>5, AppendProperties DEF Part
  <2>2. inbox' \in [Peers -> Seq(Part)] /\ backlog' = backlog
    BY <1>5, <1>10, <2>1 DEF SendRest
  <2>3. line' \in [Peers -> Lines] /\ \A q \in Peers : line[q] # "away" => line'[q] # "away"
    BY <1>5, <1>10 DEF SendRest, Lines
  <2> QED BY <1>8, <2>2, <2>3
<1>11. ASSUME NEW p \in Peers, NEW how \in {"shut", "closed"}, Leave(p, how) PROVE IpcInv'
  <2>1. <<>> \in Seq(Part)
    OBVIOUS
  <2>2. inbox' \in [Peers -> Seq(Part)] /\ backlog' = backlog
    BY <1>5, <1>11, <2>1 DEF Leave
  <2>3. line' \in [Peers -> Lines] /\ \A q \in Peers : line[q] # "away" => line'[q] # "away"
    BY <1>5, <1>11 DEF Leave, Lines
  <2> QED BY <1>8, <2>2, <2>3
<1> QED BY <1>7, <1>9, <1>10, <1>11 DEF Client

(* A server that stops only frees slots, and its count says nothing more.  *)
LEMMA StopKeeps == IpcInv /\ StopServer => IpcInv'
<1> SUFFICES ASSUME IpcInv, StopServer PROVE IpcInv' OBVIOUS
<1>1. /\ IpcTypeOK /\ BoundRolesExist /\ OwnConnection /\ ReadyMayClaim /\ WaitsOnce
      /\ HasConnected
  BY DEF IpcInv, SlotInv
<1>2. /\ turn' = Stopped /\ connCount' = 0 /\ answered' = {}
      /\ slots' = [i \in 1..Slots |-> IF i <= connCount THEN Free ELSE slots[i]]
      /\ UNCHANGED <<line, backlog, inbox, said, mayClaim, trust, role, bound>>
  BY DEF StopServer, linkVars, policyVars
<1>3. slots \in [1..Slots -> Slot] /\ slots' \in [1..Slots -> Slot]
  BY <1>1, <1>2, FreeIsASlot DEF IpcTypeOK, Slot
<1>4. Live' \subseteq Live /\ \A i \in Live' : slots'[i] = slots[i]
  BY <1>2, <1>3 DEF Live, Free
<1>5. IpcTypeOK'
  BY <1>1, <1>2, <1>3, IpcAssumption DEF IpcTypeOK, Slot, Stopped
<1>6. CountCovers' /\ BoundRolesExist' /\ WaitsOnce'
  BY <1>1, <1>2 DEF CountCovers, BoundRolesExist, WaitsOnce
<1>7. OwnConnection' /\ ReadyMayClaim'
  BY <1>1, <1>2, <1>4 DEF OwnConnection, ReadyMayClaim
<1>8. HasConnected'
  BY <1>1, <1>2, <1>4 DEF HasConnected
<1> QED BY <1>5, <1>6, <1>7, <1>8 DEF IpcInv, SlotInv

(* What the core does to identities and roles touches no connection.       *)
LEMMA PolicyKeeps == IpcInv /\ Policy => IpcInv'
<1> SUFFICES ASSUME IpcInv, Policy PROVE IpcInv' OBVIOUS
<1>1. /\ IpcTypeOK /\ BoundRolesExist /\ CountCovers /\ OwnConnection /\ ReadyMayClaim /\ WaitsOnce
      /\ HasConnected
  BY DEF IpcInv, SlotInv
<1>2. answered' = {} /\ UNCHANGED <<turn, line, backlog, inbox, slots, connCount, said, mayClaim>>
  BY DEF Policy, linkVars, serverVars
<1>3. Live' = Live
  BY <1>2 DEF Live
<1>4. CountCovers' /\ OwnConnection' /\ ReadyMayClaim' /\ WaitsOnce' /\ HasConnected'
  BY <1>1, <1>2, <1>3 DEF CountCovers, OwnConnection, ReadyMayClaim, WaitsOnce, HasConnected
<1>5. /\ trust \in [Ids -> {"absent", "TRUSTED", "REVOKED"}]
      /\ role \in {"absent", "plain", "grants"} /\ bound \subseteq Ids
  BY <1>1 DEF IpcTypeOK
<1>6. ASSUME trust' \in [Ids -> {"absent", "TRUSTED", "REVOKED"}],
             role' \in {"absent", "plain", "grants"}, bound' \subseteq Ids, BoundRolesExist'
      PROVE  IpcInv'
  <2>1. IpcTypeOK'
    BY <1>1, <1>2, <1>6 DEF IpcTypeOK
  <2> QED BY <1>4, <1>6, <2>1 DEF IpcInv, SlotInv
<1>7. CASE CreateRole \/ AddPermission \/ RemovePermission
  <2>1. UNCHANGED <<trust, bound>> /\ role' \in {"plain", "grants"}
    BY <1>7 DEF CreateRole, AddPermission, RemovePermission, RoleBecomes
  <2>2. BoundRolesExist'
    BY <2>1 DEF BoundRolesExist
  <2> QED BY <1>5, <1>6, <2>1, <2>2
<1>8. CASE DestroyRole
  <2>1. bound' = {} /\ role' = "absent" /\ trust' = trust
    BY <1>8 DEF DestroyRole
  <2>2. BoundRolesExist'
    BY <2>1 DEF BoundRolesExist
  <2> QED BY <1>5, <1>6, <2>1, <2>2
<1>9. ASSUME NEW d \in Ids, RegisterIdentity(d) \/ RevokeIdentity(d) \/ RemoveIdentity(d)
      PROVE  IpcInv'
  <2>1. trust' \in [Ids -> {"absent", "TRUSTED", "REVOKED"}] /\ UNCHANGED <<role, bound>>
    BY <1>5, <1>9 DEF RegisterIdentity, RevokeIdentity, RemoveIdentity, TrustOf
  <2>2. BoundRolesExist'
    BY <1>1, <2>1 DEF BoundRolesExist
  <2> QED BY <1>5, <1>6, <2>1, <2>2
<1>10. ASSUME NEW d \in Ids, AssignRole(d) \/ RevokeRole(d) PROVE IpcInv'
  <2>1. bound' \subseteq Ids /\ UNCHANGED <<trust, role>> /\ (role # "absent" \/ bound' \subseteq bound)
    BY <1>5, <1>10 DEF AssignRole, RevokeRole
  <2>2. BoundRolesExist'
    BY <1>1, <2>1 DEF BoundRolesExist
  <2> QED BY <1>5, <1>6, <2>1, <2>2
<1> QED BY <1>7, <1>8, <1>9, <1>10 DEF Policy

LEMMA IpcInitHolds == IpcInit => IpcInv
<1> SUFFICES ASSUME IpcInit PROVE IpcInv OBVIOUS
<1>1. Live = {} /\ backlog = <<>> /\ DOMAIN backlog = {}
  BY DEF IpcInit, Live, Free
<1>2. slots \in [1..Slots -> Slot]
  BY FreeIsASlot DEF IpcInit
<1>3. <<>> \in Seq(Peers) /\ <<>> \in Seq(Part)
  OBVIOUS
<1>4. IpcTypeOK
  BY <1>2, <1>3, IpcAssumption DEF IpcInit, IpcTypeOK, Slot, Part, Stopped
<1>5. CountCovers
  BY <1>1, FS_EmptySet DEF IpcInit, CountCovers
<1>6. OwnConnection /\ ReadyMayClaim /\ WaitsOnce /\ HasConnected
  BY <1>1 DEF OwnConnection, ReadyMayClaim, WaitsOnce, HasConnected
<1>7. BoundRolesExist
  BY DEF IpcInit, BoundRolesExist
<1> QED BY <1>4, <1>5, <1>6, <1>7 DEF IpcInv, SlotInv

LEMMA IpcStepHolds == IpcInv /\ [IpcNext]_ipcVars => IpcInv'
<1> SUFFICES ASSUME IpcInv, [IpcNext]_ipcVars PROVE IpcInv' OBVIOUS
<1>1. CASE UNCHANGED ipcVars
  BY <1>1 DEF ipcVars, linkVars, serverVars, policyVars, IpcInv, SlotInv, IpcTypeOK, CountCovers,
              OwnConnection, ReadyMayClaim, WaitsOnce, HasConnected, BoundRolesExist, Live
<1>2. CASE IpcNext
  BY <1>2, ClientKeeps, AcceptKeeps, ServeKeeps, StopKeeps, PolicyKeeps DEF IpcNext
<1> QED BY <1>1, <1>2

(* For any number of clients, slots and identities: the count covers the   *)
(* connections, so who is accepted has a slot; a socket has one connection *)
(* at most; who is READY may be who it says; no role outlives itself.      *)
THEOREM IpcCorrect == IpcSpec => []IpcSafe
<1>1. IpcInv => IpcSafe
  BY DEF IpcInv, SlotInv, IpcSafe
<1> QED BY <1>1, IpcInitHolds, IpcStepHolds, PTL DEF IpcSpec

-----------------------------------------------------------------------------
(* The managers in one behaviour *)

(* The children there are have their records, and the clients their        *)
(* connections, in whatever manager a behaviour of the core moves.         *)
THEOREM ProcessesAndPeersHold == CoreSpec => []ProcessesAndPeersSafe
<1>1. CoreInit => ProcessInv /\ IpcInv
  BY ProcessInitHolds, IpcInitHolds DEF CoreInit
<1>2. ProcessInv /\ IpcInv /\ [CoreNext]_<<runtimeVars, upVars, outVars, manager>>
        => ProcessInv' /\ IpcInv'
  <2>1. [CoreNext]_<<runtimeVars, upVars, outVars, manager>>
          => [ProcessNext]_processVars /\ [IpcNext]_ipcVars
    BY Zenon DEF CoreNext, outVars
  <2> QED BY <2>1, ProcessStepHolds, IpcStepHolds
<1>3. ProcessInv /\ IpcInv => ProcessesAndPeersSafe
  BY EqualNumbers DEF ProcessesAndPeersSafe, ProcessesSafe, IpcSafe, ProcessInv, IpcInv, SlotInv
<1> QED BY <1>1, <1>2, <1>3, PTL DEF CoreSpec

-----------------------------------------------------------------------------
(* The reload manager *)

(* What StatesApart needs: a storage slot that is held was given out.      *)
SavedInUse == \A i \in InUse : reloadables[i].state <= stateUsed

SlotsFit ==
  /\ reloadables \in [1..ReloadSlots -> Component \cup {NoComponent}] /\ stateUsed \in 0..ReloadSlots
  /\ CountIsInUse /\ SavedInUse /\ StatesApart /\ InstalledWasAsked
ActiveFits ==
  /\ activeComponent = NoReload \/ activeComponent \in [name : ReloadNames, age : 0..QuiesceTimeout + 1]
  /\ WaitsOnlyForWork
ReloadInv == SlotsFit /\ ActiveFits

LEMMA NoneApart ==
  /\ \A c \in Component : c # NoComponent
  /\ \A r \in [name : ReloadNames, age : 0..QuiesceTimeout + 1] : r # NoReload
<1>1. \A c \in Component : c # NoComponent
  <2> SUFFICES ASSUME NEW c \in Component, c = NoComponent PROVE FALSE OBVIOUS
  <2>1. "" \in ReloadNames
    BY DEF Component, NoComponent
  <2> QED BY <2>1, ReloadAssumption
<1>2. \A r \in [name : ReloadNames, age : 0..QuiesceTimeout + 1] : r # NoReload
  <2> SUFFICES ASSUME NEW r \in [name : ReloadNames, age : 0..QuiesceTimeout + 1], r = NoReload
               PROVE  FALSE
    OBVIOUS
  <2>1. "" \in ReloadNames
    BY DEF NoReload
  <2> QED BY <2>1, ReloadAssumption
<1> QED BY <1>1, <1>2

LEMMA ReloadBounds == ReloadSlots \in Nat /\ QuiesceTimeout \in Nat /\ MaxWork \in Nat
<1>1. \A x \in {ReloadSlots, QuiesceTimeout, MaxWork} : x \in Nat
  BY ReloadAssumption
<1> QED BY <1>1

LEMMA FirstIs ==
  ASSUME NEW T \in SUBSET (1..ReloadSlots), T # {}
  PROVE  First(T) \in T
<1>1. T \in SUBSET Nat
  <2>1. \A x \in 1..ReloadSlots : x \in Nat
    BY ReloadBounds
  <2> QED BY <2>1
<1>2. \E x \in T : \A y \in T : x <= y
  BY <1>1, HasLeast
<1> QED BY <1>2 DEF First

(* A reloadable is replaced by what has its name and keeps to what it was  *)
(* asked for; its storage, if it changes, is new.                          *)
LEMMA Replaced ==
  ASSUME SlotsFit, NEW i \in InUse, NEW c \in Component,
         reloadables' = [reloadables EXCEPT ![i] = c],
         componentCount' = componentCount, stateUsed' \in stateUsed..ReloadSlots,
         c.state \in {0, reloadables[i].state} \/ c.state = stateUsed + 1, c.state <= stateUsed',
         c.current \in c.asked, c.pending \in c.asked \cup {NoVersion}
  PROVE  SlotsFit'
<1>1. i \in 1..ReloadSlots /\ ReloadSlots \in Nat /\ stateUsed \in 0..ReloadSlots
  BY ReloadBounds DEF InUse, SlotsFit
<1>2. /\ reloadables' \in [1..ReloadSlots -> Component \cup {NoComponent}]
      /\ reloadables'[i] = c /\ \A j \in 1..ReloadSlots : j # i => reloadables'[j] = reloadables[j]
  BY <1>1 DEF SlotsFit
<1>3. InUse' = InUse
  BY <1>1, <1>2, NoneApart DEF InUse
<1>4. \A j \in InUse : j \in 1..ReloadSlots /\ reloadables[j] \in Component
  BY DEF InUse, SlotsFit
<1>5. \A j \in InUse : reloadables[j].state \in Nat
  BY <1>1, <1>4 DEF Component
<1>6. SavedInUse'
  BY <1>1, <1>2, <1>3, <1>4, <1>5 DEF SavedInUse, SlotsFit
<1>7. StatesApart'
  BY <1>1, <1>2, <1>3, <1>4, <1>5 DEF SavedInUse, StatesApart, SlotsFit
<1>8. InstalledWasAsked'
  BY <1>2, <1>3, <1>4 DEF InstalledWasAsked, SlotsFit
<1>9. CountIsInUse'
  BY <1>3 DEF CountIsInUse, SlotsFit
<1> QED BY <1>1, <1>2, <1>6, <1>7, <1>8, <1>9 DEF SlotsFit

LEMMA CountOne ==
  ASSUME SlotsFit, NEW i \in 1..ReloadSlots
  PROVE  /\ componentCount \in Nat /\ IsFiniteSet(InUse)
         /\ i \notin InUse => Cardinality(InUse \cup {i}) = componentCount + 1
         /\ i \in InUse => Cardinality(InUse \ {i}) = componentCount - 1
<1>1. IsFiniteSet(InUse)
  <2>1. IsFiniteSet(1..ReloadSlots)
    BY ReloadBounds, FS_Interval
  <2> QED BY <2>1, FS_Subset DEF InUse
<1>2. componentCount = Cardinality(InUse) /\ Cardinality(InUse) \in Nat
  BY <1>1, FS_CardinalityType DEF SlotsFit, CountIsInUse
<1>3. i \notin InUse => Cardinality(InUse \cup {i}) = Cardinality(InUse) + 1
  BY <1>1, FS_AddElement
<1>4. i \in InUse => Cardinality(InUse \ {i}) = Cardinality(InUse) - 1
  BY <1>1, FS_RemoveElement
<1> QED BY <1>1, <1>2, <1>3, <1>4

LEMMA RegisterKeeps ==
  ASSUME SlotsFit, NEW name \in ReloadNames, NEW version \in Versions, Register(name, version)
  PROVE  SlotsFit'
<1> DEFINE c == [name |-> name, current |-> version, pending |-> NoVersion, work |-> 0,
                 state |-> 0, asked |-> {version}]
           i == First(1..ReloadSlots \ InUse)
<1>1. i \in 1..ReloadSlots /\ i \notin InUse
  <2>1. (1..ReloadSlots \ InUse) \in SUBSET (1..ReloadSlots) /\ 1..ReloadSlots \ InUse # {}
    BY DEF Register, InUse
  <2> QED BY <2>1, FirstIs
<1>2. c \in Component
  BY ReloadBounds DEF Component
<1>3. reloadables' = [reloadables EXCEPT ![i] = c] /\ stateUsed' = stateUsed
      /\ componentCount' = componentCount + 1
  BY DEF Register
<1>4. c.state = 0 /\ c.current \in c.asked /\ c.pending = NoVersion
  OBVIOUS
<1> HIDE DEF c, i
<1>5. /\ reloadables' \in [1..ReloadSlots -> Component \cup {NoComponent}]
      /\ reloadables'[i] = c /\ \A j \in 1..ReloadSlots : j # i => reloadables'[j] = reloadables[j]
  BY <1>1, <1>2, <1>3 DEF SlotsFit
<1>6. InUse' = InUse \cup {i}
  BY <1>1, <1>2, <1>5, NoneApart DEF InUse
<1>7. CountIsInUse'
  BY <1>1, <1>3, <1>6, CountOne DEF CountIsInUse
<1>8. \A j \in InUse : j \in 1..ReloadSlots /\ j # i /\ reloadables'[j] = reloadables[j]
  BY <1>1, <1>5 DEF InUse
<1>9. stateUsed \in Nat
  BY ReloadBounds DEF SlotsFit
<1>10. SavedInUse'
  BY <1>3, <1>4, <1>5, <1>6, <1>8, <1>9 DEF SavedInUse, SlotsFit
<1>11. StatesApart'
  BY <1>4, <1>5, <1>6, <1>8 DEF StatesApart, SlotsFit
<1>12. InstalledWasAsked'
  BY <1>4, <1>5, <1>6, <1>8 DEF InstalledWasAsked, SlotsFit
<1> QED BY <1>3, <1>5, <1>7, <1>10, <1>11, <1>12 DEF SlotsFit

LEMMA UnregisterKeeps ==
  ASSUME SlotsFit, NEW name \in ReloadNames, Unregister(name)
  PROVE  SlotsFit'
<1> DEFINE i == First(Known(name))
<1>1. i \in InUse /\ i \in 1..ReloadSlots
  <2>1. Known(name) \in SUBSET (1..ReloadSlots) /\ Known(name) # {}
    BY DEF Unregister, Known, InUse
  <2> QED BY <2>1, FirstIs DEF Known, InUse
<1>2. reloadables' = [reloadables EXCEPT ![i] = NoComponent] /\ stateUsed' = stateUsed
      /\ componentCount' = componentCount - 1
  BY DEF Unregister
<1> HIDE DEF i
<1>3. /\ reloadables' \in [1..ReloadSlots -> Component \cup {NoComponent}]
      /\ reloadables'[i] = NoComponent
      /\ \A j \in 1..ReloadSlots : j # i => reloadables'[j] = reloadables[j]
  BY <1>1, <1>2 DEF SlotsFit
<1>4. InUse' = InUse \ {i}
  BY <1>1, <1>3 DEF InUse
<1>5. CountIsInUse'
  BY <1>1, <1>2, <1>4, CountOne DEF CountIsInUse
<1>6. \A j \in InUse' : j \in InUse /\ reloadables'[j] = reloadables[j]
  BY <1>3, <1>4 DEF InUse
<1> QED BY <1>2, <1>3, <1>5, <1>6 DEF SlotsFit, SavedInUse, StatesApart, InstalledWasAsked

LEMMA KnownIs ==
  ASSUME SlotsFit, NEW name, Known(name) # {}
  PROVE  /\ First(Known(name)) \in InUse /\ First(Known(name)) \in 1..ReloadSlots
         /\ reloadables[First(Known(name))] \in Component
         /\ reloadables[First(Known(name))].name = name
<1>1. Known(name) \in SUBSET (1..ReloadSlots)
  BY DEF Known, InUse
<1>2. First(Known(name)) \in Known(name)
  BY <1>1, FirstIs
<1> QED BY <1>2 DEF Known, InUse, SlotsFit

LEMMA WorkKeeps ==
  ASSUME SlotsFit, NEW name \in ReloadNames, Work(name) \/ SaveState(name) \/ ClearState(name)
  PROVE  SlotsFit'
<1> DEFINE i == First(Known(name))
<1>1. i \in InUse /\ i \in 1..ReloadSlots /\ reloadables[i] \in Component
  BY KnownIs DEF Work, SaveState, ClearState
<1>2. /\ componentCount' = componentCount /\ stateUsed' \in Nat
      /\ \/ \E work \in 0..MaxWork : reloadables' = [reloadables EXCEPT ![i].work = work]
                                     /\ stateUsed' = stateUsed
         \/ reloadables' = [reloadables EXCEPT ![i].state = 0] /\ stateUsed' = stateUsed
         \/ /\ stateUsed < ReloadSlots /\ stateUsed' = stateUsed + 1
            /\ reloadables' = [reloadables EXCEPT ![i].state = stateUsed + 1]
  BY ReloadBounds DEF Work, SaveState, ClearState, SlotsFit
<1> HIDE DEF i
<1>3. /\ reloadables \in [1..ReloadSlots -> Component \cup {NoComponent}]
      /\ stateUsed \in 0..ReloadSlots /\ ReloadSlots \in Nat
      /\ reloadables[i].state \in 0..stateUsed
      /\ reloadables[i].current \in reloadables[i].asked
      /\ reloadables[i].pending \in reloadables[i].asked \cup {NoVersion}
  BY <1>1, ReloadBounds DEF SlotsFit, SavedInUse, InstalledWasAsked, Component
<1>4. ASSUME NEW work \in 0..MaxWork, reloadables' = [reloadables EXCEPT ![i].work = work],
             stateUsed' = stateUsed
      PROVE  SlotsFit'
  <2> DEFINE c == [reloadables[i] EXCEPT !.work = work]
  <2>1. c \in Component /\ c.state = reloadables[i].state /\ c.current = reloadables[i].current
        /\ c.asked = reloadables[i].asked /\ c.pending = reloadables[i].pending
    BY <1>1 DEF Component
  <2>2. reloadables' = [reloadables EXCEPT ![i] = c]
    BY <1>4
  <2> HIDE DEF c
  <2>3. /\ stateUsed' \in stateUsed..ReloadSlots /\ c.state <= stateUsed'
        /\ c.current \in c.asked /\ c.pending \in c.asked \cup {NoVersion}
        /\ c.state \in {0, reloadables[i].state}
    BY <1>3, <1>4, <2>1
  <2> QED BY <1>1, <1>2, <2>1, <2>2, <2>3, Replaced
<1>5. ASSUME NEW state \in {0, stateUsed + 1}, reloadables' = [reloadables EXCEPT ![i].state = state],
             stateUsed' \in stateUsed..ReloadSlots, state <= stateUsed'
      PROVE  SlotsFit'
  <2> DEFINE c == [reloadables[i] EXCEPT !.state = state]
  <2>0. state \in 0..ReloadSlots
    BY <1>3, <1>5
  <2>1. c \in Component /\ c.state = state /\ c.current = reloadables[i].current
        /\ c.asked = reloadables[i].asked /\ c.pending = reloadables[i].pending
    BY <1>1, <2>0 DEF Component
  <2>2. reloadables' = [reloadables EXCEPT ![i] = c]
    BY <1>5
  <2> HIDE DEF c
  <2> QED BY <1>1, <1>2, <1>3, <1>5, <2>1, <2>2, Replaced
<1> QED BY <1>2, <1>3, <1>4, <1>5

(* What a tick makes of the reloadable it found in slot i, c being what    *)
(* was there, or that with the version a request asks for.                 *)
LEMMA QuiesceKeeps ==
  ASSUME SlotsFit, NEW i \in InUse, NEW c \in Component, NEW age \in 0..QuiesceTimeout + 1,
         Quiesce([reloadables EXCEPT ![i] = c], i, age),
         componentCount' = componentCount, stateUsed' = stateUsed,
         c.state = reloadables[i].state,
         c.current \in c.asked, c.pending \in c.asked \cup {NoVersion}
  PROVE  SlotsFit' /\ ActiveFits'
<1> DEFINE cs == [reloadables EXCEPT ![i] = c]
<1>1. i \in 1..ReloadSlots /\ cs[i] = c
  BY DEF InUse, SlotsFit
<1>2. /\ stateUsed' \in stateUsed..ReloadSlots
      /\ reloadables[i].state <= stateUsed'
  BY ReloadBounds DEF SlotsFit, SavedInUse
<1>3. CASE cs[i].work > 0
  <2>1. reloadables' = [reloadables EXCEPT ![i] = c]
    BY <1>3 DEF Quiesce
  <2>2. \/ activeState' = "FAILED" /\ activeComponent' = NoReload
        \/ age \in 0..QuiesceTimeout /\ activeState' = "QUIESCING"
           /\ activeComponent' = [name |-> c.name, age |-> age]
    <3>1. age > QuiesceTimeout \/ age \in 0..QuiesceTimeout
      BY ReloadBounds
    <3> QED BY <1>1, <1>3, <3>1 DEF Quiesce
  <2>3. SlotsFit'
    BY <1>2, <2>1, Replaced
  <2>4. activeComponent' = NoReload
        \/ activeComponent' \in [name : ReloadNames, age : 0..QuiesceTimeout + 1]
    BY <2>2 DEF Component
  <2>5. WaitsOnlyForWork'
    BY <2>2, <2>4, NoneApart DEF WaitsOnlyForWork, Reloading, Component
  <2> QED BY <2>3, <2>4, <2>5 DEF ActiveFits
<1>4. CASE ~(cs[i].work > 0)
  <2> DEFINE v == IF c.pending = NoVersion THEN c.current ELSE c.pending
             d == [c EXCEPT !.current = v, !.pending = NoVersion]
  <2>1. reloadables' = [reloadables EXCEPT ![i] = d]
        /\ activeState' = "IDLE" /\ activeComponent' = NoReload
    <3>1. reloadables' = [cs EXCEPT ![i].current = IF cs[i].pending = NoVersion THEN @
                                                   ELSE cs[i].pending,
                                    ![i].pending = NoVersion]
          /\ activeState' = "IDLE" /\ activeComponent' = NoReload
      BY <1>4 DEF Quiesce
    <3> QED BY <1>1, <3>1 DEF SlotsFit
  <2>2. v \in Versions /\ v \in c.asked
    BY DEF Component
  <2>3. d \in Component /\ d.state = c.state /\ d.current = v /\ d.asked = c.asked
        /\ d.pending = NoVersion
    BY <2>2 DEF Component
  <2> HIDE DEF d, v
  <2>4. SlotsFit'
    BY <1>2, <2>1, <2>2, <2>3, Replaced
  <2> QED BY <2>1, <2>4 DEF ActiveFits, WaitsOnlyForWork, Reloading
<1> QED BY <1>3, <1>4

LEMMA RequestKeeps ==
  ASSUME ReloadInv, NEW name \in ReloadNames, NEW version \in Versions \cup {NoVersion},
         RequestReload(name, version)
  PROVE  ReloadInv'
<1> DEFINE i == First(Known(name))
           old == reloadables[i]
           c == [old EXCEPT !.pending = version, !.asked = old.asked \cup {version}]
<1>0. SlotsFit
  BY DEF ReloadInv
<1>1. i \in InUse /\ i \in 1..ReloadSlots /\ old \in Component
  BY <1>0, KnownIs DEF RequestReload
<1>2. old.current \in old.asked /\ old.pending \in old.asked \cup {NoVersion}
  BY <1>0, <1>1 DEF SlotsFit, InstalledWasAsked
<1>3. 0 \in 0..QuiesceTimeout + 1
  BY ReloadBounds
<1>4. componentCount' = componentCount /\ stateUsed' = stateUsed
  BY DEF RequestReload
<1>5. CASE version = NoVersion
  <2>1. reloadables = [reloadables EXCEPT ![i] = old]
    BY <1>0, <1>1 DEF SlotsFit
  <2>2. Quiesce([reloadables EXCEPT ![i] = old], i, 0)
    BY <1>5, <2>1 DEF RequestReload
  <2> QED BY <1>0, <1>1, <1>2, <1>3, <1>4, <2>2, QuiesceKeeps DEF ReloadInv
<1>6. CASE version # NoVersion
  <2>1. [reloadables EXCEPT ![i].pending = version, ![i].asked = @ \cup {version}]
          = [reloadables EXCEPT ![i] = c]
    BY <1>0, <1>1 DEF SlotsFit
  <2>2. Quiesce([reloadables EXCEPT ![i] = c], i, 0)
    BY <1>6, <2>1 DEF RequestReload
  <2>3. c \in Component /\ c.state = old.state
        /\ c.current \in c.asked /\ c.pending \in c.asked \cup {NoVersion}
    BY <1>1, <1>2, <1>6 DEF Component
  <2> HIDE DEF c
  <2> QED BY <1>0, <1>1, <1>3, <1>4, <2>2, <2>3, QuiesceKeeps DEF ReloadInv
<1> QED BY <1>5, <1>6

LEMMA TickKeeps == ReloadInv /\ ReloadTick => ReloadInv'
<1> SUFFICES ASSUME ReloadInv, ReloadTick PROVE ReloadInv' OBVIOUS
<1> DEFINE name == activeComponent.name
           i == First(Known(name))
<1>0. SlotsFit /\ componentCount' = componentCount /\ stateUsed' = stateUsed
      /\ activeComponent \in [name : ReloadNames, age : 0..QuiesceTimeout + 1]
  BY DEF ReloadInv, ActiveFits, ReloadTick, Reloading
<1>1. CASE Known(name) = {}
  <2>1. UNCHANGED reloadables /\ activeState' = "FAILED" /\ activeComponent' = NoReload
    BY <1>1 DEF ReloadTick
  <2> QED BY <1>0, <2>1 DEF ReloadInv, SlotsFit, ActiveFits, CountIsInUse, SavedInUse, StatesApart,
                            InstalledWasAsked, InUse, WaitsOnlyForWork, Reloading
<1>2. CASE Known(name) # {}
  <2>1. i \in InUse /\ i \in 1..ReloadSlots /\ reloadables[i] \in Component
    BY <1>0, <1>2, KnownIs
  <2>2. reloadables = [reloadables EXCEPT ![i] = reloadables[i]]
    BY <1>0, <2>1 DEF SlotsFit
  <2>3. Quiesce([reloadables EXCEPT ![i] = reloadables[i]], i, activeComponent.age)
    BY <1>2, <2>2 DEF ReloadTick
  <2>4. /\ reloadables[i].current \in reloadables[i].asked
        /\ reloadables[i].pending \in reloadables[i].asked \cup {NoVersion}
    BY <1>0, <2>1 DEF SlotsFit, InstalledWasAsked
  <2>5. activeComponent.age \in 0..QuiesceTimeout + 1
    BY <1>0
  <2> QED BY <1>0, <2>1, <2>3, <2>4, <2>5, QuiesceKeeps DEF ReloadInv
<1> QED BY <1>1, <1>2

LEMMA ReloadInitHolds == ReloadInit => ReloadInv
<1> SUFFICES ASSUME ReloadInit PROVE ReloadInv OBVIOUS
<1>1. InUse = {}
  BY DEF ReloadInit, InUse
<1>2. reloadables \in [1..ReloadSlots -> Component \cup {NoComponent}] /\ stateUsed \in 0..ReloadSlots
  BY ReloadBounds DEF ReloadInit
<1>3. CountIsInUse
  BY <1>1, FS_EmptySet DEF ReloadInit, CountIsInUse
<1> QED BY <1>1, <1>2, <1>3 DEF ReloadInit, ReloadInv, SlotsFit, ActiveFits, SavedInUse, StatesApart,
                                InstalledWasAsked, WaitsOnlyForWork, Reloading

LEMMA ReloadStepHolds == ReloadInv /\ [ReloadNext]_reloadVars => ReloadInv'
<1> SUFFICES ASSUME ReloadInv, [ReloadNext]_reloadVars PROVE ReloadInv' OBVIOUS
<1>1. SlotsFit /\ ActiveFits
  BY DEF ReloadInv
<1>2. UNCHANGED <<reloadables, componentCount, stateUsed>> => SlotsFit'
  BY <1>1 DEF SlotsFit, CountIsInUse, SavedInUse, StatesApart, InstalledWasAsked, InUse
<1>3. UNCHANGED <<activeState, activeComponent>> => ActiveFits'
  BY <1>1 DEF ActiveFits, WaitsOnlyForWork, Reloading
<1>4. CASE UNCHANGED reloadVars
  BY <1>2, <1>3, <1>4 DEF reloadVars, ReloadInv
<1>5. CASE ReloadTick
  BY <1>5, TickKeeps
<1>6. CASE CancelReload \/ RollBackReload
  BY <1>2, <1>6 DEF CancelReload, RollBackReload, ReloadInv, ActiveFits, WaitsOnlyForWork, Reloading
<1>7. CASE WaitOn
  <2>1. activeComponent \in [name : ReloadNames, age : 0..QuiesceTimeout + 1]
    BY <1>1, <1>7 DEF WaitOn, ActiveFits, Reloading
  <2>2. activeComponent' = [name |-> activeComponent.name, age |-> activeComponent.age + 1]
        /\ activeComponent.age + 1 \in 0..QuiesceTimeout + 1
    BY <1>7, <2>1, ReloadBounds DEF WaitOn
  <2>3. activeComponent' \in [name : ReloadNames, age : 0..QuiesceTimeout + 1]
    BY <2>1, <2>2
  <2>4. WaitsOnlyForWork'
    BY <1>1, <1>7, <2>3, NoneApart DEF WaitOn, ActiveFits, WaitsOnlyForWork, Reloading
  <2> QED BY <1>2, <1>7, <2>3, <2>4 DEF WaitOn, ReloadInv, ActiveFits
<1>8. ASSUME NEW name \in ReloadNames, Unregister(name) PROVE ReloadInv'
  BY <1>1, <1>3, <1>8, UnregisterKeeps DEF Unregister, ReloadInv
<1>9. ASSUME NEW name \in ReloadNames, Work(name) \/ SaveState(name) \/ ClearState(name)
      PROVE  ReloadInv'
  BY <1>1, <1>3, <1>9, WorkKeeps DEF Work, SaveState, ClearState, ReloadInv
<1>10. ASSUME NEW name \in ReloadNames, NEW version \in Versions, Register(name, version)
       PROVE  ReloadInv'
  BY <1>1, <1>3, <1>10, RegisterKeeps DEF Register, ReloadInv
<1>11. ASSUME NEW name \in ReloadNames, NEW version \in Versions \cup {NoVersion},
              RequestReload(name, version)
       PROVE  ReloadInv'
  BY <1>11, RequestKeeps
<1> QED BY <1>4, <1>5, <1>6, <1>7, <1>8, <1>9, <1>10, <1>11 DEF ReloadNext

(* However reloadables come and go, whatever is saved, requested, cancelled*)
(* or timed out in between: no two of them share storage, and none runs a  *)
(* version it was not asked to run.                                        *)
THEOREM ReloadsHold == CoreSpec => []ReloadsSafe
<1>1. CoreInit => ReloadInv
  BY ReloadInitHolds DEF CoreInit
<1>2. ReloadInv /\ [CoreNext]_<<runtimeVars, upVars, outVars, manager>> => ReloadInv'
  <2>1. [CoreNext]_<<runtimeVars, upVars, outVars, manager>> => [ReloadNext]_reloadVars
    BY Zenon DEF CoreNext, upVars
  <2> QED BY <2>1, ReloadStepHolds
<1>3. ReloadInv => ReloadsSafe
  BY DEF ReloadInv, SlotsFit, ActiveFits, ReloadsSafe, ReloadTypeOK
<1> QED BY <1>1, <1>2, <1>3, PTL DEF CoreSpec

-----------------------------------------------------------------------------
(* The coordinator of startup and shutdown *)

CompStates == {"CREATED", "INITIALIZED", "STARTED", "STOPPED", "FAILED", "DISABLED"}
Comp == [phase : 0..LastPhase, criticality : Criticalities, state : CompStates,
         holds : {"none", "open", "running"}]

(* A component that was brought up holds something; one that was disabled  *)
(* is not required, and holds nothing, unless it was opened while open.    *)
Honest(c) ==
  /\ c.state \in Brought => c.holds # "none"
  /\ c.state = "STARTED" => c.holds = "running"
  /\ c.state = "DISABLED" => c.criticality # "REQUIRED"
Released(c) == c.state = "DISABLED" => c.holds = "none"

CompsFit ==
  /\ components \in Seq(Comp) /\ Len(components) <= MaxComponents /\ tangled \in BOOLEAN
  /\ \A i \in 1..Len(components) :
       Honest(components[i]) /\ (~tangled => Released(components[i]))

(* A startup that is under way in a coordinator that is not STARTING goes  *)
(* on after its own shutdown.                                              *)
Working ==
  /\ lcState \in {"CREATED", "STARTING", "RUNNING", "STOPPED", "FAILED"}
  /\ \/ startup = Idle /\ lcState # "STARTING"
     \/ /\ startup \in [loop : {"init", "start"}, at : 1..MaxComponents + 1]
        /\ lcState = "STARTING" \/ (lcState = "STOPPED" /\ tangled)

(* The order the init loop goes along.                                     *)
OrderFits ==
  startup.loop = "init" =>
    /\ initOrder \in Seq(1..Len(components)) /\ Len(initOrder) <= Len(components)
    /\ startup.at <= Len(initOrder) + 1
    /\ \A j, k \in 1..Len(initOrder) : initOrder[j] = initOrder[k] => j = k
    /\ InPhases(initOrder)

Needed(i) == components[i].criticality = "REQUIRED"

(* What the loops have done so far, if nobody asked for a shutdown: what   *)
(* the first one has come past is initialized, what is not in its order was*)
(* up before; what the second one has come past is started.                *)
Progress ==
  lcState = "STARTING" =>
    /\ startup.loop = "init" =>
         /\ \A k \in 1..Len(initOrder) : k < startup.at /\ Needed(initOrder[k]) =>
              components[initOrder[k]].state \in Brought
         /\ \A i \in 1..Len(components) : Needed(i) /\ components[i].state \notin Brought =>
              \E k \in 1..Len(initOrder) : initOrder[k] = i
    /\ startup.loop = "start" =>
         \A i \in 1..Len(components) : Needed(i) =>
           /\ components[i].state \in Brought
           /\ i < startup.at => components[i].state = "STARTED"

CoordinatorInv ==
  CompsFit /\ Working /\ OrderFits /\ Progress /\ RunningIsReady /\ StoppedIsReleased

LEMMA CompsOf ==
  ASSUME CompsFit
  PROVE  /\ Len(components) \in Nat /\ Registry = 1..Len(components)
         /\ \A i \in 1..Len(components) : components[i] \in Comp
  BY DEF CompsFit, Registry

LEMMA FoundedHolds == CoordinatorInv => FoundedOnRequired
<1> SUFFICES ASSUME CoordinatorInv, lcState = "STARTING", NEW k \in 1..Len(initOrder),
                    startup.loop = "start" \/ k < startup.at,
                    components[initOrder[k]].state \in Brought, NEW i \in Registry,
                    Needed(i), components[i].phase < components[initOrder[k]].phase
             PROVE  components[i].state \in Brought /\ components[i].holds # "none"
  BY DEF FoundedOnRequired, Needed
<1>1. CompsFit /\ Working /\ OrderFits /\ Progress
  BY DEF CoordinatorInv
<1>2. i \in 1..Len(components) /\ Honest(components[i]) /\ components[i] \in Comp
  BY <1>1, CompsOf DEF CompsFit
<1>3. components[i].state \in Brought
  <2>1. CASE startup.loop = "start"
    BY <1>1, <1>2, <2>1 DEF Progress
  <2>2. CASE startup.loop = "init" /\ k < startup.at
    <3>1. SUFFICES ASSUME components[i].state \notin Brought PROVE FALSE OBVIOUS
    <3>2. PICK j \in 1..Len(initOrder) : initOrder[j] = i
      BY <1>1, <1>2, <2>2, <3>1 DEF Progress
    <3>3. ~(j < startup.at)
      BY <1>1, <2>2, <3>1, <3>2 DEF Progress
    <3>4. startup.at \in Nat /\ j \in Nat /\ k \in Nat /\ j > k
      BY <1>1, <2>2, <3>2, <3>3, CoordinatorAssumption DEF Working, Idle
    <3>5. DOMAIN initOrder = 1..Len(initOrder) /\ initOrder[k] \in 1..Len(components)
      BY <1>1, <2>2 DEF OrderFits
    <3>6. components[initOrder[k]].phase <= components[i].phase
      <4>1. components[initOrder[k]].phase \in Int /\ components[i].phase \in Int
        BY <1>1, <1>2, <3>5, CompsOf, CoordinatorAssumption DEF Comp
      <4> QED BY <1>1, <2>2, <3>2, <3>4, <3>5, <4>1, SMTT(30) DEF OrderFits, InPhases
    <3> QED
      BY <1>1, <1>2, <3>5, <3>6, CompsOf, CoordinatorAssumption DEF Comp
  <2> QED BY <1>1, <2>1, <2>2 DEF Working, Idle
<1> QED BY <1>2, <1>3 DEF Honest

(* What a shutdown makes of one component.                                 *)
Shut(c) ==
  [phase |-> c.phase, criticality |-> c.criticality,
   state |-> IF c.state \in Brought THEN "STOPPED" ELSE c.state,
   holds |-> IF c.state = "DISABLED" THEN c.holds ELSE "none"]

LEMMA ShutOne ==
  ASSUME NEW c \in Comp, Honest(c)
  PROVE  /\ Shut(c) \in Comp /\ Shut(c).phase = c.phase /\ Shut(c).criticality = c.criticality
         /\ Honest(Shut(c))
         /\ Released(c) => Released(Shut(c)) /\ Shut(c).holds = "none"
<1>1. /\ Shut(c).phase = c.phase /\ Shut(c).criticality = c.criticality
      /\ Shut(c).state = IF c.state \in Brought THEN "STOPPED" ELSE c.state
      /\ Shut(c).holds = IF c.state = "DISABLED" THEN c.holds ELSE "none"
  BY DEF Shut
<1>2. Shut(c) \in Comp
  BY DEF Comp, Shut, CompStates
<1>3. Honest(Shut(c))
  BY <1>1, Honest(c) DEF Honest, Brought
<1>4. Released(c) => Released(Shut(c)) /\ Shut(c).holds = "none"
  BY <1>1 DEF Released, Brought
<1> QED BY <1>1, <1>2, <1>3, <1>4

LEMMA ShutAll ==
  ASSUME CompsFit, NEW j \in 1..Len(components)
  PROVE  ShutDown(components)[j] = Shut(components[j])
<1> DEFINE c == components[j]
<1>1. c \in Comp /\ DOMAIN components = 1..Len(components)
  BY CompsOf DEF CompsFit
<1>2. ShutDown(components)[j]
        = [c EXCEPT !.state = IF c.state \in Brought THEN "STOPPED" ELSE c.state,
                    !.holds = IF c.state = "DISABLED" THEN c.holds ELSE "none"]
  BY <1>1 DEF ShutDown, Closed
<1> QED BY <1>1, <1>2 DEF Comp, Shut

(* What became of the component whose callback ran, in place i: it is busy *)
(* still, with what it held or, after a shutdown, nothing.  The others are *)
(* as they were, or as the shutdown left them.                             *)
Became(c, state, holds) ==
  [phase |-> c.phase, criticality |-> c.criticality, state |-> state, holds |-> holds]
AsBefore(cs, i, busy) ==
  /\ DOMAIN cs = 1..Len(components)
  /\ cs[i] = Became(components[i], busy, components[i].holds)
  /\ \A j \in 1..Len(components) : j # i => cs[j] = components[j]
AsShut(cs, i, busy) ==
  /\ DOMAIN cs = 1..Len(components)
  /\ cs[i] = Became(components[i], busy, "none")
  /\ \A j \in 1..Len(components) : j # i => cs[j] = Shut(components[j])

With(c, state, holds) == [c EXCEPT !.state = state, !.holds = holds]

LEMMA Becoming ==
  ASSUME NEW c, NEW s, NEW h, NEW t, NEW k, c = Became(c, s, h)
  PROVE  With(c, t, k) = Became(c, t, k)
<1> DEFINE d == [c EXCEPT !.state = t]
<1>1. d = Became(c, t, h)
  BY DEF Became
<1> HIDE DEF d
<1>2. [d EXCEPT !.holds = k] = Became(c, t, k)
  BY <1>1 DEF Became
<1> QED BY <1>2 DEF d, With

LEMMA CompsSeq ==
  ASSUME NEW n \in Nat, NEW s, s = [j \in 1..n |-> s[j]], \A j \in 1..n : s[j] \in Comp
  PROVE  s \in Seq(Comp) /\ Len(s) = n
  OBVIOUS

LEMMA CallbackLeaves ==
  ASSUME CompsFit, NEW i \in 1..Len(components), NEW busy \in {"INITIALIZING", "STARTING"}
  PROVE  LET began == [components EXCEPT ![i].state = busy]
         IN AsBefore(began, i, busy) /\ AsShut(ShutDown(began), i, busy)
<1> DEFINE began == [components EXCEPT ![i].state = busy]
           c == components[i]
           b == Became(c, busy, c.holds)
<1>1. /\ Len(components) \in Nat /\ DOMAIN components = 1..Len(components)
      /\ \A j \in 1..Len(components) : components[j] \in Comp
  BY CompsOf DEF CompsFit
<1>2. /\ DOMAIN began = 1..Len(components) /\ began[i] = b
      /\ \A j \in 1..Len(components) : j # i => began[j] = components[j]
  BY <1>1 DEF Comp, Became
<1>3. DOMAIN ShutDown(began) = 1..Len(components)
  BY <1>2 DEF ShutDown
<1>4. ShutDown(began)[i] = Became(c, busy, "none")
  <2>1. ShutDown(began)[i] = [b EXCEPT !.state = IF b.state \in Brought THEN "STOPPED" ELSE b.state,
                                       !.holds = IF b.state = "DISABLED" THEN b.holds ELSE "none"]
    BY <1>2 DEF ShutDown, Closed
  <2>2. b.state = busy /\ busy \notin Brought /\ busy # "DISABLED"
    BY DEF Brought, Became
  <2> QED BY <2>1, <2>2 DEF Became
<1>5. ASSUME NEW j \in 1..Len(components), j # i
      PROVE  ShutDown(began)[j] = Shut(components[j])
  <2>1. ShutDown(began)[j] = ShutDown(components)[j]
    BY <1>1, <1>2, <1>5 DEF ShutDown
  <2> QED BY <2>1, ShutAll
<1> QED BY <1>2, <1>3, <1>4, <1>5 DEF AsBefore, AsShut

(* The component gets its result; the others, whether they were shut down  *)
(* or not, are honest.                                                     *)
Finished(cs, i, result, h) == [cs EXCEPT ![i].state = result, ![i].holds = h]

LEMMA CallbackDone ==
  ASSUME CompsFit, NEW i \in 1..Len(components), NEW busy \in {"INITIALIZING", "STARTING"},
         NEW cs, AsBefore(cs, i, busy) \/ AsShut(cs, i, busy),
         NEW result \in CompStates, NEW h \in {"none", "open", "running"}
  PROVE  LET done == Finished(cs, i, result, h)
         IN /\ done \in Seq(Comp) /\ Len(done) = Len(components)
            /\ done[i] = Became(components[i], result, h)
            /\ \A j \in 1..Len(components) : j # i =>
                 /\ done[j] = cs[j] /\ Honest(done[j])
                 /\ ~tangled => Released(done[j])
<1> DEFINE c == components[i]
           done == Finished(cs, i, result, h)
<1>1. /\ Len(components) \in Nat /\ DOMAIN cs = 1..Len(components)
      /\ \A j \in 1..Len(components) : components[j] \in Comp
  BY CompsOf DEF AsBefore, AsShut
<1>2. [cs[i] EXCEPT !.state = result, !.holds = h] = Became(c, result, h)
  <2>1. PICK k : cs[i] = Became(c, busy, k)
    BY DEF AsBefore, AsShut
  <2>2. cs[i] = Became(cs[i], busy, k)
    BY <2>1 DEF Became
  <2>3. With(cs[i], result, h) = Became(cs[i], result, h)
    BY <2>2, Becoming
  <2>4. Became(cs[i], result, h) = Became(c, result, h)
    BY <2>1 DEF Became
  <2> QED BY <2>3, <2>4 DEF With
<1>3. done = [cs EXCEPT ![i] = Became(c, result, h)]
  <2>1. done = [cs EXCEPT ![i] = [cs[i] EXCEPT !.state = result, !.holds = h]]
    BY <1>1 DEF Finished
  <2> QED BY <1>2, <2>1
<1> HIDE DEF done
<1>4. /\ DOMAIN done = 1..Len(components) /\ done[i] = Became(c, result, h)
      /\ \A j \in 1..Len(components) : j # i => done[j] = cs[j]
  BY <1>1, <1>3
<1>5. ASSUME NEW j \in 1..Len(components), j # i
      PROVE  done[j] \in Comp /\ Honest(done[j]) /\ (~tangled => Released(done[j]))
  <2>1. done[j] \in {components[j], Shut(components[j])}
    BY <1>4, <1>5 DEF AsBefore, AsShut
  <2> QED BY <1>1, <2>1, ShutOne DEF CompsFit
<1>6. Became(c, result, h) \in Comp
  BY <1>1 DEF Comp, Became
<1>7. done \in Seq(Comp) /\ Len(done) = Len(components)
  <2>1. done = [j \in 1..Len(components) |-> done[j]]
    BY <1>1, <1>3, <1>4
  <2>2. \A j \in 1..Len(components) : done[j] \in Comp
    BY <1>4, <1>5, <1>6
  <2> QED BY <1>1, <2>1, <2>2, CompsSeq
<1> QED BY <1>4, <1>5, <1>7 DEF done

(* The rollback halts or closes what was brought up, or leaves it alone.   *)
LEMMA RollbackDone ==
  ASSUME NEW cs \in Seq(Comp), NEW at, \A j \in 1..Len(cs) : Honest(cs[j])
  PROVE  /\ Rollback(cs, at) \in Seq(Comp) /\ Len(Rollback(cs, at)) = Len(cs)
         /\ \A j \in 1..Len(cs) :
              /\ Honest(Rollback(cs, at)[j])
              /\ Released(cs[j]) => Released(Rollback(cs, at)[j])
<1> DEFINE back == Rollback(cs, at)
<1>1. Len(cs) \in Nat /\ DOMAIN cs = 1..Len(cs) /\ \A j \in 1..Len(cs) : cs[j] \in Comp
  OBVIOUS
<1>2. back = [j \in 1..Len(cs) |-> back[j]]
  BY <1>1 DEF Rollback
<1>3. ASSUME NEW j \in 1..Len(cs)
      PROVE  back[j] \in {cs[j], Became(cs[j], "STOPPED", Halted(cs[j].holds)),
                          Became(cs[j], "STOPPED", Closed(cs[j].holds))}
  <2>1. \/ back[j] = cs[j]
        \/ back[j] = With(cs[j], "STOPPED", Halted(cs[j].holds))
        \/ back[j] = With(cs[j], "STOPPED", Closed(cs[j].holds))
    BY <1>1 DEF Rollback, With
  <2>2. cs[j] = Became(cs[j], cs[j].state, cs[j].holds)
    BY <1>1 DEF Comp, Became
  <2>3. \A h : With(cs[j], "STOPPED", h) = Became(cs[j], "STOPPED", h)
    BY <2>2, Becoming
  <2> QED BY <2>1, <2>3
<1>4. ASSUME NEW j \in 1..Len(cs)
      PROVE  back[j] \in Comp /\ Honest(back[j]) /\ (Released(cs[j]) => Released(back[j]))
  <2>1. \A h \in {Halted(cs[j].holds), Closed(cs[j].holds)} :
          /\ Became(cs[j], "STOPPED", h) \in Comp
          /\ Honest(Became(cs[j], "STOPPED", h)) /\ Released(Became(cs[j], "STOPPED", h))
    BY <1>1 DEF Comp, CompStates, Honest, Released, Brought, Halted, Closed, Became
  <2> QED BY <1>1, <1>3, <2>1
<1> HIDE DEF back
<1>5. back \in Seq(Comp) /\ Len(back) = Len(cs)
  BY <1>1, <1>2, <1>4, CompsSeq
<1> QED BY <1>4, <1>5 DEF back

(* The order of a startup is about phases, which no callback changes.      *)
SamePhases ==
  /\ Len(components') = Len(components)
  /\ \A j \in 1..Len(components) :
       /\ components'[j].phase = components[j].phase
       /\ components'[j].criticality = components[j].criticality

LEMMA OrderKept ==
  ASSUME CompsFit, OrderFits, SamePhases, initOrder' = initOrder, startup.loop = "init",
         startup'.at <= Len(initOrder) + 1
  PROVE  OrderFits'
<1>1. \A k \in 1..Len(initOrder) : initOrder[k] \in 1..Len(components)
  BY DEF OrderFits
<1>2. DOMAIN initOrder = 1..Len(initOrder)
  BY DEF OrderFits
<1>3. InPhases(initOrder)'
  BY <1>1, <1>2 DEF OrderFits, SamePhases, InPhases
<1> QED BY <1>3 DEF OrderFits, SamePhases

LEMMA ShutPhases ==
  ASSUME CompsFit, NEW i \in 1..Len(components), NEW cs, NEW busy,
         AsBefore(cs, i, busy) \/ AsShut(cs, i, busy),
         Len(components') = Len(components),
         components'[i].phase = components[i].phase,
         components'[i].criticality = components[i].criticality,
         \A j \in 1..Len(components) : j # i => components'[j] = cs[j]
  PROVE  SamePhases
<1>1. \A j \in 1..Len(components) : j # i =>
        components'[j] \in {components[j], Shut(components[j])}
  BY DEF AsBefore, AsShut
<1> QED BY <1>1 DEF SamePhases, Shut

(* A step that leaves the coordinator neither starting nor running.        *)
LEMMA EndsOrGoesOn ==
  ASSUME CompsFit', Working', OrderFits', lcState' \in {"STOPPED", "FAILED"},
         (lcState' = "STOPPED") => (tangled' = TRUE)
  PROVE  CoordinatorInv'
  BY DEF CoordinatorInv, Progress, RunningIsReady, StoppedIsReleased

LEMMA InitKeeps ==
  ASSUME CoordinatorInv, NEW asks \in BOOLEAN, NEW ok \in BOOLEAN, InitComponent(asks, ok)
  PROVE  CoordinatorInv'
<1> DEFINE i == initOrder[startup.at]
           began == [components EXCEPT ![i].state = "INITIALIZING"]
           cs == Asked(asks, began)
           critical == ~ok /\ components[i].criticality = "REQUIRED"
           result == IF ok THEN "INITIALIZED"
                     ELSE IF components[i].criticality = "OPTIONAL" THEN "DISABLED" ELSE "FAILED"
           h == IF ok THEN "open" ELSE cs[i].holds
           done == Finished(cs, i, result, h)
<1>1. CompsFit /\ Working /\ OrderFits /\ Progress
  BY DEF CoordinatorInv
<1>2. /\ startup.loop = "init" /\ startup.at <= Len(initOrder)
      /\ components' = (IF critical THEN Rollback(done, startup.at) ELSE done)
      /\ lcState' = (IF critical THEN Failed(StateAsked(asks)) ELSE StateAsked(asks))
      /\ startup' = (IF critical THEN Idle ELSE [startup EXCEPT !.at = @ + 1])
      /\ tangled' = (tangled \/ asks \/ components[i].holds # "none")
      /\ initOrder' = initOrder
  BY DEF InitComponent, Finished
<1>3. startup.at \in 1..Len(initOrder) /\ i \in 1..Len(components)
      /\ startup.at \in Nat /\ startup.at + 1 \in 1..MaxComponents + 1
  BY <1>1, <1>2, CoordinatorAssumption, CompsOf DEF Working, OrderFits, Idle, CompsFit
<1>4. components[i] \in Comp /\ Honest(components[i]) /\ (~tangled => Released(components[i]))
  BY <1>1, <1>3, CompsOf DEF CompsFit
<1>5. AsBefore(cs, i, "INITIALIZING") \/ (asks /\ AsShut(cs, i, "INITIALIZING"))
  <2> HIDE DEF i
  <2>1. AsBefore(began, i, "INITIALIZING") /\ AsShut(ShutDown(began), i, "INITIALIZING")
    BY <1>1, <1>3, CallbackLeaves
  <2>2. cs = began \/ (asks /\ cs = ShutDown(began))
    BY DEF Asked
  <2> HIDE DEF began, cs
  <2> QED BY <2>1, <2>2
<1>6. h \in {"none", "open", "running"} /\ (ok => h = "open")
      /\ (~ok => h \in {"none", components[i].holds})
  <2>1. cs[i].holds \in {"none", components[i].holds}
    <3> HIDE DEF cs, i
    <3> QED BY <1>5 DEF AsBefore, AsShut, Became
  <2> QED BY <1>4, <2>1 DEF Comp
<1>7. result \in CompStates /\ (ok => result = "INITIALIZED")
      /\ (~ok => result \in {"DISABLED", "FAILED"})
      /\ (result = "DISABLED" => components[i].criticality # "REQUIRED")
  BY DEF CompStates
<1> DEFINE c == Became(components[i], result, h)
<1>8. /\ done \in Seq(Comp) /\ Len(done) = Len(components) /\ done[i] = c
      /\ \A j \in 1..Len(components) : j # i =>
           done[j] = cs[j] /\ Honest(done[j]) /\ (~tangled => Released(done[j]))
  <2> HIDE DEF i, cs, result, h
  <2>1. AsBefore(cs, i, "INITIALIZING") \/ AsShut(cs, i, "INITIALIZING")
    BY <1>5
  <2>2. /\ done \in Seq(Comp) /\ Len(done) = Len(components)
        /\ done[i] = Became(components[i], result, h)
    BY <1>1, <1>3, <1>6, <1>7, <2>1, CallbackDone
  <2>3. \A j \in 1..Len(components) : j # i =>
          done[j] = cs[j] /\ Honest(done[j]) /\ (~tangled => Released(done[j]))
    BY <1>1, <1>3, <1>6, <1>7, <2>1, CallbackDone
  <2> QED BY <2>2, <2>3
<1>9. Honest(c) /\ (~tangled' => Released(c))
  <2>1. c.state = result /\ c.holds = h /\ c.criticality = components[i].criticality
    BY DEF Became
  <2>2. CASE ok
    BY <1>6, <1>7, <2>1, <2>2 DEF Honest, Released, Brought
  <2>3. CASE ~ok
    BY <1>2, <1>6, <1>7, <2>1, <2>3 DEF Honest, Released, Brought
  <2> QED BY <2>2, <2>3
<1> HIDE DEF i, cs, result, h, done, c
<1>10. CompsFit'
  <2>1. /\ done \in Seq(Comp) /\ Len(done) = Len(components)
        /\ \A j \in 1..Len(done) : Honest(done[j]) /\ (~tangled' => Released(done[j]))
    BY <1>2, <1>8, <1>9
  <2>2. tangled' \in BOOLEAN
    BY <1>2
  <2>3. Len(components) <= MaxComponents
    BY <1>1 DEF CompsFit
  <2>4. CASE critical
    <3>1. components' = Rollback(done, startup.at)
      BY <1>2, <2>4
    <3>2. /\ components' \in Seq(Comp) /\ Len(components') = Len(done)
          /\ \A j \in 1..Len(done) :
               Honest(components'[j]) /\ (Released(done[j]) => Released(components'[j]))
      BY <2>1, <3>1, RollbackDone
    <3> QED BY <2>1, <2>2, <2>3, <3>2 DEF CompsFit
  <2>5. CASE ~critical
    BY <1>2, <2>1, <2>2, <2>3, <2>5 DEF CompsFit
  <2> QED BY <2>4, <2>5
<1>11. lcState \in {"STARTING", "STOPPED"} /\ (lcState = "STOPPED" => tangled)
  BY <1>1, <1>2 DEF Working, Idle
<1>12. CASE critical
  <2>1. startup' = Idle /\ lcState' = Failed(StateAsked(asks))
    BY <1>2, <1>12
  <2>2. lcState' \in {"STOPPED", "FAILED"} /\ (lcState' = "STOPPED" => tangled')
    BY <1>2, <1>11, <2>1 DEF Failed, StateAsked
  <2>3. Working' /\ OrderFits'
    BY <2>1, <2>2 DEF Working, OrderFits, Idle
  <2> QED BY <1>10, <2>2, <2>3, EndsOrGoesOn
<1>13. CASE ~critical
  <2>1. components' = done /\ lcState' = StateAsked(asks)
        /\ startup' = [startup EXCEPT !.at = startup.at + 1]
    BY <1>2, <1>13
  <2>2. startup \in [loop : {"init", "start"}, at : 1..MaxComponents + 1]
    BY <1>1, <1>2 DEF Working, Idle
  <2>3. startup' \in [loop : {"init", "start"}, at : 1..MaxComponents + 1]
        /\ startup'.loop = "init" /\ startup'.at = startup.at + 1
    BY <1>2, <1>3, <2>1, <2>2
  <2>4. Working'
    BY <1>2, <1>11, <2>1, <2>3 DEF Working, StateAsked
  <2>5. SamePhases
    <3>1. c.phase = components[i].phase /\ c.criticality = components[i].criticality
      BY DEF c, Became
    <3> QED BY <1>1, <1>3, <1>5, <1>8, <2>1, <3>1, ShutPhases
  <2>6. OrderFits'
    <3>1. startup'.at <= Len(initOrder) + 1
      <4>1. Len(initOrder) \in Nat
        BY <1>1, <1>2 DEF OrderFits
      <4> QED BY <1>2, <1>3, <2>3, <4>1
    <3> QED BY <1>1, <1>2, <2>5, <3>1, OrderKept
  <2>7. CASE lcState' = "STOPPED"
    BY <1>2, <1>10, <1>11, <2>1, <2>4, <2>6, <2>7, EndsOrGoesOn DEF StateAsked
  <2>8. CASE lcState' # "STOPPED"
    <3>1. lcState' = "STARTING" /\ lcState = "STARTING" /\ ~asks
      BY <1>11, <2>1, <2>8 DEF StateAsked
    <3>2. /\ \A j \in 1..Len(components) : j # i => components'[j] = components[j]
          /\ components'[i] = c /\ c.state = result
          /\ Len(components') = Len(components)
      BY <1>5, <1>8, <2>1, <3>1 DEF AsBefore, c, Became
    <3>3. Needed(i) => result \in Brought
      BY <1>7, <1>13 DEF Needed, Brought
    <3>4. \A j \in 1..Len(components) : Needed(j)' <=> Needed(j)
      BY <2>5 DEF SamePhases, Needed
    <3>5. /\ \A k \in 1..Len(initOrder) : initOrder[k] \in 1..Len(components)
          /\ initOrder[startup.at] = i /\ startup.at \in 1..Len(initOrder)
          /\ \A k \in 1..Len(initOrder) : initOrder[k] = i => k = startup.at
      BY <1>1, <1>2, <1>3, SMTT(30) DEF OrderFits, i
    <3>6. \A k \in 1..Len(initOrder) : k < startup'.at /\ Needed(initOrder[k])' =>
            components'[initOrder[k]].state \in Brought
      <4> SUFFICES ASSUME NEW k \in 1..Len(initOrder), k < startup'.at, Needed(initOrder[k])'
                   PROVE  components'[initOrder[k]].state \in Brought
        OBVIOUS
      <4>1. Needed(initOrder[k])
        BY <1>2, <3>4, <3>5 DEF Needed
      <4>2. CASE k = startup.at
        BY <3>2, <3>3, <3>5, <4>1, <4>2
      <4>3. CASE k # startup.at
        <5>1. k < startup.at
          BY <1>3, <2>3, <4>3
        <5>2. components[initOrder[k]].state \in Brought
          BY <1>1, <1>2, <3>1, <4>1, <5>1 DEF Progress
        <5> QED BY <3>2, <3>5, <4>3, <5>2
      <4> QED BY <4>2, <4>3
    <3>7. \A j \in 1..Len(components) : Needed(j)' /\ components'[j].state \notin Brought =>
            \E k \in 1..Len(initOrder) : initOrder[k] = j
      BY <1>1, <1>2, <3>1, <3>2, <3>4, <3>5 DEF Progress
    <3>8. Progress'
      BY <1>2, <2>3, <3>1, <3>2, <3>6, <3>7 DEF Progress, Needed
    <3>9. RunningIsReady' /\ StoppedIsReleased'
      BY <3>1 DEF RunningIsReady, StoppedIsReleased
    <3> QED BY <1>10, <2>4, <2>6, <3>8, <3>9 DEF CoordinatorInv
  <2> QED BY <2>7, <2>8
<1> QED BY <1>12, <1>13

LEMMA StartKeeps ==
  ASSUME CoordinatorInv, NEW asks \in BOOLEAN, NEW ok \in BOOLEAN, StartComponent(asks, ok)
  PROVE  CoordinatorInv'
<1> DEFINE i == startup.at
           began == [components EXCEPT ![i].state = "STARTING"]
           cs == Asked(asks, began)
           critical == ~ok /\ components[i].criticality = "REQUIRED"
           result == IF ok THEN "STARTED" ELSE "FAILED"
           h == IF ok THEN "running" ELSE cs[i].holds
           done == Finished(cs, i, result, h)
           c == Became(components[i], result, h)
<1>1. CompsFit /\ Working /\ Progress
  BY DEF CoordinatorInv
<1>2. /\ startup.loop = "start" /\ i <= Len(components) /\ components[i].state = "INITIALIZED"
      /\ components' = done
      /\ lcState' = (IF critical THEN Failed(StateAsked(asks)) ELSE StateAsked(asks))
      /\ startup' = (IF critical THEN Idle ELSE [startup EXCEPT !.at = i + 1])
      /\ tangled' = (tangled \/ asks)
  BY DEF StartComponent, Finished
<1>3. startup \in [loop : {"init", "start"}, at : 1..MaxComponents + 1]
      /\ i \in 1..Len(components) /\ i \in Nat /\ i + 1 \in 1..MaxComponents + 1
  BY <1>1, <1>2, CoordinatorAssumption, CompsOf DEF Working, Idle, CompsFit
<1>4. components[i] \in Comp /\ Honest(components[i])
  BY <1>1, <1>3, CompsOf DEF CompsFit
<1>5. AsBefore(cs, i, "STARTING") \/ (asks /\ AsShut(cs, i, "STARTING"))
  <2> HIDE DEF i
  <2>1. AsBefore(began, i, "STARTING") /\ AsShut(ShutDown(began), i, "STARTING")
    BY <1>1, <1>3, CallbackLeaves
  <2>2. cs = began \/ (asks /\ cs = ShutDown(began))
    BY DEF Asked
  <2> HIDE DEF began, cs
  <2> QED BY <2>1, <2>2
<1>6. h \in {"none", "open", "running"} /\ (ok => h = "running")
  <2>1. cs[i].holds \in {"none", components[i].holds}
    <3> HIDE DEF cs, i
    <3> QED BY <1>5 DEF AsBefore, AsShut, Became
  <2> QED BY <1>4, <2>1 DEF Comp
<1>7. result \in CompStates /\ (ok => result = "STARTED") /\ (~ok => result = "FAILED")
  BY DEF CompStates
<1>8. /\ done \in Seq(Comp) /\ Len(done) = Len(components) /\ done[i] = c
      /\ \A j \in 1..Len(components) : j # i =>
           done[j] = cs[j] /\ Honest(done[j]) /\ (~tangled => Released(done[j]))
  <2> HIDE DEF i, cs, result, h
  <2>1. AsBefore(cs, i, "STARTING") \/ AsShut(cs, i, "STARTING")
    BY <1>5
  <2> QED BY <1>1, <1>3, <1>6, <1>7, <2>1, CallbackDone
<1>9. Honest(c) /\ Released(c) /\ c.state = result /\ c.holds = h
  <2>1. c.state = result /\ c.holds = h
    BY DEF Became
  <2> QED BY <1>6, <1>7, <2>1 DEF Honest, Released, Brought
<1> HIDE DEF i, cs, result, h, done
<1>10. CompsFit'
  <2>1. tangled' \in BOOLEAN /\ Len(components) <= MaxComponents /\ (~tangled' => ~tangled)
    BY <1>1, <1>2 DEF CompsFit
  <2> HIDE DEF c
  <2> QED BY <1>2, <1>8, <1>9, <2>1 DEF CompsFit
<1>11. lcState \in {"STARTING", "STOPPED"} /\ (lcState = "STOPPED" => tangled)
  BY <1>1, <1>2 DEF Working, Idle
<1>12. CASE critical
  <2>1. startup' = Idle /\ lcState' = Failed(StateAsked(asks))
    BY <1>2, <1>12
  <2>2. lcState' \in {"STOPPED", "FAILED"} /\ (lcState' = "STOPPED" => tangled')
    BY <1>2, <1>11, <2>1 DEF Failed, StateAsked
  <2>3. Working' /\ OrderFits'
    BY <2>1, <2>2 DEF Working, OrderFits, Idle
  <2> QED BY <1>10, <2>2, <2>3, EndsOrGoesOn
<1>13. CASE ~critical
  <2>1. lcState' = StateAsked(asks) /\ startup' = [startup EXCEPT !.at = i + 1]
    BY <1>2, <1>13
  <2>2. startup' \in [loop : {"init", "start"}, at : 1..MaxComponents + 1]
        /\ startup'.loop = "start" /\ startup'.at = i + 1
    BY <1>2, <1>3, <2>1
  <2>3. Working' /\ OrderFits'
    BY <1>2, <1>11, <2>1, <2>2 DEF Working, StateAsked, OrderFits
  <2>4. CASE lcState' = "STOPPED"
    BY <1>2, <1>10, <1>11, <2>1, <2>3, <2>4, EndsOrGoesOn DEF StateAsked
  <2>5. CASE lcState' # "STOPPED"
    <3>1. lcState' = "STARTING" /\ lcState = "STARTING" /\ ~asks
      BY <1>11, <2>1, <2>5 DEF StateAsked
    <3>2. /\ \A j \in 1..Len(components) : j # i => components'[j] = components[j]
          /\ components'[i] = c /\ c.state = result /\ c.criticality = components[i].criticality
          /\ Len(components') = Len(components)
      BY <1>2, <1>5, <1>8, <3>1 DEF AsBefore, c, Became
    <3>3. Needed(i) => result = "STARTED"
      BY <1>7, <1>13 DEF Needed
    <3>4. ASSUME NEW j \in 1..Len(components), components'[j].criticality = "REQUIRED"
          PROVE  /\ components'[j].state \in Brought
                 /\ j < startup'.at => components'[j].state = "STARTED"
      <4>1. CASE j = i
        BY <3>2, <3>3, <3>4, <4>1 DEF Needed, Brought
      <4>2. CASE j # i
        <5>1. Needed(j) /\ components'[j] = components[j]
          BY <3>2, <3>4, <4>2 DEF Needed
        <5>2. j < startup'.at => j < startup.at
          BY <1>3, <2>2, <4>2, CompsOf, <1>1 DEF i
        <5> QED BY <1>1, <1>2, <3>1, <5>1, <5>2 DEF Progress
      <4> QED BY <4>1, <4>2
    <3>5. Progress'
      BY <2>2, <3>2, <3>4 DEF Progress, Needed
    <3>6. RunningIsReady' /\ StoppedIsReleased'
      BY <3>1 DEF RunningIsReady, StoppedIsReleased
    <3> QED BY <1>10, <2>3, <3>5, <3>6 DEF CoordinatorInv
  <2> QED BY <2>4, <2>5
<1> QED BY <1>12, <1>13

LEMMA OrderBuilt ==
  ASSUME CompsFit, NEW chosen \in SUBSET (1..Len(components)), BuildInitOrder(chosen)
  PROVE  /\ initOrder' \in Seq(1..Len(components)) /\ Len(initOrder') \in Nat
         /\ Len(initOrder') <= Len(components)
         /\ \A j, k \in 1..Len(initOrder') : initOrder'[j] = initOrder'[k] => j = k
         /\ \A i \in chosen : \E k \in 1..Len(initOrder') : initOrder'[k] = i
         /\ InPhases(initOrder')
<1> DEFINE n == Cardinality(chosen)
<1>1. Len(components) \in Nat
  BY CompsOf
<1>2. n \in Nat /\ n <= Len(components)
  <2>1. IsFiniteSet(1..Len(components)) /\ Cardinality(1..Len(components)) = Len(components)
    BY <1>1, FS_Interval
  <2>2. IsFiniteSet(chosen) /\ n <= Len(components)
    BY <2>1, FS_Subset
  <2> QED BY <2>2, FS_CardinalityType
<1>3. PICK order \in Bijection(1..n, chosen) : InPhases(order) /\ initOrder' = order
  BY DEF BuildInitOrder
<1> HIDE DEF n
<1>4. /\ order \in [1..n -> chosen]
      /\ \A j, k \in 1..n : order[j] = order[k] => j = k
      /\ \A i \in chosen : \E k \in 1..n : order[k] = i
  BY <1>3 DEF Bijection, Injection, Surjection, IsInjective
<1>5. order \in Seq(1..Len(components)) /\ Len(order) = n
  <2>1. order = [k \in 1..n |-> order[k]] /\ \A k \in 1..n : order[k] \in 1..Len(components)
    BY <1>4
  <2> QED BY <1>2, <2>1
<1> QED BY <1>2, <1>3, <1>4, <1>5

(* A startup begins: nothing is done, and all that is needed and not up is *)
(* in the order.                                                           *)
LEMMA BeginKeeps ==
  ASSUME CompsFit, CompsFit', SamePhases,
         initOrder' \in Seq(1..Len(components)), Len(initOrder') <= Len(components),
         \A j, k \in 1..Len(initOrder') : initOrder'[j] = initOrder'[k] => j = k,
         InPhases(initOrder'),
         \A i \in 1..Len(components) : Needed(i)' /\ components'[i].state \notin Brought =>
           \E k \in 1..Len(initOrder') : initOrder'[k] = i,
         lcState' = "STARTING", startup' = [loop |-> "init", at |-> 1]
  PROVE  CoordinatorInv'
<1>1. 1 \in 1..MaxComponents + 1
  BY CoordinatorAssumption
<1>2. Working'
  BY <1>1 DEF Working
<1>3. Len(initOrder') \in Nat /\ DOMAIN initOrder' = 1..Len(initOrder')
      /\ \A k \in 1..Len(initOrder') : initOrder'[k] \in 1..Len(components)
  OBVIOUS
<1>4. InPhases(initOrder)'
  <2> SUFFICES ASSUME NEW j \in 1..Len(initOrder'), NEW k \in 1..Len(initOrder'), j < k
               PROVE  LET p == initOrder'[j]  q == initOrder'[k]
                      IN \/ components'[p].phase < components'[q].phase
                         \/ components'[p].phase = components'[q].phase /\ p < q
    BY <1>3 DEF InPhases
  <2>1. LET p == initOrder'[j]  q == initOrder'[k]
        IN \/ components[p].phase < components[q].phase
           \/ components[p].phase = components[q].phase /\ p < q
    BY <1>3 DEF InPhases
  <2> QED BY <1>3, <2>1 DEF SamePhases
<1>5. OrderFits'
  BY <1>3, <1>4 DEF OrderFits, SamePhases
<1>6. Progress'
  BY <1>3 DEF Progress, SamePhases
<1> QED BY <1>2, <1>5, <1>6 DEF CoordinatorInv, RunningIsReady, StoppedIsReleased

LEMMA ShutDownFits ==
  ASSUME CompsFit
  PROVE  /\ ShutDown(components) \in Seq(Comp) /\ Len(ShutDown(components)) = Len(components)
         /\ \A i \in 1..Len(components) :
              LET c == ShutDown(components)[i]
              IN /\ c = Shut(components[i]) /\ c \in Comp /\ Honest(c)
                 /\ c.phase = components[i].phase /\ c.criticality = components[i].criticality
                 /\ ~tangled => c.holds = "none"
<1> DEFINE cs == ShutDown(components)
<1>1. /\ Len(components) \in Nat /\ DOMAIN components = 1..Len(components)
      /\ \A i \in 1..Len(components) : components[i] \in Comp /\ cs[i] = Shut(components[i])
  BY CompsOf, ShutAll DEF CompsFit
<1>2. cs = [i \in 1..Len(components) |-> cs[i]]
  BY <1>1 DEF ShutDown
<1> HIDE DEF cs
<1>3. \A i \in 1..Len(components) :
        /\ cs[i] \in Comp /\ Honest(cs[i]) /\ cs[i].phase = components[i].phase
        /\ cs[i].criticality = components[i].criticality /\ (~tangled => cs[i].holds = "none")
  BY <1>1, ShutOne DEF CompsFit
<1>4. cs \in Seq(Comp) /\ Len(cs) = Len(components)
  BY <1>1, <1>2, <1>3, CompsSeq
<1> QED BY <1>1, <1>3, <1>4 DEF cs

LEMMA BeginStartupKeeps == CoordinatorInv /\ BeginStartup => CoordinatorInv'
<1> SUFFICES ASSUME CoordinatorInv, BeginStartup PROVE CoordinatorInv' OBVIOUS
<1> DEFINE chosen == {i \in Registry : components[i].state \notin Brought \cup {"DISABLED"}}
<1>1. CompsFit /\ components' = components /\ tangled' = tangled /\ BuildInitOrder(chosen)
      /\ lcState' = "STARTING" /\ startup' = [loop |-> "init", at |-> 1]
  BY DEF BeginStartup, CoordinatorInv
<1>2. chosen \in SUBSET (1..Len(components))
  BY <1>1, CompsOf
<1>3. \A i \in 1..Len(components) : Needed(i)' /\ components'[i].state \notin Brought => i \in chosen
  BY <1>1, CompsOf DEF CompsFit, Honest, Needed
<1> HIDE DEF chosen
<1>4. /\ initOrder' \in Seq(1..Len(components)) /\ Len(initOrder') <= Len(components)
      /\ \A j, k \in 1..Len(initOrder') : initOrder'[j] = initOrder'[k] => j = k
      /\ InPhases(initOrder')
      /\ \A i \in 1..Len(components) : Needed(i)' /\ components'[i].state \notin Brought =>
           \E k \in 1..Len(initOrder') : initOrder'[k] = i
  BY <1>1, <1>2, <1>3, OrderBuilt
<1>5. CompsFit' /\ SamePhases
  BY <1>1 DEF CompsFit, SamePhases
<1> QED BY <1>1, <1>4, <1>5, BeginKeeps

LEMMA RestartKeeps == CoordinatorInv /\ RestartCoordinator => CoordinatorInv'
<1> SUFFICES ASSUME CoordinatorInv, RestartCoordinator PROVE CoordinatorInv' OBVIOUS
<1> DEFINE cs == IF lcState = "RUNNING" THEN ShutDown(components) ELSE components
<1>1. /\ CompsFit /\ components' = [i \in Registry |-> [cs[i] EXCEPT !.state = "CREATED"]]
      /\ BuildInitOrder(Registry) /\ tangled' = tangled
      /\ lcState' = "STARTING" /\ startup' = [loop |-> "init", at |-> 1]
  BY DEF RestartCoordinator, CoordinatorInv
<1>2. Registry = 1..Len(components) /\ Len(components) \in Nat
  BY <1>1, CompsOf
<1>3. \A i \in 1..Len(components) :
        /\ cs[i] \in Comp /\ cs[i].phase = components[i].phase
        /\ cs[i].criticality = components[i].criticality
  BY <1>1, CompsOf, ShutDownFits
<1> HIDE DEF cs
<1>4. ASSUME NEW i \in 1..Len(components)
      PROVE  /\ components'[i] \in Comp /\ components'[i].state = "CREATED"
             /\ components'[i].phase = components[i].phase
             /\ components'[i].criticality = components[i].criticality
  <2>1. components'[i] = [cs[i] EXCEPT !.state = "CREATED"]
    BY <1>1, <1>2
  <2> QED BY <1>3, <2>1 DEF Comp, CompStates
<1>5. components' \in Seq(Comp) /\ Len(components') = Len(components)
  <2>1. components' = [i \in 1..Len(components) |-> components'[i]]
    BY <1>1, <1>2
  <2> QED BY <1>2, <1>4, <2>1, CompsSeq
<1>6. CompsFit'
  <2>1. \A i \in 1..Len(components) : Honest(components'[i]) /\ Released(components'[i])
    BY <1>4 DEF Honest, Released, Brought
  <2> QED BY <1>1, <1>5, <2>1 DEF CompsFit
<1>7. SamePhases
  BY <1>4, <1>5 DEF SamePhases
<1>8. Registry \in SUBSET (1..Len(components))
  BY <1>2
<1>9. /\ initOrder' \in Seq(1..Len(components)) /\ Len(initOrder') <= Len(components)
      /\ \A j, k \in 1..Len(initOrder') : initOrder'[j] = initOrder'[k] => j = k
      /\ InPhases(initOrder')
      /\ \A i \in 1..Len(components) : \E k \in 1..Len(initOrder') : initOrder'[k] = i
  BY <1>1, <1>2, <1>8, OrderBuilt
<1> QED BY <1>1, <1>6, <1>7, <1>9, BeginKeeps

LEMMA RegisterComponentKeeps ==
  ASSUME CoordinatorInv, NEW phase \in 0..LastPhase, NEW crit \in Criticalities,
         RegisterComponent(phase, crit)
  PROVE  CoordinatorInv'
<1> DEFINE c == [phase |-> phase, criticality |-> crit, state |-> "CREATED", holds |-> "none"]
           n == Len(components) + 1
<1>1. /\ CompsFit /\ Working /\ startup = Idle /\ Len(components) < MaxComponents
      /\ components' = Append(components, c)
      /\ UNCHANGED <<lcState, initOrder, startup, tangled>>
  BY DEF RegisterComponent, CoordinatorInv
<1>2. c \in Comp /\ Honest(c) /\ Released(c) /\ c.state = "CREATED" /\ c.holds = "none"
  BY DEF Comp, CompStates, Honest, Released, Brought
<1> HIDE DEF c
<1>3. /\ components' \in Seq(Comp) /\ Len(components') = n /\ Len(components) \in Nat
      /\ components'[n] = c /\ \A i \in 1..Len(components) : components'[i] = components[i]
      /\ Registry' = 1..n /\ Registry = 1..Len(components)
      /\ \A i \in 1..n : i = n \/ i \in 1..Len(components)
  BY <1>1, <1>2, CompsOf DEF CompsFit, Registry
<1> HIDE DEF n
<1>4. n <= MaxComponents
  BY <1>1, <1>3, CoordinatorAssumption DEF n
<1>5. CompsFit'
  BY <1>1, <1>2, <1>3, <1>4 DEF CompsFit
<1>6. Working' /\ OrderFits' /\ Progress'
  BY <1>1 DEF Working, OrderFits, Progress, Idle
<1>7. RunningIsReady'
  BY <1>1, <1>2, <1>3 DEF RunningIsReady, CoordinatorInv
<1>8. StoppedIsReleased'
  BY <1>1, <1>2, <1>3 DEF StoppedIsReleased, CoordinatorInv
<1> QED BY <1>5, <1>6, <1>7, <1>8 DEF CoordinatorInv

LEMMA ShutDownKeeps == CoordinatorInv /\ PerformShutdown => CoordinatorInv'
<1> SUFFICES ASSUME CoordinatorInv, PerformShutdown PROVE CoordinatorInv' OBVIOUS
<1>1. /\ CompsFit /\ startup = Idle /\ components' = ShutDown(components) /\ lcState' = "STOPPED"
      /\ UNCHANGED <<initOrder, startup, tangled>>
  BY DEF PerformShutdown, CoordinatorInv
<1>2. /\ components' \in Seq(Comp) /\ Len(components') = Len(components)
      /\ \A i \in 1..Len(components) :
           /\ Honest(components'[i]) /\ (~tangled => components'[i].holds = "none")
  BY <1>1, ShutDownFits
<1>3. CompsFit'
  BY <1>1, <1>2 DEF CompsFit, Released
<1>4. Registry' = 1..Len(components)
  BY <1>2 DEF Registry
<1>5. StoppedIsReleased'
  BY <1>1, <1>2, <1>4 DEF StoppedIsReleased
<1> QED BY <1>1, <1>3, <1>5 DEF CoordinatorInv, Working, OrderFits, Progress, RunningIsReady, Idle

LEMMA CoordinatorStepHolds ==
  CoordinatorInv /\ [CoordinatorNext]_coordinatorVars => CoordinatorInv'
<1> SUFFICES ASSUME CoordinatorInv, [CoordinatorNext]_coordinatorVars PROVE CoordinatorInv' OBVIOUS
<1>1. CompsFit /\ Working /\ OrderFits /\ Progress /\ RunningIsReady /\ StoppedIsReleased
  BY DEF CoordinatorInv
<1>2. CASE UNCHANGED coordinatorVars
  BY <1>1, <1>2 DEF coordinatorVars, CoordinatorInv, CompsFit, Working, OrderFits, Progress, Needed,
                    RunningIsReady, StoppedIsReleased, InPhases, Registry
<1>3. UNCHANGED <<components, tangled>> => CompsFit'
  BY <1>1 DEF CompsFit
<1>4. CASE InitDone
  <2>1. startup.loop = "init" /\ startup.at > Len(initOrder)
        /\ startup' = [loop |-> "start", at |-> 1]
        /\ UNCHANGED <<lcState, components, initOrder, tangled>>
    BY <1>4 DEF InitDone
  <2>2. 1 \in 1..MaxComponents + 1
    BY CoordinatorAssumption
  <2>3. Working' /\ OrderFits'
    BY <1>1, <2>1, <2>2 DEF Working, OrderFits, Idle
  <2>4. ASSUME lcState = "STARTING", NEW i \in 1..Len(components), Needed(i)
        PROVE  components[i].state \in Brought
    <3>1. SUFFICES ASSUME components[i].state \notin Brought PROVE FALSE OBVIOUS
    <3>2. PICK k \in 1..Len(initOrder) : initOrder[k] = i
      BY <1>1, <2>1, <2>4, <3>1 DEF Progress
    <3>3. k < startup.at
      BY <1>1, <2>1, CoordinatorAssumption DEF OrderFits, Working, Idle
    <3> QED BY <1>1, <2>1, <2>4, <3>1, <3>2, <3>3 DEF Progress
  <2>5. Progress'
    <3>1. \A i \in 1..Len(components) : ~(i < 1)
      OBVIOUS
    <3> QED BY <2>1, <2>4, <3>1 DEF Progress, Needed
  <2>6. RunningIsReady' /\ StoppedIsReleased'
    BY <1>1, <2>1 DEF RunningIsReady, StoppedIsReleased, Working, Idle
  <2> QED BY <1>3, <2>1, <2>3, <2>5, <2>6 DEF CoordinatorInv
<1>5. CASE SkipComponent
  <2>1. /\ startup.loop = "start" /\ startup.at <= Len(components)
        /\ components[startup.at].state # "INITIALIZED"
        /\ startup' = [startup EXCEPT !.at = @ + 1]
        /\ UNCHANGED <<lcState, components, initOrder, tangled>>
    BY <1>5 DEF SkipComponent
  <2>2. startup \in [loop : {"init", "start"}, at : 1..MaxComponents + 1]
    BY <1>1, <2>1 DEF Working, Idle
  <2>3. startup.at \in 1..Len(components) /\ startup.at + 1 \in 1..MaxComponents + 1
        /\ Len(components) \in Nat
    BY <1>1, <2>1, <2>2, CompsOf, CoordinatorAssumption DEF CompsFit
  <2>4. startup' \in [loop : {"init", "start"}, at : 1..MaxComponents + 1]
        /\ startup'.loop = "start" /\ startup'.at = startup.at + 1
    BY <2>1, <2>2, <2>3
  <2>5. Working' /\ OrderFits'
    BY <1>1, <2>1, <2>4 DEF Working, OrderFits, Idle
  <2>6. ASSUME lcState = "STARTING", NEW i \in 1..Len(components), Needed(i), i < startup'.at
        PROVE  components[i].state = "STARTED"
    <3>1. CASE i = startup.at
      BY <1>1, <2>1, <2>6, <3>1 DEF Progress, Brought
    <3>2. CASE i # startup.at
      <4>1. i < startup.at
        BY <2>3, <2>4, <2>6, <3>2
      <4> QED BY <1>1, <2>1, <2>6, <4>1 DEF Progress
    <3> QED BY <3>1, <3>2
  <2>7. Progress'
    BY <1>1, <2>1, <2>4, <2>6 DEF Progress, Needed
  <2>8. RunningIsReady' /\ StoppedIsReleased'
    BY <1>1, <2>1, <2>4 DEF RunningIsReady, StoppedIsReleased, Working, Idle
  <2> QED BY <1>3, <2>1, <2>5, <2>7, <2>8 DEF CoordinatorInv
<1>6. CASE StartupDone
  <2>1. /\ startup.loop = "start" /\ startup.at > Len(components) /\ startup' = Idle
        /\ lcState' = (IF lcState = "STARTING" THEN "RUNNING" ELSE lcState)
        /\ UNCHANGED <<components, initOrder, tangled>>
    BY <1>6 DEF StartupDone
  <2>2. lcState \in {"STARTING", "STOPPED"} /\ (lcState = "STOPPED" => tangled)
    BY <1>1, <2>1 DEF Working, Idle
  <2>3. Working' /\ OrderFits' /\ Progress'
    BY <2>1, <2>2 DEF Working, OrderFits, Progress, Idle
  <2>4. RunningIsReady'
    <3>1. SUFFICES ASSUME lcState = "STARTING", NEW i \in 1..Len(components), Needed(i)
                   PROVE  components[i].state = "STARTED" /\ components[i].holds = "running"
      BY <1>1, <2>1, <2>2, CompsOf DEF RunningIsReady, Needed, Registry
    <3>2. startup.at \in Nat /\ Len(components) \in Nat
      BY <1>1, <2>1, CompsOf, CoordinatorAssumption DEF Working, Idle
    <3>3. i < startup.at
      BY <2>1, <3>2
    <3>4. components[i].state = "STARTED"
      BY <1>1, <2>1, <3>1, <3>3 DEF Progress
    <3> QED BY <1>1, <3>4 DEF CompsFit, Honest
  <2>5. StoppedIsReleased'
    BY <2>1, <2>2 DEF StoppedIsReleased
  <2> QED BY <1>3, <2>1, <2>3, <2>4, <2>5 DEF CoordinatorInv
<1>7. ASSUME NEW asks \in BOOLEAN, NEW ok \in BOOLEAN,
             InitComponent(asks, ok) \/ StartComponent(asks, ok)
      PROVE  CoordinatorInv'
  <2>1. CASE InitComponent(asks, ok)
    BY <2>1, InitKeeps
  <2>2. CASE StartComponent(asks, ok)
    BY <2>2, StartKeeps
  <2> QED BY <1>7, <2>1, <2>2
<1>8. ASSUME NEW phase \in 0..LastPhase, NEW c \in Criticalities, RegisterComponent(phase, c)
      PROVE  CoordinatorInv'
  BY <1>8, RegisterComponentKeeps
<1> QED BY <1>2, <1>4, <1>5, <1>6, <1>7, <1>8, BeginStartupKeeps, RestartKeeps, ShutDownKeeps
        DEF CoordinatorNext

LEMMA CoordinatorInitHolds == CoordinatorInit => CoordinatorInv
<1> SUFFICES ASSUME CoordinatorInit PROVE CoordinatorInv OBVIOUS
<1>1. components \in Seq(Comp) /\ Len(components) = 0 /\ Registry = {}
  BY DEF CoordinatorInit, Registry
<1>2. CompsFit
  <2>1. tangled = FALSE /\ 0 <= MaxComponents
    BY CoordinatorAssumption DEF CoordinatorInit
  <2>2. \A i \in 1..Len(components) : FALSE
    BY <1>1
  <2>3. components \in Seq(Comp) /\ Len(components) <= MaxComponents /\ tangled \in BOOLEAN
    BY <1>1, <2>1
  <2> QED BY <2>2, <2>3 DEF CompsFit
<1> QED BY <1>1, <1>2 DEF CoordinatorInit, CoordinatorInv, Working, OrderFits, Progress,
                          RunningIsReady, StoppedIsReleased, Idle

(* Whatever fails, is retried, restarted or shut down from within its own  *)
(* callbacks, a core that runs has all it requires running, no phase is    *)
(* opened on a required part of an earlier one that is not, and what says  *)
(* STOPPED has given everything back.                                      *)
THEOREM StartupHolds == CoreSpec => []StartupSafe
<1>1. CoreInit => CoordinatorInv
  BY CoordinatorInitHolds DEF CoreInit
<1>2. CoordinatorInv /\ [CoreNext]_<<runtimeVars, upVars, outVars, manager>> => CoordinatorInv'
  <2>1. [CoreNext]_<<runtimeVars, upVars, outVars, manager>> => [CoordinatorNext]_coordinatorVars
    BY Zenon DEF CoreNext, upVars
  <2> QED BY <2>1, CoordinatorStepHolds
<1>3. CoordinatorInv => StartupSafe
  <2>1. CoordinatorInv => CoordinatorTypeOK
    BY DEF CoordinatorInv, CompsFit, Working, CoordinatorTypeOK, Comp, CompStates
  <2> QED BY <2>1, FoundedHolds DEF CoordinatorInv, StartupSafe
<1> QED BY <1>1, <1>2, <1>3, PTL DEF CoreSpec

(* The two that bring the core up and renew it, together.                  *)
THEOREM CoreIsSafe == CoreSpec => []CoreSafe
  BY StartupHolds, ReloadsHold, PTL DEF CoreSafe
=============================================================================
