-------------------------- MODULE TournamentProofs --------------------------
(***************************************************************************)
(* Proofs about RunTournament, for every schedule, number of threads and   *)
(* kind of game: its records are the ones it promises, and it implements   *)
(* TournamentOutcome.  What risk_tournament.cpp adds around it, files and  *)
(* failures, keeps all of it, and the recordings are right.                *)
(***************************************************************************)
EXTENDS RiskTournament, FiniteLemmas, SequenceTheorems

\* The inductive invariant.  TaskState needs the other three: the claims are
\* disjoint because the counter only grows, the printers because of the mutex.
IInv == TypeOK /\ TaskState /\ OnePrinter /\ LeavesLast

LEMMA Constants ==
    /\ Len(Tasks) \in Nat
    /\ TaskIds \subseteq Nat
    /\ NumWorkers \in Nat \ {0}
    /\ Main \in Workers
    /\ Unlocked \notin Workers
    /\ \A i \in TaskIds : i < Len(Tasks)
BY TasksAssumption DEF TaskIds, NumWorkers, Workers, Main, Unlocked

LEMMA RecordType ==
    ASSUME games \in [TaskIds -> Games], NEW i \in TaskIds
    PROVE  Record(i) \in [policy_a : Nat, policy_b : Nat, score : 0 .. 2]
<1>1. i + 1 \in 1 .. Len(Tasks)
  BY TasksAssumption DEF TaskIds
<1>2. Tasks[i + 1] \in [a : Nat, b : Nat]
  BY <1>1, TasksAssumption, ElementOfSeq
<1> QED
  BY <1>2 DEF Record

-----------------------------------------------------------------------------
LEMMA InitIInv == Init => IInv
<1> SUFFICES ASSUME Init PROVE IInv
  OBVIOUS
<1>1. TypeOK
  BY Constants DEF Init, TypeOK, OnTask, NoRecord
<1>2. TaskState
  BY Constants DEF Init, TaskState, OnTask, Recorded
<1>3. OnePrinter
  BY Constants DEF Init, OnePrinter
<1>4. LeavesLast
  BY Constants DEF Init, LeavesLast
<1> QED
  BY <1>1, <1>2, <1>3, <1>4 DEF IInv

\* A step of the calling thread that moves one worker between places off the
\* tasks and touches nothing else.
OffTask == {"spawn", "unborn", "claim", "done", "returned"}

LEMMA MoveOffTask ==
    ASSUME IInv, NEW w \in Workers, NEW where \in OffTask,
           pc[w] \in OffTask, GoTo(w, where),
           UNCHANGED <<games, next_task, task, records, print_mutex, announced>>
    PROVE  TypeOK' /\ TaskState' /\ OnePrinter'
<1> USE DEF IInv, TypeOK, OffTask
<1>1. \A v \in Workers : pc'[v] = IF v = w THEN where ELSE pc[v]
  BY DEF GoTo
<1>2. \A v \in Workers : OnTask(v)' <=> OnTask(v)
  BY <1>1 DEF OnTask
<1>3. \A v \in Workers : (pc'[v] = "play" <=> pc[v] = "play") /\ (pc'[v] = "print" <=> pc[v] = "print")
  BY <1>1
<1>4. \A i \in TaskIds : (Recorded(i)' <=> Recorded(i)) /\ Record(i)' = Record(i)
  BY <1>3 DEF Recorded, Record
<1>5. TypeOK'
  BY <1>1, <1>2 DEF GoTo, OnTask
<1>6. TaskState'
  BY <1>2, <1>4 DEF TaskState
<1>7. OnePrinter'
  BY <1>3 DEF OnePrinter
<1> QED
  BY <1>5, <1>6, <1>7

LEMMA SpawnNextKeeps ==
    ASSUME IInv, NEW t \in Workers, SpawnNext(t)
    PROVE  IInv'
<1>1. TypeOK' /\ TaskState' /\ OnePrinter'
  BY MoveOffTask, Zenon DEF SpawnNext, OffTask
<1>2. LeavesLast'
  BY Constants DEF IInv, TypeOK, LeavesLast, SpawnNext, GoTo
<1> QED
  BY <1>1, <1>2 DEF IInv

LEMMA StartWorkingKeeps ==
    ASSUME IInv, StartWorking
    PROVE  IInv'
<1>1. TypeOK' /\ TaskState' /\ OnePrinter'
  BY MoveOffTask, Constants, Zenon DEF StartWorking, OffTask
<1>2. LeavesLast'
  BY Constants DEF IInv, TypeOK, LeavesLast, StartWorking, GoTo
<1> QED
  BY <1>1, <1>2 DEF IInv

LEMMA JoinKeeps ==
    ASSUME IInv, Join
    PROVE  IInv'
<1>1. TypeOK' /\ TaskState' /\ OnePrinter'
  BY MoveOffTask, Constants, Zenon DEF Join, OffTask
<1>2. LeavesLast'
  BY Constants DEF IInv, TypeOK, LeavesLast, Join, GoTo
<1> QED
  BY <1>1, <1>2 DEF IInv

\* The counter passes the task claimed; nobody else can have it.
LEMMA ClaimKeeps ==
    ASSUME IInv, NEW w \in Workers, Claim(w)
    PROVE  IInv' /\ \A i \in TaskIds : Recorded(i)' <=> Recorded(i)
<1> USE DEF IInv, TypeOK
<1>1. \A v \in Workers : pc'[v] = IF v = w THEN IF next_task < Len(Tasks) THEN "play" ELSE "done"
                                  ELSE pc[v]
  BY DEF Claim, GoTo
<1>2. \A v \in Workers : task'[v] = IF v = w THEN next_task ELSE task[v]
  BY DEF Claim
<1>3. next_task' = next_task + 1 /\ next_task \in Nat /\ pc[w] = "claim" /\ ~OnTask(w)
  BY DEF Claim, OnTask
<1>4. UNCHANGED <<games, records, print_mutex, announced>>
  BY DEF Claim
<1>5. \A v \in Workers : v # w => (OnTask(v)' <=> OnTask(v))
  BY <1>1 DEF OnTask
<1>6. OnTask(w)' <=> next_task < Len(Tasks)
  BY <1>1 DEF OnTask
<1>7. next_task < Len(Tasks) => next_task \in TaskIds
  BY <1>3, Constants DEF TaskIds
<1>8. \A i \in TaskIds : Recorded(i)' <=> Recorded(i)
  <2> SUFFICES ASSUME NEW i \in TaskIds PROVE Recorded(i)' <=> Recorded(i)
    OBVIOUS
  <2>1. i \in Nat /\ i < Len(Tasks)
    BY Constants
  <2>2. CASE i = next_task
    BY <1>1, <1>2, <1>3, <2>1, <2>2 DEF Recorded
  <2>3. CASE i # next_task
    <3>1. i < next_task' <=> i < next_task
      BY <1>3, <2>1, <2>3
    <3>2. ~(pc[w] = "play") /\ task'[w] # i
      BY <1>2, <1>3, <2>3
    <3>3. \A v \in Workers : pc'[v] = "play" /\ task'[v] = i <=> pc[v] = "play" /\ task[v] = i
      BY <1>1, <1>2, <3>2
    <3> QED
      BY <3>1, <3>3 DEF Recorded
  <2> QED
    BY <2>2, <2>3
<1>9. TypeOK'
  <2>1. next_task' \in Nat /\ task' \in [Workers -> Nat]
    BY <1>3, Constants DEF Claim
  <2>2. pc' \in [Workers -> {"spawn", "unborn", "claim", "play", "lock", "print", "done", "returned"}]
    BY DEF Claim, GoTo
  <2>3. \A v \in Workers : OnTask(v)' => task'[v] \in TaskIds
    BY <1>2, <1>5, <1>6, <1>7
  <2> QED
    BY <1>4, <2>1, <2>2, <2>3 DEF OnTask
<1>10. TaskState'
  <2>1. \A v \in Workers : OnTask(v)' => task'[v] < next_task'
    <3> SUFFICES ASSUME NEW v \in Workers, OnTask(v)' PROVE task'[v] < next_task'
      OBVIOUS
    <3>1. CASE v = w
      BY <1>2, <1>3, <3>1
    <3>2. CASE v # w
      <4>1. task[v] < next_task /\ task[v] \in Nat
        BY <1>5, <3>2 DEF TaskState
      <4> QED
        BY <1>2, <1>3, <3>2, <4>1
    <3> QED
      BY <3>1, <3>2
  <2>2. \A u, v \in Workers : OnTask(u)' /\ OnTask(v)' /\ task'[u] = task'[v] => u = v
    <3> SUFFICES ASSUME NEW u \in Workers, NEW v \in Workers, OnTask(u)', OnTask(v)',
                        task'[u] = task'[v], u # v
                 PROVE  FALSE
      OBVIOUS
    <3>1. CASE u # w /\ v # w
      BY <1>2, <1>5, <3>1 DEF TaskState
    <3>2. CASE u = w
      <4>1. OnTask(v) /\ task[v] = next_task
        BY <1>2, <1>5, <3>2
      <4> QED
        BY <4>1, <1>3 DEF TaskState
    <3>3. CASE v = w
      <4>1. OnTask(u) /\ task[u] = next_task
        BY <1>2, <1>5, <3>3
      <4> QED
        BY <4>1, <1>3 DEF TaskState
    <3> QED
      BY <3>1, <3>2, <3>3
  <2>3. \A i \in TaskIds : records'[i] = IF Recorded(i)' THEN Record(i)' ELSE NoRecord
    <3>1. \A i \in TaskIds : Record(i)' = Record(i)
      BY <1>4 DEF Record
    <3> QED
      BY <1>4, <1>8, <3>1 DEF TaskState
  <2>4. \A i \in TaskIds :
          announced'[i] = IF i < next_task' /\ \A v \in Workers : ~(OnTask(v)' /\ task'[v] = i)
                          THEN 1 ELSE 0
    <3> SUFFICES ASSUME NEW i \in TaskIds
                 PROVE  (i < next_task' /\ \A v \in Workers : ~(OnTask(v)' /\ task'[v] = i))
                        <=> (i < next_task /\ \A v \in Workers : ~(OnTask(v) /\ task[v] = i))
      BY <1>4 DEF TaskState
    <3>1. i \in Nat /\ i < Len(Tasks)
      BY Constants
    <3>2. CASE i = next_task
      <4>1. OnTask(w)' /\ task'[w] = i
        BY <1>2, <1>6, <3>1, <3>2
      <4> QED
        BY <4>1, <1>3, <3>2
    <3>3. CASE i # next_task
      <4>1. \A v \in Workers : (OnTask(v)' /\ task'[v] = i) <=> (OnTask(v) /\ task[v] = i)
        BY <1>2, <1>3, <1>5, <3>3
      <4>2. i < next_task' <=> i < next_task
        BY <1>3, <3>1, <3>3
      <4> QED
        BY <4>1, <4>2
    <3> QED
      BY <3>2, <3>3
  <2> QED
    BY <2>1, <2>2, <2>3, <2>4 DEF TaskState
<1>11. OnePrinter'
  <2>1. \A v \in Workers : pc'[v] = "print" <=> pc[v] = "print"
    BY <1>1, <1>3
  <2> QED
    BY <1>4, <2>1 DEF OnePrinter
<1>12. LeavesLast'
  BY <1>1, <1>3, Constants DEF LeavesLast
<1> QED
  BY <1>8, <1>9, <1>10, <1>11, <1>12

\* The record is written by the only worker on the task.
LEMMA PlayKeeps ==
    ASSUME IInv, NEW w \in Workers, Play(w)
    PROVE  /\ IInv'
           /\ task[w] \in TaskIds /\ ~Recorded(task[w])
           /\ \A i \in TaskIds : Recorded(i)' <=> Recorded(i) \/ i = task[w]
<1> USE DEF IInv, TypeOK
<1>1. \A v \in Workers : pc'[v] = IF v = w THEN "lock" ELSE pc[v]
  BY DEF Play, GoTo
<1>2. pc[w] = "play" /\ OnTask(w) /\ task[w] \in TaskIds /\ task[w] < next_task
  BY DEF Play, OnTask, TaskState
<1>3. UNCHANGED <<games, next_task, task, print_mutex, announced>>
  BY DEF Play
<1>4. \A v \in Workers : OnTask(v)' <=> OnTask(v)
  BY <1>1, <1>2 DEF OnTask
<1>5. \A v \in Workers : pc[v] = "play" /\ task[v] = task[w] => v = w
  BY <1>2 DEF TaskState, OnTask
<1>6. ~Recorded(task[w])
  BY <1>2 DEF Recorded
<1>7. \A i \in TaskIds : Recorded(i)' <=> Recorded(i) \/ i = task[w]
  BY <1>1, <1>2, <1>3, <1>5 DEF Recorded
<1>8. \A i \in TaskIds : Record(i)' = Record(i)
  BY <1>3 DEF Record
<1>9. \A i \in TaskIds : records'[i] = IF i = task[w] THEN Record(i) ELSE records[i]
  BY <1>2 DEF Play
<1>10. TypeOK'
  <2>1. records' \in [TaskIds -> [policy_a : Nat, policy_b : Nat, score : 0 .. 2]]
    BY <1>2, RecordType DEF Play
  <2> QED
    BY <1>1, <1>2, <1>3, <1>4, <2>1 DEF Play, GoTo, OnTask
<1>11. TaskState'
  <2>1. \A i \in TaskIds : records'[i] = IF Recorded(i)' THEN Record(i)' ELSE NoRecord
    BY <1>6, <1>7, <1>8, <1>9 DEF TaskState
  <2> QED
    BY <1>3, <1>4, <2>1 DEF TaskState
<1>12. OnePrinter'
  BY <1>1, <1>2, <1>3 DEF OnePrinter
<1>13. LeavesLast'
  BY <1>1, <1>2, <1>3, Constants DEF LeavesLast
<1> QED
  BY <1>2, <1>6, <1>7, <1>10, <1>11, <1>12, <1>13

LEMMA LockPrintKeeps ==
    ASSUME IInv, NEW w \in Workers, LockPrint(w)
    PROVE  IInv' /\ \A i \in TaskIds : Recorded(i)' <=> Recorded(i)
<1> USE DEF IInv, TypeOK
<1>1. \A v \in Workers : pc'[v] = IF v = w THEN "print" ELSE pc[v]
  BY DEF LockPrint, GoTo
<1>2. pc[w] = "lock" /\ print_mutex = Unlocked /\ print_mutex' = w
  BY DEF LockPrint
<1>3. UNCHANGED <<games, next_task, task, records, announced>>
  BY DEF LockPrint
<1>4. \A v \in Workers : (OnTask(v)' <=> OnTask(v)) /\ (pc'[v] = "play" <=> pc[v] = "play")
  BY <1>1, <1>2 DEF OnTask
<1>5. \A i \in TaskIds : (Recorded(i)' <=> Recorded(i)) /\ Record(i)' = Record(i)
  BY <1>3, <1>4 DEF Recorded, Record
<1>6. TypeOK'
  BY <1>1, <1>2, <1>3, <1>4 DEF LockPrint, GoTo, OnTask
<1>7. TaskState'
  BY <1>3, <1>4, <1>5 DEF TaskState
<1>8. OnePrinter'
  BY <1>1, <1>2, Constants DEF OnePrinter
<1>9. LeavesLast'
  BY <1>1, <1>2, <1>3, Constants DEF LeavesLast
<1> QED
  BY <1>5, <1>6, <1>7, <1>8, <1>9

\* The worker gives up its task, finished and now announced.
LEMMA AnnounceKeeps ==
    ASSUME IInv, NEW w \in Workers, Announce(w)
    PROVE  IInv' /\ \A i \in TaskIds : Recorded(i)' <=> Recorded(i)
<1> USE DEF IInv, TypeOK
<1>1. \A v \in Workers : pc'[v] = IF v = w THEN "claim" ELSE pc[v]
  BY DEF Announce, GoTo
<1>2. pc[w] = "print" /\ OnTask(w) /\ task[w] \in TaskIds /\ task[w] < next_task
  BY DEF Announce, OnTask, TaskState
<1>3. UNCHANGED <<games, next_task, task, records>> /\ print_mutex' = Unlocked
  BY DEF Announce
<1>4. \A v \in Workers : (OnTask(v)' <=> OnTask(v) /\ v # w) /\ (pc'[v] = "play" <=> pc[v] = "play")
  BY <1>1, <1>2 DEF OnTask
<1>5. \A i \in TaskIds : (Recorded(i)' <=> Recorded(i)) /\ Record(i)' = Record(i)
  BY <1>3, <1>4 DEF Recorded, Record
<1>6. announced[task[w]] = 0 /\ announced' = [announced EXCEPT ![task[w]] = announced[task[w]] + 1]
  BY <1>2 DEF TaskState, Announce
<1>7. TypeOK'
  <2>1. announced' \in [TaskIds -> Nat]
    BY <1>2, <1>6
  <2> QED
    BY <1>1, <1>2, <1>3, <1>4, <2>1 DEF Announce, GoTo, OnTask
<1>8. TaskState'
  <2>1. ASSUME NEW i \in TaskIds
        PROVE  announced'[i] = IF i < next_task' /\ \A v \in Workers : ~(OnTask(v)' /\ task'[v] = i)
                               THEN 1 ELSE 0
    <3>1. CASE i = task[w]
      <4>1. \A v \in Workers : OnTask(v) /\ task[v] = i => v = w
        BY <1>2, <3>1 DEF TaskState
      <4>2. \A v \in Workers : ~(OnTask(v)' /\ task'[v] = i)
        BY <1>3, <1>4, <4>1
      <4> QED
        BY <1>2, <1>3, <1>6, <3>1, <4>2
    <3>2. CASE i # task[w]
      <4>1. \A v \in Workers : (OnTask(v)' /\ task'[v] = i) <=> (OnTask(v) /\ task[v] = i)
        BY <1>3, <1>4, <3>2
      <4>2. announced'[i] = announced[i]
        BY <1>2, <1>6, <3>2
      <4> QED
        BY <1>3, <4>1, <4>2 DEF TaskState
    <3> QED
      BY <3>1, <3>2
  <2> QED
    BY <1>3, <1>4, <1>5, <2>1 DEF TaskState
<1>9. OnePrinter'
  BY <1>1, <1>2, <1>3, Constants DEF OnePrinter
<1>10. LeavesLast'
  BY <1>1, <1>2, <1>3, Constants DEF LeavesLast
<1> QED
  BY <1>5, <1>7, <1>8, <1>9, <1>10

LEMMA NextIInv == IInv /\ [Next]_vars => IInv'
<1> SUFFICES ASSUME IInv, [Next]_vars PROVE IInv'
  OBVIOUS
<1>1. CASE StartWorking
  BY <1>1, StartWorkingKeeps
<1>2. CASE Join
  BY <1>2, JoinKeeps
<1>3. ASSUME NEW t \in Workers, SpawnNext(t) PROVE IInv'
  BY <1>3, SpawnNextKeeps
<1>4. ASSUME NEW w \in Workers, Claim(w) PROVE IInv'
  BY <1>4, ClaimKeeps
<1>5. ASSUME NEW w \in Workers, Play(w) PROVE IInv'
  BY <1>5, PlayKeeps
<1>6. ASSUME NEW w \in Workers, LockPrint(w) PROVE IInv'
  BY <1>6, LockPrintKeeps
<1>7. ASSUME NEW w \in Workers, Announce(w) PROVE IInv'
  BY <1>7, AnnounceKeeps
<1>8. CASE UNCHANGED vars
  BY <1>8 DEF vars, IInv, TypeOK, TaskState, OnePrinter, LeavesLast, OnTask, Recorded, Record
<1> QED
  BY <1>1, <1>2, <1>3, <1>4, <1>5, <1>6, <1>7, <1>8 DEF Next, Manage, Step

-----------------------------------------------------------------------------
\* The threads of RunTournament keep the invariant, however many there are.
THEOREM SpecIInv == Spec => []IInv
  BY InitIInv, NextIInv, PTL DEF Spec

\* Every index a worker plays or reports is one of the schedule: records[i] and
\* tasks[i] stay in range, and all state keeps its type.
THEOREM TypeCorrect == Spec => []TypeOK
<1>1. IInv => TypeOK
  BY DEF IInv
<1> QED
  BY <1>1, SpecIInv, PTL

\* No task is claimed twice, and a task's record and its line are there exactly
\* when its worker is past writing them.
THEOREM TasksDisjoint == Spec => []TaskState
<1>1. IInv => TaskState
  BY DEF IInv
<1> QED
  BY <1>1, SpecIInv, PTL

\* print_mutex lets one worker print at a time.
THEOREM PrintsOneByOne == Spec => []OnePrinter
<1>1. IInv => OnePrinter
  BY DEF IInv
<1> QED
  BY <1>1, SpecIInv, PTL

\* Workers stay while there are tasks, and the caller stays for the workers.
THEOREM CallerLeavesLast == Spec => []LeavesLast
<1>1. IInv => LeavesLast
  BY DEF IInv
<1> QED
  BY <1>1, SpecIInv, PTL

LEMMA AllRecorded ==
    ASSUME IInv, \A w \in Workers : pc[w] \in {"done", "returned"}
    PROVE  \A i \in TaskIds : Recorded(i) /\ \A w \in Workers : ~OnTask(w)
<1>1. next_task > Len(Tasks) /\ next_task \in Nat
  BY Constants DEF IInv, LeavesLast, TypeOK
<1>2. \A w \in Workers : ~OnTask(w) /\ pc[w] # "play"
  BY DEF OnTask
<1>3. \A i \in TaskIds : i < next_task
  BY <1>1, Constants
<1> QED
  BY <1>2, <1>3 DEF Recorded

LEMMA AllReturned == IInv => ReturnsEverything
<1> SUFFICES ASSUME IInv, pc[Main] = "returned", NEW i \in TaskIds
             PROVE  records[i] = Record(i) /\ announced[i] = 1
  BY DEF ReturnsEverything
<1>1. \A w \in Workers : pc[w] \in {"done", "returned"}
  BY DEF IInv, LeavesLast
<1>2. Recorded(i) /\ \A w \in Workers : ~OnTask(w)
  BY <1>1, AllRecorded
<1> QED
  BY <1>2 DEF IInv, TaskState, Recorded

\* RunTournament returns every game's record and has printed every line once.
THEOREM EverythingReturned == Spec => []ReturnsEverything
  BY AllReturned, SpecIInv, PTL

-----------------------------------------------------------------------------
LEMMA InitPromised == Init => Outcome!Init
<1> SUFFICES ASSUME Init PROVE Outcome!Init
  OBVIOUS
<1>1. \A i \in TaskIds : ~Recorded(i)
  BY Constants DEF Init, Recorded
<1> QED
  BY <1>1, Constants DEF Init, Outcome!Init

\* A step is the recording of one game, the return, or nothing to the caller.
LEMMA NextPromised == IInv /\ [Next]_vars => [Outcome!Next]_Outcome!vars
<1> SUFFICES ASSUME IInv, [Next]_vars PROVE [Outcome!Next]_Outcome!vars
  OBVIOUS
<1> DEFINE recorded == {i \in TaskIds : Recorded(i)}
           verdict == [i \in TaskIds |-> Record(i)]
           returned == pc[Main] = "returned"
<1>1. ASSUME games' = games PROVE verdict' = verdict
  BY <1>1 DEF Record
<1>2. ASSUME UNCHANGED <<games, records>>, recorded' = recorded, returned' = returned
      PROVE  UNCHANGED Outcome!vars
  BY <1>1, <1>2 DEF Outcome!vars
<1>3. CASE StartWorking
  <2>1. recorded' = recorded /\ returned' = returned
    BY <1>3, Constants DEF StartWorking, GoTo, Recorded, IInv, TypeOK
  <2> QED
    BY <1>2, <1>3, <2>1 DEF StartWorking
<1>4. ASSUME NEW t \in Workers, SpawnNext(t) PROVE UNCHANGED Outcome!vars
  <2>1. recorded' = recorded /\ returned' = returned
    BY <1>4, Constants DEF SpawnNext, GoTo, Recorded, IInv, TypeOK
  <2> QED
    BY <1>2, <1>4, <2>1 DEF SpawnNext
<1>5. ASSUME NEW w \in Workers, Claim(w) PROVE UNCHANGED Outcome!vars
  <2>1. recorded' = recorded
    BY <1>5, ClaimKeeps
  <2>2. returned' = returned
    BY <1>5, Constants DEF Claim, GoTo, IInv, TypeOK
  <2> QED
    BY <1>2, <1>5, <2>1, <2>2 DEF Claim
<1>6. ASSUME NEW w \in Workers, LockPrint(w) PROVE UNCHANGED Outcome!vars
  <2>1. recorded' = recorded
    BY <1>6, LockPrintKeeps
  <2>2. returned' = returned
    BY <1>6, Constants DEF LockPrint, GoTo, IInv, TypeOK
  <2> QED
    BY <1>2, <1>6, <2>1, <2>2 DEF LockPrint
<1>7. ASSUME NEW w \in Workers, Announce(w) PROVE UNCHANGED Outcome!vars
  <2>1. recorded' = recorded
    BY <1>7, AnnounceKeeps
  <2>2. returned' = returned
    BY <1>7, Constants DEF Announce, GoTo, IInv, TypeOK
  <2> QED
    BY <1>2, <1>7, <2>1, <2>2 DEF Announce
<1>8. ASSUME NEW w \in Workers, Play(w) PROVE Outcome!RecordGame(task[w])
  <2>1. /\ task[w] \in TaskIds /\ ~Recorded(task[w])
        /\ \A i \in TaskIds : Recorded(i)' <=> Recorded(i) \/ i = task[w]
    BY <1>8, PlayKeeps
  <2>2. task[w] \in TaskIds \ recorded /\ recorded' = recorded \cup {task[w]}
    BY <2>1
  <2>3. records' = [records EXCEPT ![task[w]] = verdict[task[w]]]
    BY <1>8, <2>1 DEF Play
  <2>4. verdict' = verdict
    BY <1>1, <1>8 DEF Play
  <2>5. returned' = returned
    BY <1>8, Constants DEF Play, GoTo, IInv, TypeOK
  <2> QED
    BY <2>2, <2>3, <2>4, <2>5 DEF Outcome!RecordGame
<1>9. CASE Join
  <2>1. \A w \in Workers : pc[w] \in {"done", "returned"}
    BY <1>9 DEF Join
  <2>2. recorded = TaskIds
    BY <2>1, AllRecorded
  <2>3. ~returned /\ returned'
    BY <1>9, Constants DEF Join, GoTo, IInv, TypeOK
  <2>4. recorded' = recorded
    BY <1>9, Constants DEF Join, GoTo, Recorded, IInv, TypeOK
  <2>5. UNCHANGED records /\ verdict' = verdict
    BY <1>1, <1>9 DEF Join
  <2> QED
    BY <2>2, <2>3, <2>4, <2>5 DEF Outcome!Next, Outcome!Return
<1>10. CASE UNCHANGED vars
  <2>1. recorded' = recorded /\ returned' = returned
    BY <1>10 DEF vars, Recorded
  <2> QED
    BY <1>2, <1>10, <2>1 DEF vars
<1>11. ASSUME NEW w \in Workers, Play(w) PROVE Outcome!Next
  BY <1>8, <1>11, PlayKeeps DEF Outcome!Next
<1> QED
  BY <1>3, <1>4, <1>5, <1>6, <1>7, <1>9, <1>10, <1>11 DEF Next, Manage, Step

\* RunTournament implements its promise, but for the promise to end: a caller
\* cannot tell how many threads there were nor how they were scheduled.
THEOREM KeepsPromise == Spec => PromisedSafety
  BY InitPromised, NextPromised, SpecIInv, PTL DEF Spec, PromisedSafety, Outcome!Safety

-----------------------------------------------------------------------------
(* The program around it: main, the recordings and the files.              *)

\* The first m moves of game i, as its observer writes them down.
Made(i, m) == [n \in 1 .. m |-> <<i, n>>]

\* What main, the workers and the files are like between steps.
MainInv ==
    /\ at \in {"play", "write", "report", "exited", "failed"}
    /\ written \in 0 .. Len(Tasks)
    /\ at \in {"write", "report", "exited"} \/ written > 0 => pc[Main] = "returned"
    /\ at = "write" \/ written > 0 => Recording
    /\ at \in {"report", "exited"} /\ Recording => written = Len(Tasks)

\* A slot is written by the worker on its task and by nobody before or after.
SlotsInv ==
    /\ made \in [Workers -> Nat]
    /\ \A w \in Workers : IF pc[w] = "play" THEN made[w] <= Moves(task[w]) ELSE made[w] = 0
    /\ Recording =>
          /\ recordings = [i \in TaskIds |-> recordings[i]]
          /\ \A w \in Workers : pc[w] = "play" => recordings[task[w]] = Made(task[w], made[w])
          /\ \A i \in TaskIds : Recorded(i) => recordings[i] = Made(i, Moves(i))
          /\ \A i \in TaskIds : i >= next_task => recordings[i] = <<>>

FilesInv ==
    /\ DOMAIN files = {Path(i) : i \in 0 .. written - 1}
    /\ IsFiniteSet(DOMAIN files) /\ Cardinality(DOMAIN files) = written
    /\ \A i \in 0 .. written - 1 :
          files[Path(i)] = [steps |-> Made(i, Moves(i)), result |-> Result(Record(i))]

ProgramInv == IInv /\ MainInv /\ SlotsInv /\ FilesInv

-----------------------------------------------------------------------------
LEMMA NothingMade == \A i : Made(i, 0) = <<>>
  BY DEF Made

LEMMA OneMoreMade ==
    ASSUME NEW i, NEW m \in Nat
    PROVE  Append(Made(i, m), <<i, m + 1>>) = Made(i, m + 1)
<1>1. Made(i, m) \in Seq({<<i, n>> : n \in 1 .. m}) /\ Len(Made(i, m)) = m
  BY DEF Made
<1> QED
  BY <1>1 DEF Made

LEMMA MovesType ==
    ASSUME TypeOK, NEW i \in TaskIds
    PROVE  Moves(i) \in Nat
<1>1. games[i] \in [moves : Nat, result : {0, 1, Draw}]
  BY TasksAssumption DEF TypeOK
<1> QED
  BY <1>1, TasksAssumption DEF Moves

\* The index comes first in the name.
LEMMA PathsDiffer == \A i, j : Path(i) = Path(j) => i = j
  BY DEF Path, FileName

\* Nobody works once the caller has returned.
LEMMA NobodyWorks ==
    ASSUME IInv, pc[Main] = "returned", NEW w \in Workers
    PROVE  pc[w] \in {"done", "returned"}
  BY DEF IInv, LeavesLast

-----------------------------------------------------------------------------
LEMMA InitProgramInv == ProgramInit => ProgramInv
<1> SUFFICES ASSUME ProgramInit PROVE ProgramInv
  OBVIOUS
<1> USE DEF ProgramInit
<1>1. IInv
  BY InitIInv
<1>2. MainInv
  BY Constants DEF MainInv, Starts
<1>3. SlotsInv
  BY Constants DEF SlotsInv, Init, Recorded
<1>4. FilesInv
  <2>1. DOMAIN files = {} /\ 0 .. written - 1 = {}
    OBVIOUS
  <2> QED
    BY <2>1, FS_EmptySet DEF FilesInv
<1> QED
  BY <1>1, <1>2, <1>3, <1>4 DEF ProgramInv

\* Files and slots are as they were when only main moves on.
LEMMA SlotsAtRest ==
    ASSUME SlotsInv, UNCHANGED <<vars, made, recordings>>
    PROVE  SlotsInv'
  BY DEF SlotsInv, vars, Recorded, Moves

LEMMA FilesAtRest ==
    ASSUME FilesInv, UNCHANGED <<games, policies, written, files>>
    PROVE  FilesInv'
  BY DEF FilesInv, Path, Moves, Record

LEMMA MoveKeeps ==
    ASSUME ProgramInv, NEW w \in Workers, Move(w)
    PROVE  ProgramInv'
<1> USE DEF ProgramInv
<1>1. UNCHANGED vars
  BY DEF Move
<1>2. IInv'
  BY <1>1, NextIInv
<1>3. MainInv'
  BY <1>1 DEF MainInv, Move, vars
<1>4. FilesInv'
  BY <1>1, FilesAtRest DEF Move, vars
<1>5. pc[w] = "play" /\ OnTask(w) /\ task[w] \in TaskIds /\ task[w] \in Nat /\ task[w] < next_task
  BY Constants DEF Move, OnTask, IInv, TypeOK, TaskState
<1>6. Moves(task[w]) \in Nat
  BY <1>5, MovesType DEF IInv
<1>7. \A v \in Workers : made'[v] = IF v = w THEN made[w] + 1 ELSE made[v]
  BY DEF Move, SlotsInv
<1>8. \A v \in Workers : pc[v] = "play" /\ task[v] = task[w] => v = w
  BY <1>5 DEF IInv, TaskState, OnTask
<1>9. SlotsInv'
  <2>1. made' \in [Workers -> Nat]
    BY DEF Move, SlotsInv
  <2>2. \A v \in Workers : (IF pc[v] = "play" THEN made[v] <= Moves(task[v]) ELSE made[v] = 0)'
    <3>1. \A i : Moves(i)' = Moves(i)
      BY <1>1 DEF vars, Moves
    <3>2. made[w] < Moves(task[w]) /\ made[w] \in Nat
      BY DEF Move, SlotsInv
    <3>3. made[w] + 1 <= Moves(task[w])
      BY <3>2, <1>6
    <3> QED
      BY <1>1, <1>5, <1>7, <3>1, <3>3 DEF SlotsInv, vars
  <2>3. ASSUME Recording
        PROVE  /\ recordings' = [i \in TaskIds |-> recordings'[i]]
               /\ \A i \in TaskIds : recordings'[i] =
                     IF i = task[w] THEN Made(task[w], made[w] + 1) ELSE recordings[i]
    <3>1. recordings' = [recordings EXCEPT ![task[w]] =
                             Append(Made(task[w], made[w]), <<task[w], made[w] + 1>>)]
      BY <2>3, <1>5 DEF Move, Slot, SlotsInv
    <3>2. made[w] \in Nat
      BY DEF SlotsInv
    <3>3. recordings' = [recordings EXCEPT ![task[w]] = Made(task[w], made[w] + 1)]
      BY <3>1, <3>2, <1>5, OneMoreMade
    <3> QED
      BY <3>3, <2>3, <1>5 DEF SlotsInv
  <2>4. ASSUME Recording, NEW v \in Workers, pc[v] = "play"
        PROVE  recordings'[task[v]] = Made(task[v], made'[v])
    <3>1. task[v] \in TaskIds
      BY <2>4 DEF IInv, TypeOK, OnTask
    <3> QED
      BY <2>3, <2>4, <3>1, <1>7, <1>8 DEF SlotsInv
  <2>5. \A i \in TaskIds : (Recorded(i) => i # task[w]) /\ (i >= next_task => i # task[w])
    BY <1>5 DEF Recorded, IInv, TypeOK
  <2> QED
    <3>1. /\ UNCHANGED <<pc, task, next_task>>
          /\ \A i : (Recorded(i)' <=> Recorded(i)) /\ Moves(i)' = Moves(i)
      BY <1>1 DEF vars, Recorded, Moves
    <3> QED
      BY <2>1, <2>2, <2>3, <2>4, <2>5, <3>1 DEF SlotsInv
<1> QED
  BY <1>2, <1>3, <1>4, <1>9

\* The steps of RunTournament: a worker claims an empty slot and leaves a full one.
LEMMA WorkerSlots ==
    ASSUME IInv, SlotsInv, NEW w \in Workers, at = "play", WorkerStep(w)
    PROVE  SlotsInv'
<1>1. \A v \in Workers : made'[v] = IF v = w THEN 0 ELSE made[v]
  BY DEF WorkerStep, SlotsInv
<1>2. made' \in [Workers -> Nat] /\ recordings' = recordings
  BY DEF WorkerStep, SlotsInv
<1>3. games' = games
  BY DEF WorkerStep, Step, Claim, Play, LockPrint, Announce
<1>4. \A i : Moves(i)' = Moves(i)
  BY <1>3 DEF Moves
<1>5. \A v \in Workers : pc[v] = "play" => task[v] \in TaskIds /\ task[v] \in Nat
  BY Constants DEF IInv, TypeOK, OnTask
<1>6. CASE Claim(w)
  <2>1. \A v \in Workers : pc'[v] = IF v = w THEN IF next_task < Len(Tasks) THEN "play" ELSE "done"
                                    ELSE pc[v]
    BY <1>6 DEF Claim, GoTo, IInv, TypeOK
  <2>2. \A v \in Workers : task'[v] = IF v = w THEN next_task ELSE task[v]
    BY <1>6 DEF Claim, IInv, TypeOK
  <2>3. next_task' = next_task + 1 /\ next_task \in Nat
    BY <1>6 DEF Claim, IInv, TypeOK
  <2>4. \A i \in TaskIds : Recorded(i)' <=> Recorded(i)
    BY <1>6, ClaimKeeps
  <2>5. next_task < Len(Tasks) => next_task \in TaskIds /\ Moves(next_task) \in Nat
    BY <2>3, Constants, MovesType DEF TaskIds, IInv
  <2>6. Recording /\ next_task < Len(Tasks) => recordings[next_task] = Made(next_task, 0)
    BY <2>3, <2>5, NothingMade DEF SlotsInv
  <2>7. \A i \in TaskIds : i >= next_task' => i >= next_task
    BY <2>3, Constants
  <2>8. \A v \in Workers : (IF pc[v] = "play" THEN made[v] <= Moves(task[v]) ELSE made[v] = 0)'
    BY <1>1, <1>4, <2>1, <2>2, <2>5 DEF SlotsInv
  <2>9. ASSUME Recording, NEW v \in Workers, pc'[v] = "play"
        PROVE  recordings[task'[v]] = Made(task'[v], made'[v])
    BY <2>9, <1>1, <2>1, <2>2, <2>6 DEF SlotsInv
  <2> QED
    BY <1>2, <1>4, <2>4, <2>7, <2>8, <2>9 DEF SlotsInv
<1>7. CASE Play(w)
  <2>1. /\ task[w] \in TaskIds
        /\ \A i \in TaskIds : Recorded(i)' <=> Recorded(i) \/ i = task[w]
    BY <1>7, PlayKeeps
  <2>2. pc[w] = "play" /\ made[w] = Moves(task[w]) /\ UNCHANGED <<task, next_task>>
    BY <1>7 DEF Play, WorkerStep
  <2>3. \A v \in Workers : pc'[v] = IF v = w THEN "lock" ELSE pc[v]
    BY <1>7 DEF Play, GoTo, IInv, TypeOK
  <2>4. Recording => recordings[task[w]] = Made(task[w], Moves(task[w]))
    BY <2>2 DEF SlotsInv
  <2>5. \A v \in Workers : (IF pc[v] = "play" THEN made[v] <= Moves(task[v]) ELSE made[v] = 0)'
    BY <1>1, <1>4, <2>2, <2>3 DEF SlotsInv
  <2> QED
    BY <1>1, <1>2, <1>4, <2>1, <2>2, <2>3, <2>4, <2>5 DEF SlotsInv
<1>8. CASE LockPrint(w) \/ Announce(w)
  <2>1. \A i \in TaskIds : Recorded(i)' <=> Recorded(i)
    BY <1>8, LockPrintKeeps, AnnounceKeeps
  <2>2. UNCHANGED <<task, next_task>> /\ pc[w] # "play"
    BY <1>8 DEF LockPrint, Announce
  <2>3. \A v \in Workers : IF v = w THEN pc'[v] # "play" ELSE pc'[v] = pc[v]
    BY <1>8 DEF LockPrint, Announce, GoTo, IInv, TypeOK
  <2>4. \A v \in Workers : (IF pc[v] = "play" THEN made[v] <= Moves(task[v]) ELSE made[v] = 0)'
    BY <1>1, <1>4, <2>2, <2>3 DEF SlotsInv
  <2> QED
    BY <1>1, <1>2, <1>4, <2>1, <2>2, <2>3, <2>4 DEF SlotsInv
<1> QED
  BY <1>6, <1>7, <1>8 DEF WorkerStep, Step

LEMMA WorkerStepKeeps ==
    ASSUME ProgramInv, NEW w \in Workers, WorkerStep(w)
    PROVE  ProgramInv'
<1> USE DEF ProgramInv
<1>1. at = "play" /\ Step(w) /\ UNCHANGED <<at, policies, written, files>>
  BY DEF WorkerStep
<1>2. IInv'
  BY <1>1, NextIInv DEF Next
<1>3. pc[w] \notin {"done", "returned"}
  BY <1>1 DEF Step, Claim, Play, LockPrint, Announce
<1>4. pc[Main] # "returned"
  BY <1>3, NobodyWorks
<1>5. MainInv'
  BY <1>1, <1>4 DEF MainInv
<1>6. FilesInv'
  <2>1. games' = games
    BY <1>1 DEF Step, Claim, Play, LockPrint, Announce
  <2> QED
    BY <1>1, <2>1, FilesAtRest
<1>7. SlotsInv'
  BY <1>1, WorkerSlots
<1> QED
  BY <1>2, <1>5, <1>6, <1>7

\* Spawning, joining, and what main makes of the return.
LEMMA MainStepKeeps ==
    ASSUME ProgramInv, MainStep
    PROVE  ProgramInv'
<1> USE DEF ProgramInv
<1>1. at = "play" /\ Manage /\ UNCHANGED <<policies, made, recordings, written, files>>
  BY DEF MainStep
<1>2. IInv'
  BY <1>1, NextIInv DEF Next
<1>3. UNCHANGED <<games, next_task, task>>
  BY <1>1 DEF Manage, StartWorking, SpawnNext, Join
<1>4. \A w \in Workers : (pc[w] # "play" /\ pc'[w] # "play") \/ pc'[w] = pc[w]
  BY <1>1, Constants DEF Manage, StartWorking, SpawnNext, Join, GoTo, IInv, TypeOK
<1>5. SlotsInv'
  <2>1. \A i : (Recorded(i)' <=> Recorded(i)) /\ Moves(i)' = Moves(i)
    BY <1>3, <1>4 DEF Recorded, Moves
  <2> QED
    BY <1>1, <1>3, <1>4, <2>1 DEF SlotsInv
<1>6. FilesInv'
  BY <1>1, <1>3, FilesAtRest
<1>7. MainInv'
  <2>1. at' = IF pc'[Main] # "returned" THEN at ELSE IF Recording THEN "write" ELSE "report"
    BY DEF MainStep
  <2>2. pc[Main] # "returned"
    BY <1>1, Constants DEF Manage, StartWorking, SpawnNext, Join
  <2> QED
    BY <1>1, <2>1, <2>2 DEF MainInv
<1> QED
  BY <1>2, <1>5, <1>6, <1>7

\* The slots are read when nobody writes them any more, one new file for each.
LEMMA WriteFileKeeps ==
    ASSUME ProgramInv, WriteFile
    PROVE  ProgramInv'
<1> USE DEF ProgramInv
<1>1. /\ at = "write" /\ written < Len(Tasks) /\ written' = written + 1
      /\ UNCHANGED <<vars, at, policies, made, recordings>>
  BY DEF WriteFile
<1>2. IInv'
  BY <1>1, NextIInv
<1>3. SlotsInv'
  BY <1>1, SlotsAtRest
<1>4. written \in Nat /\ written \in TaskIds /\ Recording /\ pc[Main] = "returned"
  BY <1>1, Constants DEF MainInv, TaskIds
<1>5. MainInv'
  BY <1>1, <1>4, Constants DEF MainInv, vars
<1>6. Recorded(written)
  BY <1>4, NobodyWorks, AllRecorded
<1>7. recordings[written] = Made(written, Moves(written)) /\ records[written] = Record(written)
  BY <1>4, <1>6 DEF SlotsInv, IInv, TaskState
<1>8. FilesInv'
  <2>1. \A i : /\ Path(i)' = Path(i) /\ Moves(i)' = Moves(i)
               /\ Record(i)' = Record(i)
    BY <1>1 DEF Path, Moves, Record, vars
  <2>2. 0 .. written' - 1 = (0 .. written - 1) \cup {written}
    BY <1>1, <1>4
  <2>3. Path(written) \notin DOMAIN files
    BY <1>4, PathsDiffer DEF FilesInv
  <2>4. DOMAIN files' = DOMAIN files \cup {Path(written)}
    BY DEF WriteFile
  <2>5. DOMAIN files' = {Path(i) : i \in 0 .. written' - 1}
    BY <2>2, <2>4 DEF FilesInv
  <2>6. IsFiniteSet(DOMAIN files') /\ Cardinality(DOMAIN files') = written'
    <3>1. IsFiniteSet(DOMAIN files) /\ Cardinality(DOMAIN files) = written
      BY DEF FilesInv
    <3>2. /\ IsFiniteSet(DOMAIN files \cup {Path(written)})
          /\ Cardinality(DOMAIN files \cup {Path(written)}) = written + 1
      BY <2>3, <3>1, FS_AddElement
    <3> QED
      BY <1>1, <2>4, <3>2
  <2>7. ASSUME NEW i \in 0 .. written - 1
        PROVE  files'[Path(i)] = [steps |-> Made(i, Moves(i)), result |-> Result(Record(i))]
    <3>1. Path(i) \in DOMAIN files /\ Path(i) # Path(written)
      BY <1>4, PathsDiffer DEF FilesInv
    <3>2. files'[Path(i)] = files[Path(i)]
      BY <3>1 DEF WriteFile
    <3> QED
      BY <3>2 DEF FilesInv
  <2>8. files'[Path(written)] =
            [steps |-> Made(written, Moves(written)), result |-> Result(Record(written))]
    BY <1>7 DEF WriteFile
  <2>9. \A i \in 0 .. written' - 1 :
            files'[Path(i)] = [steps |-> Made(i, Moves(i)), result |-> Result(Record(i))]
    BY <2>2, <2>7, <2>8
  <2> QED
    <3>1. {Path(i)' : i \in 0 .. written' - 1} = {Path(i) : i \in 0 .. written' - 1}
      BY <2>1
    <3>2. \A i \in 0 .. written' - 1 :
             files'[Path(i)'] = [steps |-> Made(i, Moves(i)'), result |-> Result(Record(i)')]
      BY <2>1, <2>9
    <3> QED
      BY <2>5, <2>6, <3>1, <3>2 DEF FilesInv, Made, Result
<1> QED
  BY <1>2, <1>3, <1>5, <1>8

LEMMA LeavesPlayKeeps ==
    ASSUME ProgramInv, WriteFails \/ WroteAll \/ Report
    PROVE  ProgramInv'
<1> USE DEF ProgramInv
<1>1. UNCHANGED <<vars, policies, made, recordings, written, files>>
  BY DEF WriteFails, WroteAll, Report
<1>2. IInv'
  BY <1>1, NextIInv
<1>3. SlotsInv'
  BY <1>1, SlotsAtRest
<1>4. FilesInv'
  BY <1>1, FilesAtRest DEF vars
<1>5. MainInv'
  BY <1>1, Constants DEF MainInv, WriteFails, WroteAll, Report, vars
<1> QED
  BY <1>2, <1>3, <1>4, <1>5

LEMMA NextProgramInv == ProgramInv /\ [ProgramNext]_allVars => ProgramInv'
<1> SUFFICES ASSUME ProgramInv, [ProgramNext]_allVars PROVE ProgramInv'
  OBVIOUS
<1>1. CASE MainStep
  BY <1>1, MainStepKeeps
<1>2. CASE AfterPlay
  BY <1>2, WriteFileKeeps, LeavesPlayKeeps DEF AfterPlay
<1>3. ASSUME NEW w \in Workers, Move(w) PROVE ProgramInv'
  BY <1>3, MoveKeeps
<1>4. ASSUME NEW w \in Workers, WorkerStep(w) PROVE ProgramInv'
  BY <1>4, WorkerStepKeeps
<1>5. CASE UNCHANGED allVars
  <2>1. UNCHANGED vars /\ UNCHANGED programVars
    BY <1>5 DEF allVars
  <2>2. IInv'
    BY <2>1, NextIInv DEF ProgramInv
  <2>3. SlotsInv' /\ FilesInv'
    BY <2>1, SlotsAtRest, FilesAtRest DEF ProgramInv, programVars, vars
  <2>4. MainInv'
    BY <2>1 DEF ProgramInv, MainInv, programVars, vars
  <2> QED
    BY <2>2, <2>3, <2>4 DEF ProgramInv
<1> QED
  BY <1>1, <1>2, <1>3, <1>4, <1>5 DEF ProgramNext

\* The strengthening is inductive: main stands where its threads, its slots and its
\* files say, whatever the order of the workers' moves.
THEOREM ProgramKeepsInv == ProgramSpec => []ProgramInv
  BY InitProgramInv, NextProgramInv, PTL DEF ProgramSpec

-----------------------------------------------------------------------------
\* The recordings' slots are shared without a lock, and yet every file tells its
\* own game, whole and with the result that counts; a program that succeeds has
\* left one for every game.
THEOREM RecordingsAreGames == ProgramSpec => []RecordingsMatch
<1>1. ProgramInv => RecordingsMatch
  <2> SUFFICES ASSUME ProgramInv PROVE RecordingsMatch
    OBVIOUS
  <2>1. at = "exited" /\ Recording => Cardinality(DOMAIN files) = Len(Tasks)
    BY DEF ProgramInv, MainInv, FilesInv
  <2>2. \A i \in 0 .. written - 1 :
           files[Path(i)] = [steps |-> Made(i, Moves(i)), result |-> Result(Record(i))]
    BY DEF ProgramInv, FilesInv
  <2>3. ASSUME NEW i \in 0 .. written - 1
        PROVE  /\ files[Path(i)].steps = [n \in 1 .. Moves(i) |-> <<i, n>>]
               /\ files[Path(i)].result = Result(Record(i))
    <3>1. files[Path(i)] = [steps |-> Made(i, Moves(i)), result |-> Result(Record(i))]
      BY <2>2
    <3>2. Made(i, Moves(i)) = [n \in 1 .. Moves(i) |-> <<i, n>>]
      BY DEF Made
    <3>3. files[Path(i)].steps = Made(i, Moves(i))
      BY <3>1
    <3>4. files[Path(i)].result = Result(Record(i))
      BY <3>1
    <3> QED
      BY <3>2, <3>3, <3>4
  <2> QED
    BY <2>1, <2>3 DEF RecordingsMatch
<1> QED
  BY <1>1, ProgramKeepsInv, PTL

\* The program runs the tournament as RunTournament describes it, and no error
\* of its own makes it do anything else.
LEMMA StepIsTournaments == [ProgramNext]_allVars => [Next]_vars
  BY DEF ProgramNext, MainStep, AfterPlay, WriteFile, WriteFails, WroteAll, Report, Move,
         WorkerStep, allVars, Next

THEOREM ProgramRunsTournament == ProgramSpec => Init /\ [][Next]_vars
<1>1. ProgramInit => Init
  BY DEF ProgramInit
<1> QED
  BY <1>1, StepIsTournaments, PTL DEF ProgramSpec

\* In the program too no task is two workers', and a record is written once.
THEOREM ProgramTasksDisjoint == ProgramSpec => []TaskState
<1>1. ProgramInv => TaskState
  BY DEF ProgramInv, IInv
<1> QED
  BY <1>1, ProgramKeepsInv, PTL

\* And the program's tournament implements the promise to the caller.
THEOREM ProgramKeepsPromise == ProgramSpec => PromisedSafety
<1>1. ProgramInit => Outcome!Init
  BY InitPromised DEF ProgramInit
<1>2. ProgramInv /\ [ProgramNext]_allVars => [Outcome!Next]_Outcome!vars
  BY StepIsTournaments, NextPromised DEF ProgramInv
<1> QED
  BY <1>1, <1>2, ProgramKeepsInv, PTL DEF ProgramSpec, PromisedSafety, Outcome!Safety
-----------------------------------------------------------------------------
(* The schedule, and what is counted from its records.  That the tasks are *)
(* BuildRoundRobin's is what risk_tournament.cpp makes them.               *)

Scheduled == Tasks = BuildRoundRobin

EarlierPairs == {mn \in Meetings \X Meetings : Earlier(mn[1], mn[2])}

LEMMA MeetingsFinite ==
    /\ IsFiniteSet(Meetings) /\ Cardinality(Meetings) \in Nat
    /\ IsFiniteSet(Policies) /\ Cardinality(Policies) = NumPolicies
    /\ IsFiniteSet(0 .. GamesPerPair - 1) /\ Cardinality(0 .. GamesPerPair - 1) = GamesPerPair
<1>1. ASSUME NEW n \in Nat
      PROVE  IsFiniteSet(0 .. n - 1) /\ Cardinality(0 .. n - 1) = n
  <2>1. 0 \in Int /\ n - 1 \in Int /\ (0 > n - 1 => n = 0) /\ n - 1 - 0 + 1 = n
    OBVIOUS
  <2> QED
    BY <2>1, FS_Interval
<1>2. /\ IsFiniteSet(Policies) /\ Cardinality(Policies) = NumPolicies
      /\ IsFiniteSet(0 .. GamesPerPair - 1) /\ Cardinality(0 .. GamesPerPair - 1) = GamesPerPair
  BY <1>1, RoundRobinAssumption DEF Policies
<1> DEFINE numbers == 0 .. GamesPerPair - 1
           all == (Policies \X Policies) \X numbers
           f == [m \in Meetings |-> <<<<m[1], m[2]>>, m[3]>>]
<1>3. IsFiniteSet(all)
  <2> HIDE DEF numbers
  <2> QED
    BY <1>2, FS_Product DEF numbers
<1>4. \A m \in Meetings : /\ m[1] \in Policies /\ m[2] \in Policies /\ m[3] \in numbers
                          /\ m = <<m[1], m[2], m[3]>>
  BY DEF Meetings
<1>5. f \in Injection(Meetings, all)
  <2>1. f \in [Meetings -> all]
    BY <1>4
  <2>2. \A m, n \in Meetings : f[m] = f[n] => m = n
    BY <1>4
  <2> HIDE DEF f, all
  <2> QED
    BY <2>1, <2>2 DEF Injection, IsInjective
<1>6. IsFiniteSet(Meetings)
  <2> HIDE DEF f, all
  <2> QED
    BY <1>3, <1>5, FS_Injection
<1> QED
  BY <1>2, <1>6, FS_CardinalityType

\* The loops come to every meeting once.
LEMMA OrderIs == InOrder \in Bijection(1 .. Cardinality(Meetings), Meetings)
<1>1. \A m \in Meetings : m[1] \in Int /\ m[2] \in Int /\ m[3] \in Int /\ m = <<m[1], m[2], m[3]>>
  BY RoundRobinAssumption DEF Meetings, Policies
<1>2. \A m \in Meetings : ~Earlier(m, m)
  BY <1>1 DEF Earlier
<1>3. \A m, n \in Meetings : m # n => (Earlier(m, n) <=> ~Earlier(n, m))
  <2> SUFFICES ASSUME NEW m \in Meetings, NEW n \in Meetings, m # n
               PROVE  Earlier(m, n) <=> ~Earlier(n, m)
    OBVIOUS
  <2>1. m[1] # n[1] \/ m[2] # n[2] \/ m[3] # n[3]
    BY <1>1
  <2> QED
    BY <1>1, <2>1 DEF Earlier
<1>4. ASSUME NEW l \in Meetings, NEW m \in Meetings, NEW n \in Meetings,
             Earlier(l, m), Earlier(m, n)
      PROVE  Earlier(l, n)
  BY <1>1, <1>4 DEF Earlier
<1>5. \A m, n \in Meetings : <<m, n>> \in EarlierPairs <=> Earlier(m, n)
  BY DEF EarlierPairs
<1>6. Strict(EarlierPairs, Meetings)
  BY <1>3, <1>4, <1>5 DEF Strict
<1>7. PICK s \in [1 .. Cardinality(Meetings) -> Meetings] : Sorted(s, EarlierPairs)
  BY <1>6, MeetingsFinite, SortExists
<1>8. \A order \in [1 .. Cardinality(Meetings) -> Meetings] :
          Sorted(order, EarlierPairs)
              <=> \A i, j \in DOMAIN order : i < j => Earlier(order[i], order[j])
  BY <1>5 DEF Sorted
<1>9. InOrder \in [1 .. Cardinality(Meetings) -> Meetings] /\ Sorted(InOrder, EarlierPairs)
  <2>1. /\ InOrder \in [1 .. Cardinality(Meetings) -> Meetings]
        /\ \A i, j \in DOMAIN InOrder : i < j => Earlier(InOrder[i], InOrder[j])
    BY <1>7, <1>8 DEF InOrder
  <2> QED
    BY <1>8, <2>1
<1> QED
  BY <1>2, <1>5, <1>9, MeetingsFinite, SortedBijection

\* Games of the schedule, counted by task or by meeting.
TasksIn(X) == {i \in TaskIds : Tasks[i + 1] \in X}
MeetingsIn(X) == {m \in Meetings : Seats(m) \in X}

LEMMA CountedByMeeting ==
    ASSUME Scheduled, NEW X
    PROVE  IsFiniteSet(TasksIn(X)) /\ Cardinality(TasksIn(X)) = Cardinality(MeetingsIn(X))
<1> DEFINE n == Cardinality(Meetings)
           f == [i \in TasksIn(X) |-> InOrder[i + 1]]
<1>1. /\ InOrder \in [1 .. n -> Meetings]
      /\ \A i, j \in 1 .. n : InOrder[i] = InOrder[j] => i = j
      /\ \A m \in Meetings : \E i \in 1 .. n : InOrder[i] = m
  <2> DEFINE dom == 1 .. n
  <2>1. InOrder \in Bijection(dom, Meetings)
    BY OrderIs
  <2>2. InOrder \in [dom -> Meetings] /\ (\A i, j \in dom : InOrder[i] = InOrder[j] => i = j)
    <3> HIDE DEF dom
    <3> QED
      BY <2>1 DEF Bijection, Injection, IsInjective
  <2>3. \A m \in Meetings : \E i \in dom : InOrder[i] = m
    <3> HIDE DEF dom
    <3> QED
      BY <2>1 DEF Bijection, Surjection
  <2> QED
    BY <2>2, <2>3
<1>2. n \in Nat
  BY MeetingsFinite
<1> HIDE DEF n
<1>3. DOMAIN Tasks = 1 .. n /\ \A i \in 1 .. n : Tasks[i] = Seats(InOrder[i])
  BY <1>1 DEF Scheduled, BuildRoundRobin
<1>4. Len(Tasks) = n
  BY <1>2, <1>3, TasksAssumption
<1>5. TaskIds = 0 .. n - 1 /\ \A i \in TaskIds : i + 1 \in 1 .. n /\ i \in Int
  BY <1>2, <1>4 DEF TaskIds
<1>6. f \in [TasksIn(X) -> MeetingsIn(X)]
  BY <1>1, <1>3, <1>5 DEF TasksIn, MeetingsIn
<1>7. \A i, j \in TasksIn(X) : f[i] = f[j] => i = j
  <2> SUFFICES ASSUME NEW i \in TasksIn(X), NEW j \in TasksIn(X), f[i] = f[j]  PROVE i = j
    OBVIOUS
  <2>1. i \in TaskIds /\ j \in TaskIds
    BY DEF TasksIn
  <2>2. i + 1 = j + 1
    BY <1>1, <1>5, <2>1
  <2> QED
    BY <1>5, <2>1, <2>2
<1>8. \A m \in MeetingsIn(X) : \E i \in TasksIn(X) : f[i] = m
  <2> SUFFICES ASSUME NEW m \in MeetingsIn(X)  PROVE \E i \in TasksIn(X) : f[i] = m
    OBVIOUS
  <2>1. m \in Meetings /\ Seats(m) \in X
    BY DEF MeetingsIn
  <2>2. PICK j \in 1 .. n : InOrder[j] = m
    BY <1>1, <2>1
  <2>3. j - 1 \in TaskIds /\ (j - 1) + 1 = j
    BY <1>2, <1>5, <2>2
  <2>4. j - 1 \in TasksIn(X)
    BY <1>3, <2>1, <2>2, <2>3 DEF TasksIn
  <2>5. f[j - 1] = m
    BY <2>2, <2>3, <2>4
  <2> QED
    BY <2>4, <2>5
<1>9. f \in Bijection(TasksIn(X), MeetingsIn(X))
  <2> HIDE DEF f
  <2> QED
    BY <1>6, <1>7, <1>8 DEF Bijection, Injection, IsInjective, Surjection
<1>10. IsFiniteSet(TasksIn(X))
  <2>1. IsFiniteSet(0 .. n - 1)
    BY <1>2, FS_Interval
  <2> QED
    BY <1>5, <2>1, FS_Subset DEF TasksIn
<1> QED
  BY <1>9, <1>10, FS_Bijection DEF ExistsBijection

\* Every other game of a pair has its first seats.
Evens == {k \in 0 .. GamesPerPair - 1 : k % 2 = 0}
Odds == {k \in 0 .. GamesPerPair - 1 : k % 2 # 0}

LEMMA EveryOther ==
    Cardinality(Evens) + Cardinality(Odds) = GamesPerPair /\ Cardinality(Evens) - Cardinality(Odds) \in {0, 1}
<1> DEFINE all == 0 .. GamesPerPair - 1
<1>1. IsFiniteSet(all) /\ Cardinality(all) = GamesPerPair /\ GamesPerPair \in Nat
  BY MeetingsFinite, RoundRobinAssumption
<1>2. Evens \cup Odds = all /\ Evens \cap Odds = {}
  BY DEF Evens, Odds
<1>3. Evens \subseteq all /\ Odds \subseteq all
  BY DEF Evens, Odds
<1> HIDE DEF all
<1>4. /\ IsFiniteSet(Evens) /\ IsFiniteSet(Odds)
      /\ Cardinality(Evens) \in Nat /\ Cardinality(Odds) \in Nat
  BY <1>1, <1>3, FS_Subset, FS_CardinalityType
<1>5. Cardinality(Evens) + Cardinality(Odds) = GamesPerPair
  <2>1. Cardinality(all) = Cardinality(Evens) + Cardinality(Odds) - Cardinality({})
    BY <1>2, <1>4, FS_Union
  <2> QED
    BY <1>1, <1>4, <2>1, FS_EmptySet
<1>6. \A k \in Nat \ {0} : k - 1 \in Nat /\ (k % 2 # 0 => (k - 1) % 2 = 0) /\ (k % 2 = 0 => (k - 1) % 2 # 0)
  OBVIOUS
<1>7. 0 % 2 = 0
  OBVIOUS
<1>8. \A k \in all : k \in Nat /\ (k # 0 => k - 1 \in all)
  BY <1>1 DEF all
<1>9. Cardinality(Odds) <= Cardinality(Evens)
  <2> DEFINE f == [k \in Odds |-> k - 1]
  <2>1. f \in [Odds -> Evens]
    BY <1>6, <1>7, <1>8 DEF Odds, Evens, all
  <2>2. \A i, j \in Odds : f[i] = f[j] => i = j
    BY <1>3, <1>8
  <2> HIDE DEF f
  <2>3. f \in Injection(Odds, Evens)
    BY <2>1, <2>2 DEF Injection, IsInjective
  <2> QED
    BY <1>4, <2>3, FS_Injection
<1>10. Cardinality(Evens) - 1 <= Cardinality(Odds)
  <2> DEFINE rest == Evens \ {0}
             f == [k \in rest |-> k - 1]
  <2>1. f \in [rest -> Odds]
    BY <1>6, <1>7, <1>8 DEF Odds, Evens, all
  <2>2. \A i, j \in rest : f[i] = f[j] => i = j
    BY <1>3, <1>8
  <2>3. Cardinality(rest) >= Cardinality(Evens) - 1
    BY <1>4, FS_RemoveElement
  <2>4. Cardinality(rest) \in Nat
    BY <1>4, FS_Subset, FS_CardinalityType
  <2> HIDE DEF f, rest
  <2>5. f \in Injection(rest, Odds)
    BY <2>1, <2>2 DEF Injection, IsInjective
  <2>6. Cardinality(rest) <= Cardinality(Odds)
    BY <1>4, <2>5, FS_Injection
  <2> QED
    BY <1>4, <2>3, <2>4, <2>6
<1> QED
  BY <1>4, <1>5, <1>9, <1>10

\* The meetings in which one policy has the first seat and another the second.
LEMMA MeetingsOf ==
    ASSUME NEW p \in Policies, NEW q \in Policies, p < q
    PROVE  /\ Cardinality(MeetingsIn({[a |-> p, b |-> q]})) = Cardinality(Evens)
           /\ Cardinality(MeetingsIn({[a |-> q, b |-> p]})) = Cardinality(Odds)
<1> DEFINE low == {[a |-> p, b |-> q]}
           high == {[a |-> q, b |-> p]}
           f == [k \in Evens |-> <<p, q, k>>]
           g == [k \in Odds |-> <<p, q, k>>]
<1>1. p \in Int /\ q \in Int /\ ~(q < p) /\ p # q
  BY RoundRobinAssumption DEF Policies
<1>2. \A k \in 0 .. GamesPerPair - 1 : <<p, q, k>> \in Meetings
  BY DEF Meetings
<1>3. \A m \in Meetings :
          /\ m = <<m[1], m[2], m[3]>> /\ m[1] < m[2] /\ m[3] \in 0 .. GamesPerPair - 1
          /\ m[1] \in Int /\ m[2] \in Int
  BY RoundRobinAssumption DEF Meetings, Policies
<1>4. \A m \in Meetings : Seats(m).a = p /\ Seats(m).b = q => m = <<p, q, m[3]>> /\ m[3] \in Evens
  BY <1>1, <1>3 DEF Seats, Evens
<1>5. \A m \in Meetings : Seats(m).a = q /\ Seats(m).b = p => m = <<p, q, m[3]>> /\ m[3] \in Odds
  BY <1>1, <1>3 DEF Seats, Odds
<1>6. \A k \in Evens : Seats(<<p, q, k>>) = [a |-> p, b |-> q]
  BY DEF Seats, Evens
<1>7. \A k \in Odds : Seats(<<p, q, k>>) = [a |-> q, b |-> p]
  BY DEF Seats, Odds
<1>8. MeetingsIn(low) = {<<p, q, k>> : k \in Evens}
  BY <1>2, <1>4, <1>6 DEF MeetingsIn, Evens
<1>9. MeetingsIn(high) = {<<p, q, k>> : k \in Odds}
  BY <1>2, <1>5, <1>7 DEF MeetingsIn, Odds
<1>10. f \in Bijection(Evens, {<<p, q, k>> : k \in Evens})
  BY DEF Bijection, Injection, IsInjective, Surjection
<1>11. g \in Bijection(Odds, {<<p, q, k>> : k \in Odds})
  BY DEF Bijection, Injection, IsInjective, Surjection
<1>12. IsFiniteSet(Evens) /\ IsFiniteSet(Odds)
  BY MeetingsFinite, FS_Subset DEF Evens, Odds
<1> HIDE DEF f, g, low, high
<1>13. Cardinality(MeetingsIn(low)) = Cardinality(Evens)
  BY <1>8, <1>10, <1>12, FS_Bijection DEF ExistsBijection
<1>14. Cardinality(MeetingsIn(high)) = Cardinality(Odds)
  BY <1>9, <1>11, <1>12, FS_Bijection DEF ExistsBijection
<1> QED
  BY <1>13, <1>14 DEF low, high

\* What the records tell once they are all there.
LEMMA RecordsTell ==
    ASSUME IInv, pc[Main] = "returned", NEW i \in TaskIds
    PROVE  /\ records[i].policy_a = Tasks[i + 1].a /\ records[i].policy_b = Tasks[i + 1].b
           /\ records[i].score \in {0, 1, 2}
           /\ Tasks[i + 1] \in [a : Nat, b : Nat]
<1>1. records[i] = Record(i)
  BY AllReturned DEF ReturnsEverything
<1>2. i + 1 \in 1 .. Len(Tasks)
  BY TasksAssumption DEF TaskIds
<1>3. Tasks[i + 1] \in [a : Nat, b : Nat]
  BY <1>2, TasksAssumption, ElementOfSeq
<1> QED
  BY <1>1, <1>3 DEF Record

LEMMA SeatsAreShared == Scheduled /\ IInv => SeatsShared
<1> SUFFICES ASSUME Scheduled, IInv, pc[Main] = "returned",
                    NEW p \in Policies, NEW q \in Policies, p < q
             PROVE  Met(p, q) + Met(q, p) = GamesPerPair /\ Met(p, q) - Met(q, p) \in {0, 1}
  BY DEF SeatsShared
<1>1. ASSUME NEW c \in Policies, NEW d \in Policies
      PROVE  Met(c, d) = Cardinality(MeetingsIn({[a |-> c, b |-> d]}))
  <2>1. \A i \in TaskIds :
            records[i].policy_a = c /\ records[i].policy_b = d <=> Tasks[i + 1] = [a |-> c, b |-> d]
    BY RecordsTell
  <2>2. {i \in TaskIds : records[i].policy_a = c /\ records[i].policy_b = d}
            = TasksIn({[a |-> c, b |-> d]})
    BY <2>1 DEF TasksIn
  <2>3. Met(c, d) = Cardinality(TasksIn({[a |-> c, b |-> d]}))
    BY <2>2 DEF Met, RecordsWith
  <2> QED
    BY <2>3, CountedByMeeting
<1>2. /\ Cardinality(MeetingsIn({[a |-> p, b |-> q]})) = Cardinality(Evens)
      /\ Cardinality(MeetingsIn({[a |-> q, b |-> p]})) = Cardinality(Odds)
  BY MeetingsOf
<1>3. /\ Met(p, q) = Cardinality(MeetingsIn({[a |-> p, b |-> q]}))
      /\ Met(q, p) = Cardinality(MeetingsIn({[a |-> q, b |-> p]}))
  BY <1>1
<1> QED
  BY <1>2, <1>3, EveryOther

\* RunTournament's records of a round robin: any two policies have met as often
\* as was asked for, and have shared the first seat.
THEOREM SeatsAlwaysShared == ASSUME Scheduled PROVE ProgramSpec => []SeatsShared
<1>1. ProgramInv => SeatsShared
  BY SeatsAreShared DEF ProgramInv
<1> QED
  BY <1>1, ProgramKeepsInv, PTL

\* A task is a game of two policies.
With(p) == {t \in [a : Policies, b : Policies] : p \in {t.a, t.b}}

LEMMA TaskIsMeeting ==
    ASSUME Scheduled, NEW i \in TaskIds
    PROVE  Tasks[i + 1] \in [a : Policies, b : Policies] /\ Tasks[i + 1].a # Tasks[i + 1].b
<1> DEFINE n == Cardinality(Meetings)
           dom == 1 .. n
<1>1. InOrder \in [dom -> Meetings]
  <2>1. InOrder \in Bijection(dom, Meetings)
    BY OrderIs
  <2> HIDE DEF dom
  <2> QED
    BY <2>1 DEF Bijection, Injection
<1>2. n \in Nat
  BY MeetingsFinite
<1> HIDE DEF n
<1>3. DOMAIN Tasks = 1 .. n /\ \A j \in 1 .. n : Tasks[j] = Seats(InOrder[j])
  BY <1>1 DEF Scheduled, BuildRoundRobin
<1>4. i + 1 \in 1 .. n
  BY <1>2, <1>3, TasksAssumption DEF TaskIds
<1>5. InOrder[i + 1] \in Meetings /\ Tasks[i + 1] = Seats(InOrder[i + 1])
  BY <1>1, <1>3, <1>4
<1>6. \A m \in Meetings : Seats(m) \in [a : Policies, b : Policies] /\ Seats(m).a # Seats(m).b
  BY RoundRobinAssumption DEF Seats, Meetings, Policies
<1> QED
  BY <1>5, <1>6

\* A policy's meetings are those with each of the others.
LEMMA MeetingsWith ==
    ASSUME NEW p \in Policies
    PROVE  Cardinality(MeetingsIn(With(p))) = (NumPolicies - 1) * GamesPerPair
<1> DEFINE others == Policies \ {p}
           numbers == 0 .. GamesPerPair - 1
           all == others \X numbers
           f == [c \in all |-> IF c[1] < p THEN <<c[1], p, c[2]>> ELSE <<p, c[1], c[2]>>]
<1>1. p \in Int /\ \A q \in Policies : q \in Int /\ (q # p => (q < p <=> ~(p < q)))
  BY RoundRobinAssumption DEF Policies
<1>2. \A m \in Meetings :
          /\ m[1] \in Policies /\ m[2] \in Policies /\ m[1] < m[2] /\ m[3] \in numbers
          /\ m = <<m[1], m[2], m[3]>> /\ m[1] # m[2]
  BY <1>1, RoundRobinAssumption DEF Meetings, Policies
<1>3. \A m \in Meetings : m \in MeetingsIn(With(p)) <=> p \in {m[1], m[2]}
  <2> TAKE m \in Meetings
  <2>1. Seats(m) \in [a : Policies, b : Policies] /\ {Seats(m).a, Seats(m).b} = {m[1], m[2]}
    BY <1>2 DEF Seats
  <2> QED
    BY <2>1 DEF MeetingsIn, With
<1>4. \A c \in all : f[c] \in Meetings /\ f[c] \in MeetingsIn(With(p))
  <2> TAKE c \in all
  <2>1. c[1] \in Policies /\ c[1] # p /\ c[2] \in numbers /\ c[1] \in Int
    BY <1>1
  <2>2. CASE c[1] < p
    <3>1. f[c] = <<c[1], p, c[2]>>
      BY <2>2
    <3>2. f[c] \in Meetings /\ f[c][2] = p
      BY <2>1, <2>2, <3>1 DEF Meetings
    <3> QED
      BY <1>3, <3>2
  <2>3. CASE ~(c[1] < p)
    <3>1. f[c] = <<p, c[1], c[2]>> /\ p < c[1]
      BY <1>1, <2>1, <2>3
    <3>2. f[c] \in Meetings /\ f[c][1] = p
      BY <2>1, <3>1 DEF Meetings
    <3> QED
      BY <1>3, <3>2
  <2> QED
    BY <2>2, <2>3
<1>5. \A c, d \in all : f[c] = f[d] => c = d
  <2> SUFFICES ASSUME NEW c \in all, NEW d \in all, f[c] = f[d]  PROVE c = d
    OBVIOUS
  <2>1. /\ c = <<c[1], c[2]>> /\ c[1] \in Policies /\ c[1] # p
        /\ d = <<d[1], d[2]>> /\ d[1] \in Policies /\ d[1] # p
    OBVIOUS
  <2>2. c[1] = d[1] /\ c[2] = d[2]
    BY <1>1, <2>1
  <2> QED
    BY <2>1, <2>2
<1>6. \A m \in MeetingsIn(With(p)) : \E c \in all : f[c] = m
  <2> SUFFICES ASSUME NEW m \in MeetingsIn(With(p))  PROVE \E c \in all : f[c] = m
    OBVIOUS
  <2>1. m \in Meetings
    BY DEF MeetingsIn
  <2>2. CASE m[1] = p
    <3>1. <<m[2], m[3]>> \in all /\ ~(m[2] < p)
      BY <1>1, <1>2, <2>1, <2>2
    <3>2. f[<<m[2], m[3]>>] = m
      BY <1>2, <2>1, <2>2, <3>1
    <3> QED
      BY <3>1, <3>2
  <2>3. CASE m[2] = p
    <3>1. <<m[1], m[3]>> \in all /\ m[1] < p
      BY <1>1, <1>2, <2>1, <2>3
    <3>2. f[<<m[1], m[3]>>] = m
      BY <1>2, <2>1, <2>3, <3>1
    <3> QED
      BY <3>1, <3>2
  <2> QED
    BY <1>3, <2>1, <2>2, <2>3
<1>7. f \in Bijection(all, MeetingsIn(With(p)))
  <2>1. f \in [all -> MeetingsIn(With(p))]
    BY <1>4
  <2> HIDE DEF f, all
  <2> QED
    BY <1>5, <1>6, <2>1 DEF Bijection, Injection, IsInjective, Surjection
<1>8. IsFiniteSet(all) /\ Cardinality(all) = (NumPolicies - 1) * GamesPerPair
  <2>1. IsFiniteSet(others) /\ Cardinality(others) = NumPolicies - 1
    BY MeetingsFinite, FS_RemoveElement
  <2>2. IsFiniteSet(numbers) /\ Cardinality(numbers) = GamesPerPair
    BY MeetingsFinite
  <2> HIDE DEF others, numbers
  <2>3. IsFiniteSet(others \X numbers)
    BY <2>1, <2>2, FS_Product
  <2>4. Cardinality(others \X numbers) = Cardinality(others) * Cardinality(numbers)
    BY <2>1, <2>2, FS_Product
  <2> QED
    BY <2>1, <2>2, <2>3, <2>4
<1> HIDE DEF f, all
<1> QED
  BY <1>7, <1>8, FS_Bijection DEF ExistsBijection

LEMMA GamesAllCounted ==
    ASSUME Scheduled, IInv, pc[Main] = "returned", NEW p \in Policies
    PROVE  Wins(p) + Draws(p) + Losses(p) = (NumPolicies - 1) * GamesPerPair
<1> DEFINE of(i) == records[i]
           won == {i \in TaskIds : \/ of(i).score = 2 /\ of(i).policy_a = p
                                   \/ of(i).score = 0 /\ of(i).policy_b = p}
           lost == {i \in TaskIds : \/ of(i).score = 2 /\ of(i).policy_b = p
                                    \/ of(i).score = 0 /\ of(i).policy_a = p}
           drawn == {i \in TaskIds : of(i).score = 1 /\ p \in {of(i).policy_a, of(i).policy_b}}
           ours == TasksIn(With(p))
<1>1. Wins(p) = Cardinality(won) /\ Draws(p) = Cardinality(drawn) /\ Losses(p) = Cardinality(lost)
  BY DEF Wins, Draws, Losses, RecordsWith
<1>2. \A i \in TaskIds :
          /\ of(i).score \in {0, 1, 2} /\ of(i).policy_a # of(i).policy_b
          /\ i \in ours <=> p \in {of(i).policy_a, of(i).policy_b}
  <2> TAKE i \in TaskIds
  <2>1. /\ of(i).policy_a = Tasks[i + 1].a /\ of(i).policy_b = Tasks[i + 1].b
        /\ of(i).score \in {0, 1, 2}
    BY RecordsTell
  <2>2. Tasks[i + 1] \in [a : Policies, b : Policies] /\ Tasks[i + 1].a # Tasks[i + 1].b
    BY TaskIsMeeting
  <2> QED
    BY <2>1, <2>2 DEF TasksIn, With
<1>3. ours \subseteq TaskIds
  BY DEF TasksIn
<1> HIDE DEF of, ours
<1>4. /\ (won \cup drawn) \cup lost = ours
      /\ won \cap drawn = {} /\ (won \cup drawn) \cap lost = {}
  BY <1>2, <1>3
<1>5. IsFiniteSet(ours) /\ Cardinality(ours) = (NumPolicies - 1) * GamesPerPair
  BY CountedByMeeting, MeetingsWith DEF ours
<1> HIDE DEF won, lost, drawn
<1>6. IsFiniteSet(won) /\ IsFiniteSet(lost) /\ IsFiniteSet(drawn)
  <2>1. won \subseteq ours /\ lost \subseteq ours /\ drawn \subseteq ours
    BY <1>4
  <2> QED
    BY <1>5, <2>1, FS_Subset
<1>7. /\ Cardinality(won) \in Nat /\ Cardinality(lost) \in Nat /\ Cardinality(drawn) \in Nat
      /\ Cardinality({}) = 0
  BY <1>6, FS_CardinalityType, FS_EmptySet
<1>8. /\ IsFiniteSet(won \cup drawn)
      /\ Cardinality(won \cup drawn) = Cardinality(won) + Cardinality(drawn) - Cardinality({})
  BY <1>4, <1>6, FS_Union
<1>9. Cardinality(ours)
          = Cardinality(won \cup drawn) + Cardinality(lost) - Cardinality({})
  BY <1>4, <1>6, <1>8, FS_Union
<1> QED
  BY <1>1, <1>5, <1>7, <1>8, <1>9

\* Every game that is not drawn has a winner and a loser.
Decided == {i \in TaskIds : records[i].score # 1}
Winner == [i \in Decided |-> IF records[i].score = 2 THEN records[i].policy_a ELSE records[i].policy_b]
Loser == [i \in Decided |-> IF records[i].score = 2 THEN records[i].policy_b ELSE records[i].policy_a]

LEMMA WonIsLost ==
    ASSUME Scheduled, IInv, pc[Main] = "returned"
    PROVE  SumOver([p \in Policies |-> Wins(p)], Policies)
               = SumOver([p \in Policies |-> Losses(p)], Policies)
<1>1. \A i \in TaskIds :
          records[i].score \in {0, 1, 2}
          /\ records[i].policy_a \in Policies /\ records[i].policy_b \in Policies
  BY RecordsTell, TaskIsMeeting
<1>2. IsFiniteSet(Decided)
  <2>1. IsFiniteSet(TaskIds)
    BY TasksAssumption, FS_Interval DEF TaskIds
  <2> QED
    BY <2>1, FS_Subset DEF Decided
<1>3. \A i \in Decided : Winner[i] \in Policies /\ Loser[i] \in Policies
  BY <1>1 DEF Winner, Loser, Decided
<1>4. ASSUME NEW p \in Policies
      PROVE  /\ Wins(p) = Cardinality(Naming(Decided, Winner, {p}))
             /\ Losses(p) = Cardinality(Naming(Decided, Loser, {p}))
  <2>1. Naming(Decided, Winner, {p})
            = {i \in TaskIds : \/ records[i].score = 2 /\ records[i].policy_a = p
                               \/ records[i].score = 0 /\ records[i].policy_b = p}
    BY <1>1 DEF Naming, Decided, Winner
  <2>2. Naming(Decided, Loser, {p})
            = {i \in TaskIds : \/ records[i].score = 2 /\ records[i].policy_b = p
                               \/ records[i].score = 0 /\ records[i].policy_a = p}
    BY <1>1 DEF Naming, Decided, Loser
  <2> QED
    BY <2>1, <2>2 DEF Wins, Losses, RecordsWith
<1>5. Naming(Decided, Winner, Policies) = Decided /\ Naming(Decided, Loser, Policies) = Decided
  BY <1>3 DEF Naming
<1> DEFINE wins == [p \in Policies |-> Wins(p)]
           losses == [p \in Policies |-> Losses(p)]
<1>6. \A p \in Policies : wins[p] = Cardinality(Naming(Decided, Winner, {p}))
  BY <1>4
<1>7. \A p \in Policies : losses[p] = Cardinality(Naming(Decided, Loser, {p}))
  BY <1>4
<1>8. IsFiniteSet(Policies)
  BY MeetingsFinite
<1> HIDE DEF wins, losses
<1>9. ASSUME NEW I, IsFiniteSet(I), NEW who, NEW S, IsFiniteSet(S), NEW count,
             \A p \in S : count[p] = Cardinality(Naming(I, who, {p}))
      PROVE  SumOver(count, S) = Cardinality(Naming(I, who, S))
  BY <1>9, SumOfCounts
<1>10. SumOver(wins, Policies) = Cardinality(Naming(Decided, Winner, Policies))
  BY <1>2, <1>6, <1>8, <1>9
<1>11. SumOver(losses, Policies) = Cardinality(Naming(Decided, Loser, Policies))
  BY <1>2, <1>7, <1>8, <1>9
<1> QED
  BY <1>5, <1>10, <1>11 DEF wins, losses

LEMMA StandingsAdd == Scheduled /\ IInv => StandingsAddUp
<1> SUFFICES ASSUME Scheduled, IInv, pc[Main] = "returned"
             PROVE  StandingsAddUp
  BY DEF StandingsAddUp
<1> DEFINE wins == [p \in Policies |-> Wins(p)]
           losses == [p \in Policies |-> Losses(p)]
<1>1. \A p \in Policies : Wins(p) + Draws(p) + Losses(p) = (NumPolicies - 1) * GamesPerPair
  BY GamesAllCounted
<1>2. SumOver(wins, Policies) = SumOver(losses, Policies)
  BY WonIsLost
<1> HIDE DEF wins, losses
<1>3. MapThenSumSet(LAMBDA p : wins[p], Policies) = MapThenSumSet(LAMBDA p : losses[p], Policies)
  BY <1>2, Zenon DEF SumOver
<1> QED
  BY <1>1, <1>3, Zenon DEF StandingsAddUp, wins, losses

\* The standings printed of a round robin account for every game of every
\* policy, and what is won is what is lost.
THEOREM StandingsAlwaysAddUp == ASSUME Scheduled PROVE ProgramSpec => []StandingsAddUp
<1>1. ProgramInv => StandingsAddUp
  BY StandingsAdd DEF ProgramInv
<1> QED
  BY <1>1, ProgramKeepsInv, PTL
=============================================================================
