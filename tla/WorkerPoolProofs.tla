-------------------------- MODULE WorkerPoolProofs --------------------------
(***************************************************************************)
(* The worker pool for every number of methods, of threads and of          *)
(* constants: the pools stay right, no method is lost or done twice,       *)
(* rename() finds all of them done, and every resolution looks atomic.     *)
(***************************************************************************)
EXTENDS WorkerPool, TLAPS

-----------------------------------------------------------------------------
(***************************************************************************)
(* The inductive invariant.                                                *)
(***************************************************************************)
\* A mutex is held by the worker that is inside, and by no other.
Locks ==
  \A t \in Workers :
    /\ pc[t] \in {"check", "pop"} <=> mut = t
    /\ pc[t] \in {"index", "push"} <=> valueMut = t

\* What a worker has read is still true when it acts on it.
ReadsFresh ==
  \A t \in Workers :
    /\ pc[t] = "pop" => indexes # <<>> /\ method[t] = indexes[Len(indexes)]
    /\ Busy(t) => method[t] \in Methods
    /\ pc[t] \in {"index", "push"} => Len(refs[method[t]]) < Len(Work[method[t]])
    /\ pc[t] = "push" => index[t] = Len(pool[Const(t).pool])

Progress ==
  \A m \in Methods :
    /\ Len(refs[m]) <= Len(Work[m])
    /\ m \in finished => Len(refs[m]) = Len(Work[m])

\* What the file came with is still there.
PoolsLonger == \A p \in Pools : Len(InitialPool[p]) <= Len(pool[p])

\* Where main is and where the threads are then.
Phases ==
  /\ 0..jobs \subseteq Workers
  /\ stage = "start" => /\ indexes = <<>> /\ finished = {}
                        /\ spawned = 0 /\ joined = 0
                        /\ \A t \in Workers : pc[t] = "none"
  /\ jobs = 1 => /\ stage \in {"start", "alone", "rename"}
                 /\ \A t \in Workers \ {Main} : pc[t] = "none"
                 /\ pc[Main] \in {"none", "run", "index", "push"}
                 /\ stage = "alone" => Busy(Main) /\ finished = 1..(method[Main] - 1)
                 /\ stage = "rename" => pc[Main] = "none" /\ finished = Methods
  /\ jobs # 1 => /\ stage # "alone"
                 /\ pc[Main] = "none"
                 /\ \A t \in Workers : t > spawned => pc[t] = "none"
                 /\ \A t \in Workers : 0 < t /\ t <= joined => pc[t] = "exit"
                 /\ \A t \in Workers : pc[t] = "exit" => indexes = <<>>
                 /\ stage = "spawn" => spawned < jobs /\ joined = 0
                 /\ stage = "join" => spawned = jobs /\ joined < jobs
                 /\ stage = "rename" => spawned = jobs /\ joined = jobs

Inv ==
  /\ TypeOK /\ Locks /\ ReadsFresh /\ Progress /\ Phases
  /\ HandedOutOnce /\ IndicesRight
  /\ PoolsLonger /\ EntriesOwned

-----------------------------------------------------------------------------
(***************************************************************************)
(* Lemmas.                                                                 *)
(***************************************************************************)
LEMMA WorkersFacts ==
  /\ Workers \subseteq Nat /\ Free \notin Workers
  /\ \A o \in JobsOptions : GetJobs(o) \in Nat \ {0} /\ 0..GetJobs(o) \subseteq Workers
<1>1. \A o \in JobsOptions : GetJobs(o) \in Nat \ {0}
  BY WorkAssumption DEF GetJobs
<1>2. Workers \subseteq Nat
  BY <1>1 DEF Workers
<1>3. Free \notin Workers
  BY <1>2 DEF Free
<1>4. ASSUME NEW o \in JobsOptions PROVE 0..GetJobs(o) \subseteq Workers
  <2>1. 0..GetJobs(o) \in {0..GetJobs(x) : x \in JobsOptions}
    OBVIOUS
  <2> QED BY <2>1, Zenon DEF Workers
<1> QED BY <1>1, <1>2, <1>3, <1>4

LEMMA ElementType == ASSUME NEW S, NEW s \in Seq(S), NEW i \in DOMAIN s PROVE s[i] \in S
  OBVIOUS

\* The constant a worker is about to resolve is one of its method's.
LEMMA ConstType ==
  ASSUME Inv, NEW t \in Workers, pc[t] \in {"index", "push"}
  PROVE  /\ method[t] \in Methods
         /\ Len(refs[method[t]]) + 1 \in DOMAIN Work[method[t]]
         /\ Const(t).pool \in Pools /\ Const(t).value \in Values
<1>1. /\ method[t] \in Methods /\ Len(refs[method[t]]) < Len(Work[method[t]])
      /\ refs[method[t]] \in Seq(Nat)
  BY DEF Inv, ReadsFresh, Busy, TypeOK
<1>2. Work[method[t]] \in Seq([pool : Pools, value : Values])
  BY <1>1, WorkAssumption DEF Methods
<1>3. Len(refs[method[t]]) + 1 \in DOMAIN Work[method[t]]
  BY <1>1, <1>2
<1>4. Const(t) \in [pool : Pools, value : Values]
  BY <1>2, <1>3, ElementType DEF Const
<1> QED BY <1>1, <1>3, <1>4

\* Appending keeps what was there and puts the value at the end.
LEMMA AppendFacts ==
  ASSUME NEW s \in Seq(Values), NEW v \in Values
  PROVE  /\ Append(s, v) \in Seq(Values)
         /\ Len(Append(s, v)) = Len(s) + 1
         /\ Append(s, v)[Len(s) + 1] = v
         /\ \A i \in 1..Len(s) : Append(s, v)[i] = s[i]
  OBVIOUS

LEMMA InitInv == Init => Inv
<1> SUFFICES ASSUME Init PROVE Inv
  OBVIOUS
<1>1. jobs \in Nat \ {0} /\ 0..jobs \subseteq Workers
  BY WorkersFacts DEF Init
<1>2. TypeOK
  BY <1>1, WorkAssumption DEF Init, TypeOK
<1>3. Locks
  BY WorkersFacts DEF Init, Locks
<1>4. ReadsFresh
  BY DEF Init, ReadsFresh, Busy
<1>5. Progress
  <2> SUFFICES ASSUME NEW m \in Methods PROVE 0 <= Len(Work[m])
    BY DEF Init, Progress
  <2>1. Work[m] \in Seq([pool : Pools, value : Values])
    BY WorkAssumption DEF Methods
  <2> QED BY <2>1
<1>6. Phases
  <2>1. 0 \in Workers
    BY <1>1
  <2> QED BY <1>1, <2>1, WorkersFacts DEF Init, Phases, Main
<1>7. HandedOutOnce
  BY DEF Init, HandedOutOnce
<1>8. IndicesRight
  BY DEF Init, IndicesRight
<1>9. PoolsLonger /\ EntriesOwned
  <2>1. \A p \in Pools : Len(InitialPool[p]) \in Nat
    BY WorkAssumption
  <2> QED BY <2>1 DEF Init, PoolsLonger, EntriesOwned
<1> QED BY <1>2, <1>3, <1>4, <1>5, <1>6, <1>7, <1>8, <1>9 DEF Inv

-----------------------------------------------------------------------------
(***************************************************************************)
(* The steps.                                                              *)
(***************************************************************************)
LEMMA TypeStep == Inv /\ [Next]_vars => TypeOK'
<1> SUFFICES ASSUME Inv, [Next]_vars PROVE TypeOK'
  OBVIOUS
<1> USE DEF Inv, mainVars, queueVars, valueVars
<1>1. CASE Alone
  <2>1. M # 0 => 1 \in Methods
    BY WorkAssumption DEF Methods
  <2> QED BY <1>1, <2>1 DEF Alone, TypeOK
<1>2. CASE Fill
  <2>1. [m \in Methods |-> m] \in Seq(Methods)
    BY WorkAssumption DEF Methods
  <2> QED BY <1>2, <2>1 DEF Fill, TypeOK
<1>3. CASE Spawn
  <2>1. spawned + 1 \in 0..jobs /\ jobs' = jobs
    BY <1>3 DEF Spawn, TypeOK
  <2>2. pc' \in [Workers -> {"none", "lock", "check", "pop", "run", "index", "push", "exit"}]
    BY <1>3 DEF Spawn, TypeOK
  <2>3. stage' \in {"spawn", "join"}
    BY <1>3 DEF Spawn
  <2> QED BY <1>3, <2>1, <2>2, <2>3 DEF Spawn, TypeOK
<1>4. CASE SpawnFails
  BY <1>4 DEF SpawnFails, TypeOK
<1>5. CASE Join
  <2>1. joined < jobs
    BY <1>5 DEF Join, Phases, TypeOK
  <2> QED BY <1>5, <2>1 DEF Join, TypeOK
<1>6. ASSUME NEW t \in Workers, WorkerStep(t) PROVE TypeOK'
  <2>1. CASE Lock(t)
    BY <2>1 DEF Lock, TypeOK
  <2>2. CASE Break(t)
    BY <2>2 DEF Break, TypeOK
  <2>3. CASE Back(t)
    <3>1. indexes[Len(indexes)] \in Methods
      BY <2>3 DEF Back, TypeOK
    <3> QED BY <2>3, <3>1 DEF Back, TypeOK
  <2>4. CASE PopBack(t)
    <3>1. indexes # <<>> /\ indexes \in Seq(Methods)
      BY <2>4 DEF PopBack, TypeOK, ReadsFresh
    <3>2. indexes' \in Seq(Methods)
      BY <2>4, <3>1 DEF PopBack
    <3> QED BY <2>4, <3>2 DEF PopBack, TypeOK
  <2>5. CASE LockValue(t)
    BY <2>5 DEF LockValue, TypeOK
  <2>6. CASE WriteIndex(t)
    <3>1. Const(t).pool \in Pools
      BY <2>6, ConstType DEF WriteIndex
    <3>2. Len(pool[Const(t).pool]) \in Nat
      BY <3>1 DEF TypeOK
    <3> QED BY <2>6, <3>2 DEF WriteIndex, TypeOK
  <2>7. CASE PushBack(t)
    <3>1. /\ Const(t).pool \in Pools /\ Const(t).value \in Values
          /\ method[t] \in Methods /\ index[t] \in Nat
      BY <2>7, ConstType DEF PushBack, TypeOK
    <3>2. pool' \in [Pools -> Seq(Values)]
      BY <2>7, <3>1, AppendFacts DEF PushBack, TypeOK
    <3>3. refs' \in [Methods -> Seq(Nat)]
      BY <2>7, <3>1 DEF PushBack, TypeOK
    <3> QED BY <2>7, <3>2, <3>3 DEF PushBack, TypeOK
  <2>8. CASE Return(t)
    <3>1. method[t] \in Methods
      BY <2>8 DEF Return, ReadsFresh, Busy
    <3>2. method[t] < M => method[t] + 1 \in Methods
      BY <3>1, WorkAssumption DEF Methods
    <3> QED BY <2>8, <3>1, <3>2 DEF Return, TypeOK
  <2> QED BY <1>6, <2>1, <2>2, <2>3, <2>4, <2>5, <2>6, <2>7, <2>8 DEF WorkerStep
<1>7. CASE UNCHANGED vars
  BY <1>7 DEF vars, TypeOK
<1> QED BY <1>1, <1>2, <1>3, <1>4, <1>5, <1>6, <1>7 DEF Next, MainStep

LEMMA LocksStep == Inv /\ [Next]_vars => Locks'
<1> SUFFICES ASSUME Inv, [Next]_vars PROVE Locks'
  OBVIOUS
<1> USE DEF Inv, mainVars, queueVars, valueVars, TypeOK
<1>1. CASE MainStep
  <2>1. Main \in Workers
    BY DEF Phases, Main
  <2>2. CASE Alone
    BY <2>1, <2>2, WorkersFacts DEF Alone, Locks, Phases
  <2>3. CASE Spawn
    <3>1. spawned + 1 \in Workers /\ pc[spawned + 1] = "none"
      <4>1. jobs # 1 /\ spawned + 1 \in 0..jobs
        BY <2>3 DEF Spawn, Phases
      <4> QED BY <4>1, WorkersFacts DEF Phases
    <3> QED BY <2>3, <3>1, WorkersFacts DEF Spawn, Locks
  <2> QED BY <1>1, <2>2, <2>3 DEF MainStep, Fill, SpawnFails, Join, Locks
<1>2. ASSUME NEW t \in Workers, WorkerStep(t) PROVE Locks'
  <2>1. t # Free
    BY WorkersFacts
  <2>2. CASE Lock(t)
    BY <2>1, <2>2, WorkersFacts DEF Lock, Locks
  <2>3. CASE Break(t)
    BY <2>1, <2>3, WorkersFacts DEF Break, Locks
  <2>4. CASE Back(t)
    BY <2>1, <2>4 DEF Back, Locks
  <2>5. CASE PopBack(t)
    BY <2>1, <2>5, WorkersFacts DEF PopBack, Locks
  <2>6. CASE LockValue(t)
    BY <2>1, <2>6, WorkersFacts DEF LockValue, Locks
  <2>7. CASE WriteIndex(t)
    BY <2>1, <2>7 DEF WriteIndex, Locks
  <2>8. CASE PushBack(t)
    BY <2>1, <2>8, WorkersFacts DEF PushBack, Locks
  <2>9. CASE Return(t)
    BY <2>1, <2>9, WorkersFacts DEF Return, Locks
  <2> QED BY <1>2, <2>2, <2>3, <2>4, <2>5, <2>6, <2>7, <2>8, <2>9 DEF WorkerStep
<1>3. CASE UNCHANGED vars
  BY <1>3 DEF vars, Locks
<1> QED BY <1>1, <1>2, <1>3 DEF Next

LEMMA ReadsStep == Inv /\ [Next]_vars => ReadsFresh'
<1> SUFFICES ASSUME Inv, [Next]_vars, NEW t \in Workers
             PROVE  /\ pc'[t] = "pop" => /\ indexes' # <<>>
                                         /\ method'[t] = indexes'[Len(indexes')]
                    /\ Busy(t)' => method'[t] \in Methods
                    /\ pc'[t] \in {"index", "push"} =>
                         Len(refs'[method'[t]]) < Len(Work[method'[t]])
                    /\ pc'[t] = "push" => index'[t] = Len(pool'[Const(t)'.pool])
  BY DEF ReadsFresh
<1> USE DEF Inv, mainVars, queueVars, valueVars, TypeOK
<1>1. CASE MainStep
  <2>1. CASE Alone
    BY <2>1, WorkAssumption DEF Alone, Phases, Busy, Methods, Main
  <2>2. CASE Fill
    BY <2>2 DEF Fill, Phases, Busy
  <2>3. CASE Spawn
    BY <2>3 DEF Spawn, ReadsFresh, Busy, Const
  <2> QED BY <1>1, <2>1, <2>2, <2>3 DEF MainStep, SpawnFails, Join, ReadsFresh, Busy, Const
<1>2. ASSUME NEW u \in Workers, WorkerStep(u), u # t
      PROVE  /\ pc'[t] = pc[t] /\ method'[t] = method[t] /\ index'[t] = index[t]
             /\ pc[t] = "pop" => indexes' = indexes
             /\ pc[t] \in {"index", "push"} => pool' = pool /\ refs' = refs
  BY <1>2 DEF WorkerStep, Lock, Break, Back, PopBack, LockValue, WriteIndex, PushBack,
              Return, Locks
<1>3. ASSUME NEW u \in Workers, WorkerStep(u), u # t
      PROVE  /\ pc'[t] = "pop" => /\ indexes' # <<>>
                                  /\ method'[t] = indexes'[Len(indexes')]
             /\ Busy(t)' => method'[t] \in Methods
             /\ pc'[t] \in {"index", "push"} =>
                  Len(refs'[method'[t]]) < Len(Work[method'[t]])
             /\ pc'[t] = "push" => index'[t] = Len(pool'[Const(t)'.pool])
  BY <1>2, <1>3 DEF ReadsFresh, Busy, Const
<1>4. CASE Lock(t)
  BY <1>4 DEF Lock, Busy
<1>5. CASE Break(t)
  BY <1>5 DEF Break, Busy
<1>6. CASE Back(t)
  BY <1>6 DEF Back, Busy
<1>7. CASE PopBack(t)
  <2>1. method[t] \in Methods
    BY <1>7 DEF PopBack, ReadsFresh
  <2> QED BY <1>7, <2>1 DEF PopBack, Busy
<1>8. CASE LockValue(t)
  BY <1>8 DEF LockValue, Busy, ReadsFresh
<1>9. CASE WriteIndex(t)
  <2>1. pc'[t] = "push" /\ method' = method /\ refs' = refs /\ pool' = pool
    BY <1>9 DEF WriteIndex
  <2>2. Const(t)' = Const(t)
    BY <2>1 DEF Const
  <2> QED BY <1>9, <2>1, <2>2 DEF WriteIndex, Busy, ReadsFresh
<1>10. CASE PushBack(t)
  BY <1>10 DEF PushBack, Busy, ReadsFresh
<1>11. CASE Return(t)
  <2>1. method[t] \in Methods
    BY <1>11 DEF Return, ReadsFresh, Busy
  <2>2. method[t] < M => method[t] + 1 \in Methods
    BY <2>1, WorkAssumption DEF Methods
  <2> QED BY <1>11, <2>1, <2>2 DEF Return, Busy
<1>12. CASE UNCHANGED vars
  BY <1>12 DEF vars, ReadsFresh, Busy, Const
<1> QED BY <1>1, <1>3, <1>4, <1>5, <1>6, <1>7, <1>8, <1>9, <1>10, <1>11, <1>12
        DEF Next, WorkerStep

LEMMA ProgressStep == Inv /\ [Next]_vars => Progress'
<1> SUFFICES ASSUME Inv, [Next]_vars PROVE Progress'
  OBVIOUS
<1> USE DEF Inv, mainVars, queueVars, valueVars
<1>1. CASE refs' = refs /\ finished' = finished
  BY <1>1 DEF Progress
<1>2. ASSUME NEW t \in Workers, PushBack(t) PROVE Progress'
  <2>1. method[t] \in Methods /\ Len(refs[method[t]]) < Len(Work[method[t]])
    BY <1>2, ConstType DEF PushBack, ReadsFresh
  <2>2. Work[method[t]] \in Seq([pool : Pools, value : Values])
    BY <2>1, WorkAssumption DEF Methods
  <2>3. \A m \in Methods : Len(refs'[m]) = IF m = method[t] THEN Len(refs[m]) + 1
                                           ELSE Len(refs[m])
    BY <1>2, <2>1 DEF PushBack, TypeOK
  <2>4. Len(refs[method[t]]) \in Nat /\ Len(Work[method[t]]) \in Nat
    BY <2>1, <2>2 DEF TypeOK
  <2>5. method[t] \notin finished
    BY <2>1, <2>4 DEF Progress
  <2>6. finished' = finished
    BY <1>2 DEF PushBack
  <2> QED BY <2>1, <2>3, <2>4, <2>5, <2>6 DEF Progress
<1>3. ASSUME NEW t \in Workers, Return(t) PROVE Progress'
  BY <1>3 DEF Return, Progress
<1> QED BY <1>1, <1>2, <1>3 DEF Next, MainStep, Alone, Fill, Spawn, SpawnFails, Join,
        WorkerStep, Lock, Break, Back, PopBack, LockValue, WriteIndex, vars

LEMMA PhasesStep == Inv /\ [Next]_vars => Phases'
<1> SUFFICES ASSUME Inv, [Next]_vars PROVE Phases'
  OBVIOUS
<1> USE DEF Inv, mainVars, queueVars, valueVars
<1>0. /\ Main \in Workers /\ Workers \subseteq Nat /\ jobs' = jobs
      /\ jobs \in Nat \ {0} /\ spawned \in 0..jobs /\ joined \in 0..jobs
      /\ DOMAIN pc = Workers /\ DOMAIN method = Workers
  <2>1. Main \in Workers
    BY DEF Phases, TypeOK, Main
  <2>2. jobs' = jobs
    BY DEF Next, MainStep, Alone, Fill, Spawn, SpawnFails, Join, WorkerStep, Lock, Break,
           Back, PopBack, LockValue, WriteIndex, PushBack, Return, vars
  <2> QED BY <2>1, <2>2, WorkersFacts DEF TypeOK
<1>1. CASE Alone
  <2>1. /\ \A t \in Workers \ {Main} : pc'[t] = "none"
        /\ finished' = {} /\ M \in Nat
    BY <1>1, WorkAssumption DEF Alone, Phases
  <2>2. CASE M = 0
    <3>1. stage' = "rename" /\ pc'[Main] = "none" /\ finished' = Methods
      BY <1>0, <1>1, <2>1, <2>2 DEF Alone, Methods
    <3> QED BY <1>0, <1>1, <2>1, <3>1 DEF Alone, Phases
  <2>3. CASE M # 0
    <3>1. /\ stage' = "alone" /\ pc'[Main] = "run" /\ method'[Main] = 1
      BY <1>0, <1>1, <2>3 DEF Alone
    <3>2. finished' = 1..(method'[Main] - 1) /\ Busy(Main)'
      BY <2>1, <3>1 DEF Busy
    <3> QED BY <1>0, <1>1, <2>1, <3>1, <3>2 DEF Alone, Phases
  <2> QED BY <2>2, <2>3
<1>2. CASE Fill
  BY <1>0, <1>2 DEF Fill, Phases
<1>3. CASE Spawn
  <2>1. jobs # 1 /\ spawned + 1 # Main
    BY <1>0, <1>3 DEF Spawn, Phases, Main
  <2> QED BY <1>0, <1>3, <2>1 DEF Spawn, Phases
<1>4. CASE SpawnFails
  BY <1>0, <1>4 DEF SpawnFails, Phases
<1>5. CASE Join
  BY <1>0, <1>5 DEF Join, Phases
<1>6. ASSUME NEW t \in Workers, WorkerStep(t) PROVE Phases'
  <2>1. jobs = 1 => t = Main /\ Busy(t)
    BY <1>0, <1>6 DEF WorkerStep, Lock, Break, Back, PopBack, LockValue, WriteIndex, PushBack,
                Return, Phases, Busy
  <2>2. jobs # 1 => t # Main /\ t <= spawned /\ ~(t <= joined)
    <3>1. pc[t] \notin {"none", "exit"}
      BY <1>6 DEF WorkerStep, Lock, Break, Back, PopBack, LockValue, WriteIndex, PushBack,
                  Return
    <3> QED BY <1>0, <3>1 DEF Phases, Main
  <2>3. stage # "start"
    BY <1>6 DEF WorkerStep, Lock, Break, Back, PopBack, LockValue, WriteIndex, PushBack,
                Return, Phases
  <2>4. CASE Lock(t)
    BY <1>0, <2>1, <2>2, <2>3, <2>4 DEF Lock, Phases, Busy
  <2>5. CASE Break(t)
    BY <1>0, <2>1, <2>2, <2>3, <2>5 DEF Break, Phases, Busy
  <2>6. CASE Back(t)
    BY <1>0, <2>1, <2>2, <2>3, <2>6 DEF Back, Phases, Busy
  <2>7. CASE PopBack(t)
    <3>1. jobs # 1 /\ indexes # <<>>
      BY <2>1, <2>7 DEF PopBack, Busy, ReadsFresh
    <3> QED BY <1>0, <2>2, <2>3, <2>7, <3>1 DEF PopBack, Phases
  <2>8. CASE LockValue(t)
    BY <1>0, <2>1, <2>2, <2>3, <2>8 DEF LockValue, Phases, Busy
  <2>9. CASE WriteIndex(t)
    BY <1>0, <2>1, <2>2, <2>3, <2>9 DEF WriteIndex, Phases, Busy
  <2>10. CASE PushBack(t)
    BY <1>0, <2>1, <2>2, <2>3, <2>10 DEF PushBack, Phases, Busy
  <2>11. CASE Return(t)
    <3>1. CASE t # Main
      BY <1>0, <2>1, <2>2, <2>3, <2>11, <3>1 DEF Return, Phases, Busy
    <3>2. CASE t = Main
      <4>1. method[Main] \in Methods /\ jobs = 1
        BY <2>2, <2>11, <3>2 DEF Return, ReadsFresh, Busy
      <4>2. stage = "alone"
        BY <2>11, <2>3, <3>2, <4>1 DEF Return, Phases
      <4>3. finished' = 1..method[Main]
        BY <2>11, <3>2, <4>1, <4>2 DEF Return, Phases, Methods
      <4>4. CASE method[Main] < M
        BY <1>0, <2>11, <3>2, <4>1, <4>2, <4>3, <4>4, WorkAssumption
           DEF Return, Phases, Busy, Methods
      <4>5. CASE method[Main] = M
        BY <1>0, <2>11, <3>2, <4>1, <4>2, <4>3, <4>5, WorkAssumption
           DEF Return, Phases, Methods
      <4> QED BY <4>1, <4>4, <4>5, WorkAssumption DEF Methods
    <3> QED BY <3>1, <3>2
  <2> QED BY <1>6, <2>4, <2>5, <2>6, <2>7, <2>8, <2>9, <2>10, <2>11 DEF WorkerStep
<1>7. CASE UNCHANGED vars
  BY <1>7 DEF vars, Phases, Busy
<1> QED BY <1>1, <1>2, <1>3, <1>4, <1>5, <1>6, <1>7 DEF Next, MainStep

LEMMA HandedStep == Inv /\ [Next]_vars => HandedOutOnce'
<1> SUFFICES ASSUME Inv, [Next]_vars, stage' \in {"spawn", "join", "rename"}, jobs' # 1
             PROVE  HandedOutOnce'
  BY DEF HandedOutOnce
<1> USE DEF Inv, mainVars, queueVars, valueVars
<1>0. ASSUME stage \in {"spawn", "join", "rename"}, jobs = jobs',
             indexes' = indexes, finished' = finished,
             \A t \in Workers : /\ Busy(t)' <=> Busy(t)
                                /\ Busy(t) => method'[t] = method[t]
      PROVE  HandedOutOnce'
  BY <1>0 DEF HandedOutOnce
<1>1. CASE Alone
  BY <1>1 DEF Alone
<1>2. CASE Fill
  <2>1. indexes' = [m \in Methods |-> m] /\ DOMAIN indexes' = Methods
    BY <1>2 DEF Fill
  <2>2. \A t \in Workers : ~Busy(t)'
    BY <1>2 DEF Fill, Phases, Busy
  <2>3. finished' = {}
    BY <1>2 DEF Fill, Phases
  <2> QED BY <2>1, <2>2, <2>3 DEF HandedOutOnce
<1>3. CASE Spawn
  <2>1. spawned + 1 \in Workers /\ pc[spawned + 1] = "none"
    <3>1. jobs # 1 /\ spawned + 1 \in 0..jobs
      BY <1>3 DEF Spawn, TypeOK
    <3> QED BY <1>3, <3>1, WorkersFacts DEF Spawn, Phases, TypeOK
  <2>2. \A t \in Workers : Busy(t)' <=> Busy(t)
    BY <1>3, <2>1 DEF Spawn, Busy, TypeOK
  <2> QED BY <1>0, <1>3, <2>2 DEF Spawn
<1>4. CASE SpawnFails
  BY <1>4 DEF SpawnFails
<1>5. CASE Join
  BY <1>0, <1>5 DEF Join, Busy
<1>6. ASSUME NEW t \in Workers, WorkerStep(t) PROVE HandedOutOnce'
  <2>1. t # Main
    BY <1>6 DEF WorkerStep, Lock, Break, Back, PopBack, LockValue, WriteIndex, PushBack,
                Return, Phases
  <2>2. jobs' = jobs /\ stage' = stage
    BY <1>6, <2>1 DEF WorkerStep, Lock, Break, Back, PopBack, LockValue, WriteIndex,
                      PushBack, Return
  <2>3. CASE Lock(t)
    BY <1>0, <2>2, <2>3 DEF Lock, Busy, TypeOK
  <2>4. CASE Break(t)
    BY <1>0, <2>2, <2>4 DEF Break, Busy, TypeOK
  <2>5. CASE Back(t)
    BY <1>0, <2>2, <2>5 DEF Back, Busy, TypeOK
  <2>6. CASE PopBack(t)
    <3> DEFINE n == Len(indexes)
    <3>1. /\ n \in Nat \ {0} /\ DOMAIN indexes = 1..n
          /\ method[t] = indexes[n] /\ method[t] \in Methods
      BY <2>6 DEF PopBack, ReadsFresh, TypeOK
    <3>2. /\ DOMAIN indexes' = 1..(n - 1)
          /\ \A i \in 1..(n - 1) : indexes'[i] = indexes[i]
      BY <2>6, <3>1 DEF PopBack, TypeOK
    <3>3. \A u \in Workers : Busy(u)' <=> Busy(u) \/ u = t
      BY <2>6 DEF PopBack, Busy, TypeOK
    <3>4. method' = method /\ finished' = finished /\ ~Busy(t)
      BY <2>6 DEF PopBack, Busy
    <3>5. HandedOutOnce /\ stage \in {"spawn", "join", "rename"} /\ jobs # 1
      BY <2>2
    <3> HIDE DEF n, Inv
    <3>6. \A i, k \in DOMAIN indexes' : indexes'[i] = indexes'[k] => i = k
      BY <3>1, <3>2, <3>5 DEF HandedOutOnce
    <3>7. \A u \in Workers : Busy(u) => method[u] # method[t]
      BY <3>1, <3>5 DEF HandedOutOnce
    <3>8. \A u, v \in Workers : Busy(u)' /\ Busy(v)' /\ method'[u] = method'[v] => u = v
      BY <3>3, <3>4, <3>5, <3>7 DEF HandedOutOnce
    <3>9. ASSUME NEW m \in Methods
          PROVE LET queued == \E i \in DOMAIN indexes' : indexes'[i] = m
                    held   == \E u \in Workers : Busy(u)' /\ method'[u] = m
                IN /\ queued \/ held \/ m \in finished'
                   /\ ~(queued /\ held) /\ ~(queued /\ m \in finished')
                   /\ ~(held /\ m \in finished')
      <4> DEFINE queued == \E i \in DOMAIN indexes : indexes[i] = m
                 held   == \E u \in Workers : Busy(u) /\ method[u] = m
                 queuedNow == \E i \in DOMAIN indexes' : indexes'[i] = m
                 heldNow == \E u \in Workers : Busy(u)' /\ method'[u] = m
      <4>1. /\ queued \/ held \/ m \in finished
            /\ ~(queued /\ held) /\ ~(queued /\ m \in finished) /\ ~(held /\ m \in finished)
        BY <3>5 DEF HandedOutOnce
      <4>2. queuedNow <=> queued /\ m # method[t]
        BY <3>1, <3>2, <3>5 DEF HandedOutOnce
      <4>3. heldNow <=> held \/ m = method[t]
        BY <3>3, <3>4
      <4>4. m = method[t] => queued
        BY <3>1
      <4> HIDE DEF queued, held, queuedNow, heldNow
      <4>5. /\ queuedNow \/ heldNow \/ m \in finished'
            /\ ~(queuedNow /\ heldNow) /\ ~(queuedNow /\ m \in finished')
            /\ ~(heldNow /\ m \in finished')
        BY <3>4, <4>1, <4>2, <4>3, <4>4
      <4> QED BY <4>5 DEF queuedNow, heldNow
    <3> QED BY <3>6, <3>8, <3>9 DEF HandedOutOnce
  <2>7. CASE LockValue(t)
    BY <1>0, <2>2, <2>7 DEF LockValue, Busy, TypeOK
  <2>8. CASE WriteIndex(t)
    BY <1>0, <2>2, <2>8 DEF WriteIndex, Busy, TypeOK
  <2>9. CASE PushBack(t)
    BY <1>0, <2>2, <2>9 DEF PushBack, Busy, TypeOK
  <2>10. CASE Return(t)
    <3>1. \A u \in Workers : Busy(u)' <=> Busy(u) /\ u # t
      BY <2>1, <2>10 DEF Return, Busy, TypeOK
    <3>2. /\ indexes' = indexes /\ method' = method /\ Busy(t)
          /\ finished' = finished \cup {method[t]}
      BY <2>1, <2>10 DEF Return, Busy
    <3>3. HandedOutOnce /\ stage \in {"spawn", "join", "rename"} /\ jobs # 1
      BY <2>2
    <3> HIDE DEF Inv
    <3>4. /\ \A i, k \in DOMAIN indexes : indexes[i] = indexes[k] => i = k
          /\ \A u, v \in Workers : Busy(u) /\ Busy(v) /\ method[u] = method[v] => u = v
      BY <3>3 DEF HandedOutOnce
    <3>5. ASSUME NEW m \in Methods
          PROVE LET queued == \E i \in DOMAIN indexes' : indexes'[i] = m
                    held   == \E u \in Workers : Busy(u)' /\ method'[u] = m
                IN /\ queued \/ held \/ m \in finished'
                   /\ ~(queued /\ held) /\ ~(queued /\ m \in finished')
                   /\ ~(held /\ m \in finished')
      <4> DEFINE queued == \E i \in DOMAIN indexes : indexes[i] = m
                 held   == \E u \in Workers : Busy(u) /\ method[u] = m
                 queuedNow == \E i \in DOMAIN indexes' : indexes'[i] = m
                 heldNow == \E u \in Workers : Busy(u)' /\ method'[u] = m
      <4>1. /\ queued \/ held \/ m \in finished
            /\ ~(queued /\ held) /\ ~(queued /\ m \in finished) /\ ~(held /\ m \in finished)
        BY <3>3 DEF HandedOutOnce
      <4>2. queuedNow <=> queued
        BY <3>2
      <4>3. heldNow <=> held /\ m # method[t]
        BY <3>1, <3>2, <3>4
      <4>4. m = method[t] => held
        BY <3>2
      <4> HIDE DEF queued, held, queuedNow, heldNow
      <4>5. m \in finished' <=> m \in finished \/ m = method[t]
        BY <3>2
      <4>6. /\ queuedNow \/ heldNow \/ m \in finished'
            /\ ~(queuedNow /\ heldNow) /\ ~(queuedNow /\ m \in finished')
            /\ ~(heldNow /\ m \in finished')
        BY <4>1, <4>2, <4>3, <4>4, <4>5
      <4> QED BY <4>6 DEF queuedNow, heldNow
    <3>6. \A u, v \in Workers : Busy(u)' /\ Busy(v)' /\ method'[u] = method'[v] => u = v
      BY <3>1, <3>2, <3>4
    <3>7. \A i, k \in DOMAIN indexes' : indexes'[i] = indexes'[k] => i = k
      BY <3>2, <3>4
    <3> QED BY <3>5, <3>6, <3>7 DEF HandedOutOnce
  <2> QED BY <1>6, <2>3, <2>4, <2>5, <2>6, <2>7, <2>8, <2>9, <2>10 DEF WorkerStep
<1>7. CASE UNCHANGED vars
  BY <1>0, <1>7 DEF vars, Busy
<1> QED BY <1>1, <1>2, <1>3, <1>4, <1>5, <1>6, <1>7 DEF Next, MainStep

LEMMA IndicesStep == Inv /\ [Next]_vars => IndicesRight'
<1> SUFFICES ASSUME Inv, [Next]_vars PROVE IndicesRight'
  OBVIOUS
<1> USE DEF Inv, mainVars, queueVars, valueVars
<1>1. CASE pool' = pool /\ refs' = refs
  BY <1>1 DEF IndicesRight
<1>2. ASSUME NEW t \in Workers, PushBack(t) PROVE IndicesRight'
  <2> DEFINE here == method[t]  c == Const(t)  n == Len(refs[here])
  <2>1. /\ here \in Methods /\ n + 1 \in DOMAIN Work[here]
        /\ c.pool \in Pools /\ c.value \in Values
    BY <1>2, ConstType DEF PushBack
  <2>2. c = Work[here][n + 1]
    BY DEF Const
  <2>3. index[t] = Len(pool[c.pool]) /\ refs[here] \in Seq(Nat)
    BY <1>2, <2>1 DEF PushBack, ReadsFresh, TypeOK
  <2>4. /\ \A p \in Pools : pool'[p] = IF p = c.pool THEN Append(pool[p], c.value) ELSE pool[p]
        /\ \A m \in Methods : refs'[m] = IF m = here THEN Append(refs[m], index[t]) ELSE refs[m]
    BY <1>2, <2>1 DEF PushBack, TypeOK
  <2>5. /\ index[t] \in Nat /\ pool \in [Pools -> Seq(Values)]
        /\ pool' \in [Pools -> Seq(Values)] /\ refs \in [Methods -> Seq(Nat)]
    BY TypeStep DEF TypeOK
  <2> HIDE DEF here, c, n, Inv
  <2>6. ASSUME NEW p \in Pools
        PROVE  /\ Len(pool[p]) <= Len(pool'[p])
               /\ \A i \in 1..Len(pool[p]) : pool'[p][i] = pool[p][i]
    <3>1. pool[p] \in Seq(Values)
      BY <2>5
    <3>2. CASE p = c.pool
      <4>1. pool'[p] = Append(pool[p], c.value)
        BY <2>4, <3>2
      <4> QED BY <2>1, <3>1, <4>1
    <3>3. CASE p # c.pool
      BY <2>4, <3>1, <3>3
    <3> QED BY <3>2, <3>3
  <2>7. /\ Len(pool'[c.pool]) = index[t] + 1
        /\ pool'[c.pool][index[t] + 1] = c.value
    <3>1. pool[c.pool] \in Seq(Values) /\ pool'[c.pool] = Append(pool[c.pool], c.value)
      BY <2>1, <2>4, <2>5
    <3> QED BY <2>1, <2>3, <3>1
  <2>8. ASSUME NEW m \in Methods, NEW k \in DOMAIN refs'[m]
        PROVE /\ refs'[m][k] < Len(pool'[Work[m][k].pool])
              /\ pool'[Work[m][k].pool][refs'[m][k] + 1] = Work[m][k].value
    <3>1. refs[m] \in Seq(Nat) /\ refs'[m] = IF m = here THEN Append(refs[m], index[t])
                                             ELSE refs[m]
      BY <2>4, <2>5
    <3>2. CASE m = here /\ k = n + 1
      <4>1. refs'[m][k] = index[t]
        BY <2>5, <3>1, <3>2 DEF n
      <4> QED BY <2>2, <2>5, <2>7, <3>2, <4>1
    <3>3. CASE ~(m = here /\ k = n + 1)
      <4>1. k \in DOMAIN refs[m] /\ refs'[m][k] = refs[m][k] /\ refs[m][k] \in Nat
        BY <2>5, <3>1, <3>3 DEF n
      <4>2. Len(refs[m]) <= Len(Work[m])
        BY DEF Inv, Progress
      <4>3. Work[m] \in Seq([pool : Pools, value : Values])
        BY WorkAssumption DEF Methods
      <4>4. k \in DOMAIN Work[m]
        BY <3>1, <4>1, <4>2, <4>3
      <4>5. Work[m][k].pool \in Pools
        <5>1. Work[m][k] \in [pool : Pools, value : Values]
          BY <4>3, <4>4, ElementType
        <5> QED BY <5>1
      <4>6. /\ refs[m][k] < Len(pool[Work[m][k].pool])
            /\ pool[Work[m][k].pool][refs[m][k] + 1] = Work[m][k].value
        BY <4>1 DEF Inv, IndicesRight
      <4>7. Len(pool[Work[m][k].pool]) \in Nat /\ Len(pool'[Work[m][k].pool]) \in Nat
        BY <2>5, <4>5
      <4>8. refs[m][k] + 1 \in 1..Len(pool[Work[m][k].pool])
        BY <4>1, <4>6, <4>7
      <4> QED BY <2>6, <4>1, <4>5, <4>6, <4>7, <4>8
    <3> QED BY <3>2, <3>3
  <2> QED BY <2>8 DEF IndicesRight
<1> QED BY <1>1, <1>2 DEF Next, MainStep, Alone, Fill, Spawn, SpawnFails, Join, WorkerStep,
        Lock, Break, Back, PopBack, LockValue, WriteIndex, Return, vars

LEMMA EntriesStep == Inv /\ [Next]_vars => EntriesOwned'
<1> SUFFICES ASSUME Inv, [Next]_vars PROVE EntriesOwned'
  OBVIOUS
<1> USE DEF Inv, mainVars, queueVars, valueVars
<1>1. CASE pool' = pool /\ refs' = refs
  BY <1>1 DEF EntriesOwned, Has
<1>2. ASSUME NEW t \in Workers, PushBack(t) PROVE EntriesOwned'
  <2> DEFINE here == method[t]  c == Const(t)  n == Len(refs[here])
  <2>1. /\ here \in Methods /\ n + 1 \in DOMAIN Work[here]
        /\ c.pool \in Pools /\ c.value \in Values
    BY <1>2, ConstType DEF PushBack
  <2>2. c = Work[here][n + 1]
    BY DEF Const
  <2>3. index[t] = Len(pool[c.pool]) /\ refs[here] \in Seq(Nat)
    BY <1>2, <2>1 DEF PushBack, ReadsFresh, TypeOK
  <2>4. /\ \A p \in Pools : pool'[p] = IF p = c.pool THEN Append(pool[p], c.value) ELSE pool[p]
        /\ \A m \in Methods : refs'[m] = IF m = here THEN Append(refs[m], index[t]) ELSE refs[m]
    BY <1>2, <2>1 DEF PushBack, TypeOK
  <2>5. /\ pool \in [Pools -> Seq(Values)] /\ refs \in [Methods -> Seq(Nat)]
        /\ index[t] \in Nat
    BY DEF TypeOK
  \* What was there before, and the one constant that is new.
  <2> HIDE DEF here, c, Inv
  <2>6. /\ n \in Nat
        /\ DOMAIN refs'[here] = DOMAIN refs[here] \cup {n + 1} /\ n + 1 \notin DOMAIN refs[here]
        /\ refs'[here][n + 1] = index[t]
        /\ \A k \in DOMAIN refs[here] : refs'[here][k] = refs[here][k]
        /\ \A m \in Methods : m # here => refs'[m] = refs[m]
    <3>1. refs'[here] = Append(refs[here], index[t])
      BY <2>1, <2>4
    <3>2. DOMAIN refs[here] = 1..n /\ n \in Nat
      BY <2>3
    <3>3. DOMAIN refs'[here] = 1..(n + 1) /\ refs'[here][n + 1] = index[t]
      BY <2>3, <2>5, <3>1
    <3>4. \A k \in 1..n : refs'[here][k] = refs[here][k]
      BY <2>3, <2>5, <3>1
    <3>5. \A m \in Methods : m # here => refs'[m] = refs[m]
      BY <2>4
    <3> HIDE DEF n
    <3> QED BY <3>2, <3>3, <3>4, <3>5
  <2>7. /\ Len(pool[c.pool]) \in Nat /\ Len(pool'[c.pool]) = Len(pool[c.pool]) + 1
        /\ \A p \in Pools : p # c.pool => pool'[p] = pool[p]
    <3>1. pool[c.pool] \in Seq(Values) /\ pool'[c.pool] = Append(pool[c.pool], c.value)
      BY <2>1, <2>4, <2>5
    <3>2. Len(pool'[c.pool]) = Len(pool[c.pool]) + 1 /\ Len(pool[c.pool]) \in Nat
      BY <2>1, <3>1
    <3>3. \A p \in Pools : p # c.pool => pool'[p] = pool[p]
      BY <2>4
    <3> QED BY <3>2, <3>3
  <2>8. \A p \in Pools : Len(InitialPool[p]) \in Nat /\ Len(InitialPool[p]) <= Len(pool[p])
    BY WorkAssumption DEF PoolsLonger, Inv
  <2>9. \A p \in Pools : \A m \in Methods : \A k \in DOMAIN refs[m] :
          Work[m][k].pool = p => refs[m][k] < Len(pool[p])
    BY DEF IndicesRight, Inv
  <2>10. EntriesOwned
    BY DEF Inv
  <2> HIDE DEF n
  <2> SUFFICES ASSUME NEW p \in Pools
               PROVE  /\ \A m \in Methods : \A k \in DOMAIN refs'[m] :
                           Work[m][k].pool = p => refs'[m][k] >= Len(InitialPool[p])
                      /\ \A i \in Len(InitialPool[p])..(Len(pool'[p]) - 1) :
                           \E m \in Methods : \E k \in DOMAIN refs'[m] :
                             /\ Work[m][k].pool = p /\ refs'[m][k] = i
                             /\ \A q \in Methods : \A l \in DOMAIN refs'[q] :
                                  Work[q][l].pool = p /\ refs'[q][l] = i => q = m /\ l = k
    BY DEF EntriesOwned, Has
  <2>11. ASSUME NEW m \in Methods, NEW k \in DOMAIN refs'[m], Work[m][k].pool = p
         PROVE  refs'[m][k] >= Len(InitialPool[p])
    <3>1. CASE m = here /\ k = n + 1
      BY <2>2, <2>3, <2>6, <2>8, <2>11, <3>1
    <3>2. CASE ~(m = here /\ k = n + 1)
      <4>1. k \in DOMAIN refs[m] /\ refs'[m][k] = refs[m][k]
        BY <2>6, <3>2
      <4> QED BY <2>10, <2>11, <4>1 DEF EntriesOwned
    <3> QED BY <3>1, <3>2
  <2>12. ASSUME NEW i \in Len(InitialPool[p])..(Len(pool'[p]) - 1)
         PROVE  \E m \in Methods : \E k \in DOMAIN refs'[m] :
                  /\ Work[m][k].pool = p /\ refs'[m][k] = i
                  /\ \A q \in Methods : \A l \in DOMAIN refs'[q] :
                       Work[q][l].pool = p /\ refs'[q][l] = i => q = m /\ l = k
    <3>1. CASE p = c.pool /\ i = index[t]
      <4>1. Work[here][n + 1].pool = p /\ refs'[here][n + 1] = i
        BY <2>2, <2>6, <3>1
      <4>2. ASSUME NEW q \in Methods, NEW l \in DOMAIN refs'[q],
                    Work[q][l].pool = p /\ refs'[q][l] = i
            PROVE  q = here /\ l = n + 1
        <5> SUFFICES ASSUME ~(q = here /\ l = n + 1) PROVE FALSE
          OBVIOUS
        <5>1. l \in DOMAIN refs[q] /\ refs'[q][l] = refs[q][l]
          BY <2>6
        <5>2. Work[q][l].pool = p /\ refs[q][l] = Len(pool[p])
          BY <2>3, <3>1, <4>2, <5>1 DEF Has
        <5>3. refs[q][l] < Len(pool[p])
          BY <2>9, <5>1, <5>2
        <5> QED BY <2>7, <3>1, <5>2, <5>3
      <4>3. n + 1 \in DOMAIN refs'[here]
        BY <2>6
      <4> QED BY <2>1, <4>1, <4>2, <4>3
    <3>2. CASE ~(p = c.pool /\ i = index[t])
      <4>1. i \in Len(InitialPool[p])..(Len(pool[p]) - 1)
        BY <2>3, <2>7, <2>8, <3>2
      <4>2. PICK m \in Methods : \E k \in DOMAIN refs[m] :
              /\ Has(m, k, p, i)
              /\ \A q \in Methods : \A l \in DOMAIN refs[q] :
                   Has(q, l, p, i) => q = m /\ l = k
        BY <2>10, <4>1 DEF EntriesOwned
      <4>3. PICK k \in DOMAIN refs[m] :
              /\ Has(m, k, p, i)
              /\ \A q \in Methods : \A l \in DOMAIN refs[q] :
                   Has(q, l, p, i) => q = m /\ l = k
        BY <4>2
      <4>4. k \in DOMAIN refs'[m] /\ Work[m][k].pool = p /\ refs'[m][k] = i
        BY <2>6, <4>3 DEF Has
      <4>5. ASSUME NEW q \in Methods, NEW l \in DOMAIN refs'[q],
                    Work[q][l].pool = p /\ refs'[q][l] = i
            PROVE  q = m /\ l = k
        <5>1. ~(q = here /\ l = n + 1)
          BY <2>2, <2>6, <3>2, <4>5 DEF Has
        <5>2. l \in DOMAIN refs[q] /\ refs'[q][l] = refs[q][l]
          BY <2>6, <5>1
        <5>3. Has(q, l, p, i)
          BY <4>5, <5>2 DEF Has
        <5> QED BY <4>3, <5>2, <5>3
      <4> QED BY <4>4, <4>5, Zenon
    <3> QED BY <3>1, <3>2
  <2> QED BY <2>11, <2>12
<1> QED BY <1>1, <1>2 DEF Next, MainStep, Alone, Fill, Spawn, SpawnFails, Join, WorkerStep,
        Lock, Break, Back, PopBack, LockValue, WriteIndex, Return, vars

LEMMA LongerStep == Inv /\ [Next]_vars => PoolsLonger'
<1> SUFFICES ASSUME Inv, [Next]_vars PROVE PoolsLonger'
  OBVIOUS
<1> USE DEF Inv, mainVars, queueVars, valueVars
<1>1. CASE pool' = pool
  BY <1>1 DEF PoolsLonger
<1>2. ASSUME NEW t \in Workers, PushBack(t) PROVE PoolsLonger'
  <2>1. Const(t).pool \in Pools /\ Const(t).value \in Values
    BY <1>2, ConstType DEF PushBack
  <2>2. ASSUME NEW p \in Pools PROVE Len(pool[p]) <= Len(pool'[p])
    <3>1. pool[p] \in Seq(Values)
      BY DEF TypeOK
    <3>2. pool'[p] = IF p = Const(t).pool THEN Append(pool[p], Const(t).value) ELSE pool[p]
      BY <1>2, <2>1 DEF PushBack, TypeOK
    <3> QED BY <2>1, <3>1, <3>2
  <2>3. ASSUME NEW p \in Pools
        PROVE /\ Len(pool[p]) \in Nat /\ Len(pool'[p]) \in Nat
              /\ Len(InitialPool[p]) \in Nat
    <3>1. pool \in [Pools -> Seq(Values)] /\ pool' \in [Pools -> Seq(Values)]
      BY TypeStep DEF TypeOK
    <3>2. InitialPool \in [Pools -> Seq(Values)]
      BY WorkAssumption
    <3> HIDE DEF Inv
    <3>3. pool[p] \in Seq(Values) /\ pool'[p] \in Seq(Values) /\ InitialPool[p] \in Seq(Values)
      BY <3>1, <3>2
    <3> QED BY <3>3
  <2> QED BY <2>2, <2>3 DEF PoolsLonger
<1> QED BY <1>1, <1>2 DEF Next, MainStep, Alone, Fill, Spawn, SpawnFails, Join, WorkerStep,
        Lock, Break, Back, PopBack, LockValue, WriteIndex, Return, vars

LEMMA InvStep == Inv /\ [Next]_vars => Inv'
  BY TypeStep, LocksStep, ReadsStep, ProgressStep, PhasesStep, HandedStep, IndicesStep,
     LongerStep, EntriesStep DEF Inv

LEMMA Invariance == Spec => []Inv
  BY InitInv, InvStep, PTL DEF Spec

LEMMA RenameFacts == Inv => JoinedBeforeRename
<1> SUFFICES ASSUME Inv, stage = "rename" PROVE JoinedBeforeRename
  BY DEF JoinedBeforeRename
<1>1. /\ finished = Methods
      /\ \A t \in Workers : pc[t] \in {"none", "exit"}
  <2>1. CASE jobs = 1
    <3>1. /\ pc[Main] = "none" /\ finished = Methods
          /\ \A t \in Workers \ {Main} : pc[t] = "none"
      BY <2>1 DEF Inv, Phases
    <3> QED BY <3>1
  <2>2. CASE jobs # 1
    <3>1. /\ spawned = jobs /\ joined = jobs /\ pc[Main] = "none"
          /\ \A t \in Workers : t > spawned => pc[t] = "none"
          /\ \A t \in Workers : 0 < t /\ t <= joined => pc[t] = "exit"
          /\ \A t \in Workers : pc[t] = "exit" => indexes = <<>>
          /\ 0..jobs \subseteq Workers
      BY <2>2 DEF Inv, Phases
    <3>2. jobs \in Nat \ {0}
      BY DEF Inv, TypeOK
    <3>3. \A t \in Workers : pc[t] \in {"none", "exit"}
      BY <3>1, <3>2, WorkersFacts DEF Main
    <3>4. indexes = <<>>
      <4>1. 1 \in Workers /\ pc[1] = "exit"
        BY <3>1, <3>2
      <4> QED BY <3>1, <4>1
    <3>5. \A m \in Methods : m \in finished
      BY <2>2, <3>3, <3>4 DEF Inv, HandedOutOnce, Busy
    <3> QED BY <3>3, <3>5 DEF Inv, TypeOK
  <2> QED BY <2>1, <2>2
<1> QED BY <1>1 DEF JoinedBeforeRename, Inv, Progress

-----------------------------------------------------------------------------
(***************************************************************************)
(* What holds for any number of methods, threads, pools and constants.     *)
(***************************************************************************)
\* Every variable of the pool of threads keeps its type.
THEOREM Typing == Spec => []TypeOK
  BY Invariance, PTL DEF Inv

\* task() gives every method to one thread, once, and loses none.
THEOREM EveryMethodOnce == Spec => []HandedOutOnce
  BY Invariance, PTL DEF Inv

\* The pool index that unscramble() writes into a method's code is that of the
\* value it resolved, however the threads interleave.
THEOREM IndicesStayRight == Spec => []IndicesRight
  BY Invariance, PTL DEF Inv

\* main() reaches rename() with every thread gone and every method done.
THEOREM RenameLast == Spec => []JoinedBeforeRename
  BY Invariance, RenameFacts, PTL

\* Whatever the order in which threads read a pool's size and append to it, the
\* entries appended and the constants resolved stay in one-to-one correspondence.
THEOREM EntriesStayOwned == Spec => []EntriesOwned
  BY Invariance, PTL DEF Inv

\* Under the two mutexes the threads together do what Resolution says: every
\* resolution is one step, and rename() is reached once all are made.
THEOREM Refinement == Spec => Implements
<1>1. Init => Abstract!Init
  BY DEF Init, Abstract!Init
<1>2. Inv /\ Inv' /\ [Next]_vars => [Abstract!Next]_(Abstract!vars)
  <2> SUFFICES ASSUME Inv, Inv', [Next]_vars PROVE [Abstract!Next]_(Abstract!vars)
    OBVIOUS
  <2> DEFINE ready == stage = "rename"
  <2>0. JoinedBeforeRename /\ JoinedBeforeRename'
    <3>1. JoinedBeforeRename
      BY RenameFacts
    <3>2. JoinedBeforeRename'
      BY RenameFacts, PTL
    <3> QED BY <3>1, <3>2
  <2>1. CASE pool' = pool /\ refs' = refs /\ stage # "rename"
    <3>1. CASE stage' = "rename"
      <4>1. \A m \in Methods : Len(refs[m]) = Len(Work[m])
        BY <2>0, <2>1, <3>1 DEF JoinedBeforeRename
      <4> QED BY <2>1, <3>1, <4>1 DEF Abstract!Next, Abstract!HandOn
    <3>2. CASE stage' # "rename"
      BY <2>1, <3>2 DEF Abstract!vars
    <3> QED BY <3>1, <3>2
  <2>2. ASSUME NEW t \in Workers, PushBack(t) PROVE Abstract!Next
    <3>1. stage # "rename" /\ stage' = stage
      BY <2>0, <2>2 DEF PushBack, JoinedBeforeRename, mainVars
    <3>2. /\ method[t] \in Methods /\ Len(refs[method[t]]) < Len(Work[method[t]])
          /\ index[t] = Len(pool[Const(t).pool])
      BY <2>2 DEF PushBack, Inv, ReadsFresh, Busy
    <3>3. Abstract!Resolve(method[t])
      BY <2>2, <3>1, <3>2 DEF PushBack, Abstract!Resolve, Const
    <3> QED BY <3>2, <3>3 DEF Abstract!Next
  <2>3. CASE stage = "rename"
    <3>1. UNCHANGED vars
      <4>1. ~MainStep
        BY <2>3 DEF MainStep, Alone, Fill, Spawn, SpawnFails, Join
      <4>2. ASSUME NEW t \in Workers, WorkerStep(t) PROVE FALSE
        BY <2>0, <2>3, <4>2 DEF JoinedBeforeRename, WorkerStep, Lock, Break, Back, PopBack,
                                LockValue, WriteIndex, PushBack, Return
      <4> QED BY <4>1, <4>2 DEF Next
    <3> QED BY <3>1 DEF vars, valueVars, mainVars, Abstract!vars
  <2> QED BY <2>1, <2>2, <2>3 DEF Next, MainStep, Alone, Fill, Spawn, SpawnFails, Join,
          WorkerStep, Lock, Break, Back, PopBack, LockValue, WriteIndex, Return, vars, valueVars
<1> QED BY <1>1, <1>2, Invariance, PTL DEF Spec, Implements, Abstract!Spec
=============================================================================
