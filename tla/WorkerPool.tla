----------------------------- MODULE WorkerPool -----------------------------
(***************************************************************************)
(* unscramble(detfm, abc, jobs) in src/main.cpp: the main thread queues    *)
(* the methods, spawns the threads that run task(), and joins them before  *)
(* it goes on to detfm.rename().  Of detfm::unscramble(method) only the    *)
(* state that methods share is here: the constants of static methods it    *)
(* appends to the pools under add_value_mut.                               *)
(***************************************************************************)
EXTENDS Integers, Sequences

CONSTANTS M,                 \* number of methods in the file
          JobsOptions,       \* the values of --jobs considered
          HardwareThreads,   \* std::thread::hardware_concurrency()
          Pools,             \* the constant pools: ints and doubles
          Values,
          InitialPool,       \* what the pools hold before
          Work               \* the constants each method resolves, in order

ASSUME WorkAssumption ==
  /\ M \in Nat
  /\ JobsOptions \subseteq Nat /\ HardwareThreads \in Nat
  /\ InitialPool \in [Pools -> Seq(Values)]
  /\ Work \in [1..M -> Seq([pool : Pools, value : Values])]

Methods == 1..M

\* Mutant: the option is taken as it is.
GetJobsVerbatim(jobsOption) == jobsOption

GetJobs(jobsOption) == IF jobsOption = 0 THEN HardwareThreads + 2 ELSE jobsOption

\* The thread of main, which works itself when there is one job, and those
\* it may start.
Main    == 0
Workers == UNION {0..GetJobs(o) : o \in JobsOptions}
Free    == -1         \* a mutex nobody holds

VARIABLES jobs,       \* number of threads to start
          stage,      \* of main: "start", "alone", "spawn", "join", "rename",
                      \* or "terminated" with the whole process
          spawned,    \* number of threads started
          joined,     \* number of threads joined
          indexes,    \* the deque of methods
          mut,        \* holder of task()'s static mutex
          valueMut,   \* holder of detfm::add_value_mut
          pc,         \* program point of each worker
          method,     \* the method it works on
          index,      \* the pool index it wrote into the code last
          pool,       \* abc->cpool
          refs,       \* the pool indices written into each method
          finished    \* history: the methods whose unscramble() returned

queueVars == <<indexes, mut, method>>
valueVars == <<valueMut, index, pool, refs>>
mainVars  == <<jobs, stage, spawned, joined>>
vars == <<mainVars, queueVars, valueVars, pc, finished>>

Init ==
  /\ \E o \in JobsOptions : jobs = GetJobs(o)
  /\ stage = "start"
  /\ spawned = 0 /\ joined = 0
  /\ indexes = <<>>
  /\ mut = Free /\ valueMut = Free
  /\ pc = [t \in Workers |-> "none"]
  /\ method = [t \in Workers |-> 0]
  /\ index = [t \in Workers |-> 0]
  /\ pool = InitialPool
  /\ refs = [m \in Methods |-> <<>>]
  /\ finished = {}

Running == stage # "terminated"

-----------------------------------------------------------------------------
(***************************************************************************)
(* The main thread.                                                        *)
(***************************************************************************)
\* With one job main runs detfm::unscramble() over the methods in order.
Alone ==
  /\ stage = "start" /\ jobs = 1
  /\ stage' = IF M = 0 THEN "rename" ELSE "alone"
  /\ method' = [method EXCEPT ![Main] = IF M = 0 THEN 0 ELSE 1]
  /\ pc' = [pc EXCEPT ![Main] = IF M = 0 THEN "none" ELSE "run"]
  /\ UNCHANGED <<jobs, spawned, joined, indexes, mut, valueVars, finished>>

Fill ==
  /\ stage = "start" /\ jobs # 1
  /\ indexes' = [m \in Methods |-> m]
  /\ stage' = "spawn"
  /\ UNCHANGED <<jobs, spawned, joined, mut, method, valueVars, pc, finished>>

Spawn ==
  /\ stage = "spawn" /\ spawned < jobs
  /\ spawned' = spawned + 1
  /\ pc' = [pc EXCEPT ![spawned + 1] = "lock"]
  /\ stage' = IF spawned + 1 = jobs THEN "join" ELSE stage
  /\ UNCHANGED <<jobs, joined, queueVars, valueVars, finished>>

\* std::thread throws when the system has no thread left, and nothing joins
\* the threads started before.
SpawnFails ==
  /\ stage = "spawn" /\ spawned < jobs
  /\ stage' = "terminated"
  /\ UNCHANGED <<jobs, spawned, joined, queueVars, valueVars, pc, finished>>

\* Mutant: main does not wait.
JoinAtOnce ==
  /\ stage = "join"
  /\ joined' = joined + 1
  /\ stage' = IF joined + 1 = jobs THEN "rename" ELSE stage
  /\ UNCHANGED <<jobs, spawned, queueVars, valueVars, pc, finished>>

Join ==
  /\ stage = "join" /\ pc[joined + 1] = "exit"
  /\ joined' = joined + 1
  /\ stage' = IF joined + 1 = jobs THEN "rename" ELSE stage
  /\ UNCHANGED <<jobs, spawned, queueVars, valueVars, pc, finished>>

-----------------------------------------------------------------------------
(***************************************************************************)
(* task(): taking a method from the deque.                                 *)
(***************************************************************************)
\* Mutant: without the guard, a thread passes while another is inside.
LockNothing(t) ==
  /\ Running /\ pc[t] = "lock"
  /\ mut' = t
  /\ pc' = [pc EXCEPT ![t] = "check"]
  /\ UNCHANGED <<mainVars, indexes, method, valueVars, finished>>

Lock(t) ==
  /\ Running /\ pc[t] = "lock" /\ mut = Free
  /\ mut' = t
  /\ pc' = [pc EXCEPT ![t] = "check"]
  /\ UNCHANGED <<mainVars, indexes, method, valueVars, finished>>

\* Mutant: the loop is left with the mutex held.
BreakLocked(t) ==
  /\ Running /\ pc[t] = "check" /\ indexes = <<>>
  /\ pc' = [pc EXCEPT ![t] = "exit"]
  /\ UNCHANGED <<mainVars, indexes, mut, method, valueVars, finished>>

Break(t) ==
  /\ Running /\ pc[t] = "check" /\ indexes = <<>>
  /\ mut' = Free
  /\ pc' = [pc EXCEPT ![t] = "exit"]
  /\ UNCHANGED <<mainVars, indexes, method, valueVars, finished>>

Back(t) ==
  /\ Running /\ pc[t] = "check" /\ indexes # <<>>
  /\ method' = [method EXCEPT ![t] = indexes[Len(indexes)]]
  /\ pc' = [pc EXCEPT ![t] = "pop"]
  /\ UNCHANGED <<mainVars, indexes, mut, valueVars, finished>>

PopBack(t) ==
  /\ Running /\ pc[t] = "pop"
  /\ indexes' = SubSeq(indexes, 1, Len(indexes) - 1)
  /\ mut' = Free
  /\ pc' = [pc EXCEPT ![t] = "run"]
  /\ UNCHANGED <<mainVars, method, valueVars, finished>>

-----------------------------------------------------------------------------
(***************************************************************************)
(* detfm::unscramble(method): appending a constant.                        *)
(***************************************************************************)
\* The constant the worker's method resolves next.
Const(t) == Work[method[t]][Len(refs[method[t]]) + 1]

\* Mutant: the index is read without the lock.
LockValueNot(t) ==
  /\ Running /\ pc[t] = "run" /\ Len(refs[method[t]]) < Len(Work[method[t]])
  /\ pc' = [pc EXCEPT ![t] = "index"]
  /\ UNCHANGED <<mainVars, queueVars, valueVars, finished>>

LockValue(t) ==
  /\ Running /\ pc[t] = "run" /\ Len(refs[method[t]]) < Len(Work[method[t]])
  /\ valueMut = Free
  /\ valueMut' = t
  /\ pc' = [pc EXCEPT ![t] = "index"]
  /\ UNCHANGED <<mainVars, queueVars, index, pool, refs, finished>>

WriteIndex(t) ==
  /\ Running /\ pc[t] = "index"
  /\ index' = [index EXCEPT ![t] = Len(pool[Const(t).pool])]
  /\ pc' = [pc EXCEPT ![t] = "push"]
  /\ UNCHANGED <<mainVars, queueVars, valueMut, pool, refs, finished>>

PushBack(t) ==
  /\ Running /\ pc[t] = "push"
  /\ pool' = [pool EXCEPT ![Const(t).pool] = Append(@, Const(t).value)]
  /\ refs' = [refs EXCEPT ![method[t]] = Append(@, index[t])]
  /\ valueMut' = Free
  /\ pc' = [pc EXCEPT ![t] = "run"]
  /\ UNCHANGED <<mainVars, queueVars, index, finished>>

\* unscramble() returns to task(), or to the loop of main.
Return(t) ==
  /\ Running /\ pc[t] = "run" /\ Len(refs[method[t]]) = Len(Work[method[t]])
  /\ finished' = finished \cup {method[t]}
  /\ \/ /\ t # Main
        /\ pc' = [pc EXCEPT ![t] = "lock"]
        /\ UNCHANGED <<mainVars, queueVars, valueVars>>
     \/ /\ t = Main /\ method[t] < M
        /\ method' = [method EXCEPT ![t] = @ + 1]
        /\ UNCHANGED <<mainVars, indexes, mut, pc, valueVars>>
     \/ /\ t = Main /\ method[t] = M
        /\ pc' = [pc EXCEPT ![t] = "none"]
        /\ stage' = "rename"
        /\ UNCHANGED <<jobs, spawned, joined, queueVars, valueVars>>

-----------------------------------------------------------------------------
MainStep == Alone \/ Fill \/ Spawn \/ SpawnFails \/ Join

WorkerStep(t) ==
  \/ Lock(t) \/ Break(t) \/ Back(t) \/ PopBack(t)
  \/ LockValue(t) \/ WriteIndex(t) \/ PushBack(t) \/ Return(t)

Next == MainStep \/ \E t \in Workers : WorkerStep(t)

\* Every thread is scheduled again and again.  Nothing is assumed of who gets
\* a mutex that is free: a thread takes it a bounded number of times.
Fairness == WF_vars(MainStep) /\ \A t \in Workers : WF_vars(WorkerStep(t))

Spec == Init /\ [][Next]_vars /\ Fairness

-----------------------------------------------------------------------------
TypeOK ==
  /\ stage \in {"start", "alone", "spawn", "join", "rename", "terminated"}
  /\ jobs \in Nat \ {0} /\ spawned \in 0..jobs /\ joined \in 0..jobs
  /\ indexes \in Seq(Methods)
  /\ mut \in Workers \cup {Free} /\ valueMut \in Workers \cup {Free}
  /\ pc \in [Workers -> {"none", "lock", "check", "pop", "run", "index", "push", "exit"}]
  /\ method \in [Workers -> Methods \cup {0}]
  /\ index \in [Workers -> Nat]
  /\ pool \in [Pools -> Seq(Values)]
  /\ refs \in [Methods -> Seq(Nat)]
  /\ finished \subseteq Methods

Busy(t) == pc[t] \in {"run", "index", "push"}

\* No method is given out twice and none gets lost between the deque and a
\* thread: each is queued, worked on by one worker, or finished, and only one
\* of these ("back" and "pop_back" are two calls).
HandedOutOnce ==
  stage \in {"spawn", "join", "rename"} /\ jobs # 1 =>
    /\ \A i, k \in DOMAIN indexes : indexes[i] = indexes[k] => i = k
    /\ \A t, u \in Workers : Busy(t) /\ Busy(u) /\ method[t] = method[u] => t = u
    /\ \A m \in Methods :
         LET queued == \E i \in DOMAIN indexes : indexes[i] = m
             held   == \E t \in Workers : Busy(t) /\ method[t] = m
         IN /\ queued \/ held \/ m \in finished
            /\ ~(queued /\ held) /\ ~(queued /\ m \in finished) /\ ~(held /\ m \in finished)

\* An index written into the code of a method leads to the value of the
\* constant it stands for, whatever the other threads have appended since.
IndicesRight ==
  \A m \in Methods : \A k \in DOMAIN refs[m] :
    LET const == Work[m][k]
    IN /\ refs[m][k] < Len(pool[const.pool])
       /\ pool[const.pool][refs[m][k] + 1] = const.value

\* rename() edits the file only when no thread does any more and all of it
\* has been unscrambled.
JoinedBeforeRename ==
  stage = "rename" =>
    /\ finished = Methods
    /\ \A t \in Workers : pc[t] \in {"none", "exit"}
    /\ \A m \in Methods : Len(refs[m]) = Len(Work[m])

\* Constant k of method m has entry i (from 0) of pool p.
Has(m, k, p, i) == Work[m][k].pool = p /\ refs[m][k] = i

\* Every constant resolved has an entry of its own behind those the file came
\* with, even where two threads append equal values, and no entry is left that
\* no code leads to: reading size() and emplace_back are two calls.
EntriesOwned ==
  \A p \in Pools :
    /\ \A m \in Methods : \A k \in DOMAIN refs[m] :
         Work[m][k].pool = p => refs[m][k] >= Len(InitialPool[p])
    /\ \A i \in Len(InitialPool[p])..(Len(pool[p]) - 1) :
         \E m \in Methods : \E k \in DOMAIN refs[m] :
           /\ Has(m, k, p, i)
           /\ \A n \in Methods : \A l \in DOMAIN refs[n] :
                Has(n, l, p, i) => n = m /\ l = k

\* Unscrambling comes to an end: no thread waits for a mutex for ever.
Ends == <>(stage \in {"rename", "terminated"})

Abstract == INSTANCE Resolution WITH ready <- stage = "rename"

\* The two mutexes make every resolution look like one step.
Implements == Abstract!Spec
=============================================================================
