------------------------------- MODULE TaskQueue -------------------------------
(***************************************************************************)
(* The task queue of platform/task_queue: any thread pushes tasks under a     *)
(* spin lock, the run thread takes them all at once and runs them.  A task     *)
(* may push others; on the run thread push takes no lock.                      *)
(*                                                                         *)
(* An insertion into m_queue is two steps, so that two of them may overlap.    *)
(***************************************************************************)
EXTENDS Naturals, Sequences, FiniteSets, SequencesExt

CONSTANTS Producers,  \* threads that push and flush
          Runner,     \* the thread that calls run
          Tasks,
          Roots,      \* for each producer, the tasks it pushes
          Children,   \* for each task, the tasks it pushes when it runs
          NULL

ASSUME ThreadsAssumption == Runner \notin Producers /\ NULL \notin Producers \union {Runner}
ASSUME TasksAssumption ==
  /\ IsFiniteSet(Tasks) /\ NULL \notin Tasks
  /\ Roots \in [Producers -> SUBSET Tasks]
  /\ Children \in [Tasks -> SUBSET Tasks]

VARIABLES
  queue,    \* m_queue
  local,    \* localQueue of run
  holder,   \* who has m_lock
  hasData,  \* m_hasData
  running,  \* m_running
  pc,       \* where each thread is
  job,      \* the task each thread is running
  push,     \* where each thread is in push
  arg,      \* the task it pushes
  begun,    \* history: tasks whose push has begun
  pushed,   \* history: tasks in the order of their insertion
  ran,      \* history: tasks in the order of their end
  deleted,  \* history: tasks deleted by the destructor
  flushed,  \* history: flushQueue has been called
  stopped,  \* history: stop was called while run was running
  fault     \* two accesses to m_queue overlapped

data == <<queue, local, holder, hasData, running>>
threads == <<pc, job, push, arg>>
history == <<begun, pushed, ran, deleted, flushed, stopped>>
vars == <<data, threads, history, fault>>

Threads == Producers \union {Runner}

Init ==
  /\ queue = <<>> /\ local = <<>> /\ holder = NULL
  /\ hasData = FALSE /\ running = FALSE
  /\ pc = [x \in Threads |-> "idle"]
  /\ job = [x \in Threads |-> NULL]
  /\ push = [x \in Threads |-> "no"]
  /\ arg = [x \in Threads |-> NULL]
  /\ begun = {} /\ pushed = <<>> /\ ran = <<>> /\ deleted = {}
  /\ flushed = FALSE /\ stopped = FALSE
  /\ fault = FALSE

-----------------------------------------------------------------------------
\* push

\* A producer pushes between its other calls, a task when it runs.
MayPush(x, t) ==
  /\ push[x] = "no" /\ t \notin begun
  /\ \/ x \in Producers /\ pc[x] = "idle" /\ pc[Runner] # "gone" /\ t \in Roots[x]
     \/ job[x] # NULL /\ t \in Children[job[x]]

\* Mutant: no thread takes the lock.
MutNoLock(x, t) ==
  /\ MayPush(x, t)
  /\ push' = [push EXCEPT ![x] = "insert"]
  /\ arg' = [arg EXCEPT ![x] = t]
  /\ begun' = begun \union {t}
  /\ UNCHANGED <<data, pc, job, pushed, ran, deleted, flushed, stopped, fault>>

Push(x, t) ==
  /\ MayPush(x, t)
  /\ push' = [push EXCEPT ![x] = IF x = Runner THEN "insert" ELSE "lock"]
  /\ arg' = [arg EXCEPT ![x] = t]
  /\ begun' = begun \union {t}
  /\ UNCHANGED <<data, pc, job, pushed, ran, deleted, flushed, stopped, fault>>

Lock(x) ==
  /\ push[x] = "lock" /\ holder = NULL
  /\ holder' = x
  /\ push' = [push EXCEPT ![x] = "insert"]
  /\ UNCHANGED <<queue, local, hasData, running, pc, job, arg, history, fault>>

Insert(x) ==
  /\ push[x] = "insert"
  /\ queue' = Append(queue, arg[x])
  /\ pushed' = Append(pushed, arg[x])
  /\ holder' = IF x = Runner THEN holder ELSE NULL
  /\ push' = [push EXCEPT ![x] = "flag"]
  /\ UNCHANGED <<local, hasData, running, pc, job, arg, begun, ran, deleted,
                 flushed, stopped, fault>>

\* Mutant: the flag is left alone when it is on the run thread.
MutFlag(x) ==
  /\ push[x] = "flag"
  /\ hasData' = (hasData \/ x # Runner)
  /\ push' = [push EXCEPT ![x] = "no"]
  /\ UNCHANGED <<queue, local, holder, running, pc, job, arg, history, fault>>

\* m_hasData = true
Flag(x) ==
  /\ push[x] = "flag"
  /\ hasData' = TRUE
  /\ push' = [push EXCEPT ![x] = "no"]
  /\ UNCHANGED <<queue, local, holder, running, pc, job, arg, history, fault>>

\* Who is inside m_queue without regard to the others.
Inside(x) == push[x] = "insert" \/ pc[x] = "flush"

\* Two threads are inside m_queue, or one while it iterates over it.
Overlap ==
  /\ \/ \E x, y \in Threads : x # y /\ Inside(x) /\ Inside(y)
     \/ \E x \in Threads : push[x] = "insert" /\ pc[x] = "flush"
  /\ fault' = TRUE
  /\ UNCHANGED <<data, threads, history>>

-----------------------------------------------------------------------------
\* processAndDelete

Take(x, t) == job' = [job EXCEPT ![x] = t]

EndTask(x) ==
  /\ job[x] # NULL /\ push[x] = "no" /\ Children[job[x]] \subseteq begun
  /\ ran' = Append(ran, job[x])
  /\ Take(x, NULL)
  /\ UNCHANGED <<data, pc, push, arg, begun, pushed, deleted, flushed, stopped, fault>>

-----------------------------------------------------------------------------
\* run

RunBegin ==
  /\ pc[Runner] = "idle"
  /\ running' = TRUE
  /\ pc' = [pc EXCEPT ![Runner] = "loop"]
  /\ UNCHANGED <<queue, local, holder, hasData, job, push, arg, history, fault>>

\* while(m_running)
Loop ==
  /\ pc[Runner] = "loop"
  /\ pc' = [pc EXCEPT ![Runner] = IF running THEN "drain" ELSE "done"]
  /\ UNCHANGED <<data, job, push, arg, history, fault>>

\* Mutant: with nothing to do, the inner loop waits for data.
MutWaitForData ==
  /\ pc[Runner] = "drain"
  /\ hasData' = FALSE
  /\ pc' = [pc EXCEPT ![Runner] = IF hasData THEN "swap" ELSE "drain"]
  /\ UNCHANGED <<queue, local, holder, running, job, push, arg, history, fault>>

\* while(m_hasData.exchange(false)); with nothing to do, onIdle and a yield.
Exchange ==
  /\ pc[Runner] = "drain"
  /\ hasData' = FALSE
  /\ pc' = [pc EXCEPT ![Runner] = IF hasData THEN "swap" ELSE "loop"]
  /\ UNCHANGED <<queue, local, holder, running, job, push, arg, history, fault>>

\* Mutant: the tasks are copied and m_queue keeps them.
MutCopy ==
  /\ pc[Runner] = "swap" /\ holder = NULL
  /\ local' = queue
  /\ pc' = [pc EXCEPT ![Runner] = "process"]
  /\ UNCHANGED <<queue, holder, hasData, running, job, push, arg, history, fault>>

\* m_queue.swap(localQueue), under the lock.
Swap ==
  /\ pc[Runner] = "swap" /\ holder = NULL
  /\ queue' = local
  /\ local' = queue
  /\ pc' = [pc EXCEPT ![Runner] = "process"]
  /\ UNCHANGED <<holder, hasData, running, job, push, arg, history, fault>>

Process ==
  /\ pc[Runner] = "process" /\ job[Runner] = NULL /\ local # <<>>
  /\ Take(Runner, Head(local))
  /\ local' = Tail(local)
  /\ UNCHANGED <<queue, holder, hasData, running, pc, push, arg, history, fault>>

EndProcess ==
  /\ pc[Runner] = "process" /\ job[Runner] = NULL /\ local = <<>>
  /\ pc' = [pc EXCEPT ![Runner] = "drain"]
  /\ UNCHANGED <<data, job, push, arg, history, fault>>

-----------------------------------------------------------------------------
\* flushQueue, by a producer, or by the run thread from onIdle.

Flush(x) ==
  /\ push[x] = "no" /\ ~flushed /\ pc[Runner] # "gone"
  /\ IF x = Runner THEN pc[x] = "loop" ELSE pc[x] = "idle"
  /\ holder = NULL
  /\ holder' = x
  /\ pc' = [pc EXCEPT ![x] = "flush"]
  /\ flushed' = TRUE
  /\ UNCHANGED <<queue, local, hasData, running, job, push, arg, begun, pushed,
                 ran, deleted, stopped, fault>>

\* Mutant: the loop goes from the end.
MutNewest(x) ==
  /\ pc[x] = "flush" /\ job[x] = NULL /\ queue # <<>>
  /\ Take(x, Last(queue))
  /\ queue' = Front(queue)
  /\ UNCHANGED <<local, holder, hasData, running, pc, push, arg, history, fault>>

FlushTask(x) ==
  /\ pc[x] = "flush" /\ job[x] = NULL /\ queue # <<>>
  /\ Take(x, Head(queue))
  /\ queue' = Tail(queue)
  /\ UNCHANGED <<local, holder, hasData, running, pc, push, arg, history, fault>>

EndFlush(x) ==
  /\ pc[x] = "flush" /\ job[x] = NULL /\ queue = <<>>
  /\ holder' = NULL
  /\ pc' = [pc EXCEPT ![x] = IF x = Runner THEN "loop" ELSE "idle"]
  /\ UNCHANGED <<queue, local, hasData, running, job, push, arg, history, fault>>

-----------------------------------------------------------------------------

\* stop; before run has set m_running it is forgotten.
Stop ==
  /\ ~stopped /\ pc[Runner] # "gone"
  /\ running' = FALSE
  /\ stopped' = (pc[Runner] # "idle")
  /\ UNCHANGED <<queue, local, holder, hasData, threads, begun, pushed, ran,
                 deleted, flushed, fault>>

\* The destructor, when nobody is inside: what was not run is deleted.
Destroy ==
  /\ pc[Runner] \in {"idle", "done"}
  /\ \A x \in Producers : pc[x] = "idle" /\ push[x] = "no"
  /\ running' = FALSE
  /\ pc' = [pc EXCEPT ![Runner] = "gone"]
  /\ deleted' = ToSet(queue)
  /\ queue' = <<>>
  /\ UNCHANGED <<local, holder, hasData, job, push, arg, begun, pushed, ran,
                 flushed, stopped, fault>>

Run == RunBegin \/ Loop \/ Exchange \/ Swap \/ Process \/ EndProcess

Steps(x) ==
  \/ \E t \in Tasks : Push(x, t)
  \/ Lock(x) \/ Insert(x) \/ Flag(x)
  \/ EndTask(x) \/ FlushTask(x) \/ EndFlush(x)

Next ==
  /\ ~fault
  /\ \/ \E x \in Threads : Steps(x) \/ Flush(x)
     \/ Run \/ Stop \/ Destroy \/ Overlap

Spec == Init /\ [][Next]_vars

\* Threads run.  Weak fairness is enough for the spin lock: pushes are finitely
\* many, and in the end nobody else wants it.
FairSpec ==
  /\ Spec
  /\ WF_vars(~fault /\ Run /\ pc[Runner] # "idle")
  /\ \A x \in Threads : WF_vars(~fault /\ Steps(x))

-----------------------------------------------------------------------------

Current(x) == IF job[x] = NULL THEN <<>> ELSE <<job[x]>>

\* No task is lost, run twice or both run and deleted; and without flushQueue
\* tasks are run in the order in which they were inserted.
TasksConserved ==
  ~fault =>
    /\ \A t \in Tasks :
         Cardinality({i \in DOMAIN pushed : pushed[i] = t})
           = Cardinality({i \in DOMAIN ran : ran[i] = t})
             + Cardinality({i \in DOMAIN local : local[i] = t})
             + Cardinality({i \in DOMAIN queue : queue[i] = t})
             + Cardinality({x \in Threads : job[x] = t})
             + (IF t \in deleted THEN 1 ELSE 0)
    /\ ~flushed /\ deleted = {} => pushed = ran \o Current(Runner) \o local \o queue

\* The two lists are one list of tasks: each goes through it once, run takes the
\* oldest task there is, even when others flush, and only flushQueue overtakes run.
Pool == INSTANCE TaskPool WITH
  Workers <- Threads, Main <- Runner, waiting <- local \o queue, doing <- job,
  finished <- ToSet(ran), discarded <- deleted
ImplementsPool == Pool!Spec

\* A thread that flushes spins on its own lock when a task pushes.
Deadlocked == \E x \in Threads : push[x] = "lock" /\ holder = x

\* Accesses to m_queue overlap, and a thread waits for itself, only when a task
\* pushes: on the run thread against a locked push or a flush, or inside a flush.
FaultsExplained ==
  /\ fault => \E t \in begun : \E p \in Tasks : t \in Children[p]
  /\ Deadlocked => flushed /\ \E x \in Producers : job[x] # NULL /\ arg[x] \in Children[job[x]]

\* A task that was pushed runs, as long as run goes on: m_hasData, set after the
\* insertion and outside the lock, never leaves one behind.
PushedRuns ==
  \A t \in Tasks :
    (\E i \in DOMAIN pushed : pushed[i] = t) ~>
      \/ \E i \in DOMAIN ran : ran[i] = t
      \/ fault \/ Deadlocked \/ ~running

\* stop ends run, once run has begun.
StopEndsRun == stopped ~> pc[Runner] \in {"done", "gone"} \/ fault \/ Deadlocked
================================================================================
