--------------------------- MODULE TaskQueueProofs ---------------------------
(***************************************************************************)
(* Proofs about TaskQueue for every set of producers and of tasks, and for    *)
(* every way in which tasks push one another.                                 *)
(*                                                                         *)
(* A task is counted where it is: the sum over the two queues, the threads    *)
(* that run it and the history is the number of its insertions.  That this    *)
(* number is at most one is needed for the destructor, which deletes the set  *)
(* of what is queued.                                                         *)
(***************************************************************************)
EXTENDS TaskQueue, SequenceTheorems, FiniteSetTheorems, FunctionTheorems, TLAPS

PCs == {"idle", "loop", "drain", "swap", "process", "done", "flush", "gone"}

Types ==
  /\ queue \in Seq(Tasks) /\ local \in Seq(Tasks)
  /\ pushed \in Seq(Tasks) /\ ran \in Seq(Tasks)
  /\ holder \in Threads \union {NULL}
  /\ pc \in [Threads -> PCs]
  /\ job \in [Threads -> Tasks \union {NULL}]
  /\ push \in [Threads -> {"no", "lock", "insert", "flag"}]
  /\ arg \in [Threads -> Tasks \union {NULL}]
  /\ begun \subseteq Tasks /\ deleted \subseteq Tasks

\* Only the loops of run and of flushQueue run tasks, and only the run thread is in
\* run.
Working ==
  /\ \A x \in Threads :
       job[x] # NULL => pc[x] = "flush" \/ (x = Runner /\ pc[x] = "process")
  /\ \A x \in Producers : pc[x] \in {"idle", "flush"}

\* The lock is held through a flush and, by a producer, while it inserts.
Locked ==
  /\ \A x \in Threads : pc[x] = "flush" => holder = x /\ flushed
  /\ \A x \in Producers : push[x] = "insert" => holder = x /\ pc[x] = "idle"
  /\ holder # NULL => pc[holder] = "flush" \/ push[holder] = "insert"
  /\ holder = Runner => pc[Runner] = "flush"
  /\ push[Runner] # "lock"

\* What a thread pushes was pushed by its task, or is a producer's own.
Pushing ==
  \A x \in Threads : push[x] # "no" =>
    /\ arg[x] \in begun
    /\ \/ job[x] # NULL /\ arg[x] \in Children[job[x]]
       \/ x \in Producers /\ pc[x] = "idle" /\ job[x] = NULL

Count(t, s) == Cardinality({i \in DOMAIN s : s[i] = t})

\* Each task is inserted once, by the thread whose push of it has begun.
Once ==
  /\ \A t \in Tasks : Count(t, pushed) <= 1
  /\ \A t \in Tasks \ begun : Count(t, pushed) = 0
  /\ \A x \in Threads : push[x] \in {"lock", "insert"} => Count(arg[x], pushed) = 0
  /\ \A x, y \in Threads :
       x # y /\ push[x] \in {"lock", "insert"} /\ push[y] \in {"lock", "insert"}
         => arg[x] # arg[y]

\* The list that run has taken is empty when run comes for the next one; only the
\* destructor deletes tasks.
Emptied ==
  /\ pc[Runner] # "process" => local = <<>>
  /\ pc[Runner] # "gone" => deleted = {}

Runs(t) == {x \in Threads : job[x] = t}
Deleted(t) == IF t \in deleted THEN 1 ELSE 0

Conserved ==
  \A t \in Tasks :
    Count(t, pushed) = Count(t, ran) + Count(t, local) + Count(t, queue)
                         + Cardinality(Runs(t)) + Deleted(t)

Ordered ==
  ~flushed /\ deleted = {} => pushed = ran \o Current(Runner) \o local \o queue

Explained == fault => \E t \in begun : \E p \in Tasks : t \in Children[p]

IInv ==
  /\ Types /\ Working /\ Locked /\ Pushing /\ Once /\ Emptied
  /\ Conserved /\ Ordered /\ Explained

-----------------------------------------------------------------------------
(* Counting.                                                                 *)

LEMMA CountType ==
  ASSUME NEW S, NEW s \in Seq(S), NEW t
  PROVE  /\ IsFiniteSet({i \in DOMAIN s : s[i] = t})
         /\ Count(t, s) \in Nat
         /\ Count(t, s) = 0 <=> {i \in DOMAIN s : s[i] = t} = {}
<1> DEFINE where == {i \in DOMAIN s : s[i] = t}
<1>1. IsFiniteSet(1..Len(s))
  BY LenProperties, FS_Interval
<1>2. where \subseteq 1..Len(s)
  OBVIOUS
<1>3. IsFiniteSet(where)
  BY <1>1, <1>2, FS_Subset
<1> HIDE DEF where
<1>4. Cardinality(where) \in Nat /\ (Cardinality(where) = 0 <=> where = {})
  BY <1>3, FS_CardinalityType, FS_EmptySet
<1>5. Count(t, s) = Cardinality(where)
  BY DEF Count, where
<1> QED
  BY <1>3, <1>4, <1>5 DEF where

LEMMA CountEmpty == ASSUME NEW t PROVE Count(t, <<>>) = 0
<1>1. {i \in DOMAIN <<>> : <<>>[i] = t} = {}
  OBVIOUS
<1> QED
  BY <1>1, FS_EmptySet DEF Count

LEMMA CountAppend ==
  ASSUME NEW S, NEW s \in Seq(S), NEW e \in S, NEW t
  PROVE  Count(t, Append(s, e)) = Count(t, s) + (IF e = t THEN 1 ELSE 0)
<1> DEFINE where == {i \in DOMAIN s : s[i] = t}
           after == {i \in DOMAIN Append(s, e) : Append(s, e)[i] = t}
           last == Len(s) + 1
<1>1. IsFiniteSet(where) /\ last \notin where
  <2>1. last \notin where
    OBVIOUS
  <2> QED
    BY <2>1, CountType
<1>2. after = IF e = t THEN where \union {last} ELSE where
  OBVIOUS
<1> HIDE DEF where, after, last
<1>3. Cardinality(where \union {last}) = Cardinality(where) + 1
  BY <1>1, FS_AddElement
<1>4. Cardinality(where) \in Nat
  BY <1>1, FS_CardinalityType
<1>5. Count(t, s) = Cardinality(where) /\ Count(t, Append(s, e)) = Cardinality(after)
  BY DEF Count, where, after
<1> QED
  BY <1>2, <1>3, <1>4, <1>5

LEMMA CountTail ==
  ASSUME NEW S, NEW s \in Seq(S), s # <<>>, NEW t
  PROVE  Count(t, s) = Count(t, Tail(s)) + (IF Head(s) = t THEN 1 ELSE 0)
<1> DEFINE where == {i \in DOMAIN s : s[i] = t}
           rest == {i \in DOMAIN Tail(s) : Tail(s)[i] = t}
           moved == {i \in DOMAIN s : i # 1 /\ s[i] = t}
           shift == [i \in rest |-> i + 1]
<1>1. /\ Tail(s) \in Seq(S) /\ Len(Tail(s)) = Len(s) - 1 /\ Len(s) \in Nat \ {0}
      /\ \A i \in 1..(Len(s) - 1) : Tail(s)[i] = s[i + 1]
      /\ DOMAIN Tail(s) = 1..(Len(s) - 1) /\ DOMAIN s = 1..Len(s) /\ Head(s) = s[1]
  OBVIOUS
<1>2. IsFiniteSet(rest) /\ IsFiniteSet(where)
  <2>1. IsFiniteSet(where)
    BY CountType
  <2>2. Tail(s) \in Seq(S)
    BY <1>1
  <2> QED
    BY <2>1, <2>2, CountType
<1>3. shift \in Bijection(rest, moved)
  <2>1. \A i \in rest : i \in Int /\ i + 1 \in moved
    BY <1>1
  <2>2. \A j \in moved : j - 1 \in rest /\ j = (j - 1) + 1
    BY <1>1
  <2>3. shift \in Injection(rest, moved)
    <3>1. shift \in [rest -> moved]
      BY <2>1
    <3>2. \A a, b \in rest : shift[a] = shift[b] => a = b
      BY <2>1
    <3> QED
      BY <3>1, <3>2, Fun_IsInj
  <2>4. \A j \in moved : \E i \in rest : shift[i] = j
    BY <2>2
  <2> QED
    BY <2>3, <2>4, Fun_IsSurj DEF Bijection, Injection, Surjection
<1>4. Cardinality(rest) = Cardinality(moved) /\ IsFiniteSet(moved)
  <2>1. ExistsBijection(rest, moved)
    BY <1>3 DEF ExistsBijection
  <2> QED
    BY <1>2, <2>1, FS_Bijection
<1>5. /\ where = IF Head(s) = t THEN moved \union {1} ELSE moved
      /\ 1 \notin moved
  BY <1>1
<1> HIDE DEF where, rest, moved, shift
<1>6. Cardinality(moved \union {1}) = Cardinality(moved) + 1 /\ Cardinality(moved) \in Nat
  BY <1>4, <1>5, FS_AddElement, FS_CardinalityType
<1>7. Count(t, s) = Cardinality(where) /\ Count(t, Tail(s)) = Cardinality(rest)
  BY DEF Count, where, rest
<1> QED
  BY <1>4, <1>5, <1>6, <1>7

\* What is in a list is counted there.
LEMMA CountMember ==
  ASSUME NEW S, NEW s \in Seq(S), NEW t
  PROVE  t \in ToSet(s) <=> Count(t, s) # 0
BY CountType DEF ToSet

\* The threads that run a task are finitely many, whatever the set of producers.
LEMMA RunsFinite ==
  ASSUME Types, Working, Locked
  PROVE  \A t \in Tasks : IsFiniteSet(Runs(t)) /\ Cardinality(Runs(t)) \in Nat
<1> SUFFICES ASSUME NEW t \in Tasks
             PROVE  IsFiniteSet(Runs(t)) /\ Cardinality(Runs(t)) \in Nat
  OBVIOUS
<1>1. Runs(t) \subseteq {Runner} \union {holder}
  BY TasksAssumption DEF Runs, Working, Locked, TasksAssumption
<1>2. IsFiniteSet({Runner} \union {holder})
  BY FS_Singleton, FS_AddElement
<1> QED
  BY <1>1, <1>2, FS_Subset, FS_CardinalityType

\* A thread takes a task, or ends one.
LEMMA RunsTake ==
  ASSUME Types, Working, Locked, NEW x \in Threads, NEW t \in Tasks, job[x] = NULL,
         job' = [job EXCEPT ![x] = t]
  PROVE  \A u \in Tasks :
           /\ Cardinality(Runs(u))' = Cardinality(Runs(u)) + (IF u = t THEN 1 ELSE 0)
           /\ Cardinality(Runs(u))' \in Nat
<1> SUFFICES ASSUME NEW u \in Tasks
             PROVE  /\ Cardinality(Runs(u)') = Cardinality(Runs(u)) + (IF u = t THEN 1 ELSE 0)
                    /\ Cardinality(Runs(u)') \in Nat
  OBVIOUS
<1>1. Runs(u)' = (IF u = t THEN Runs(u) \union {x} ELSE Runs(u)) /\ x \notin Runs(u)
  BY TasksAssumption DEF Types, Runs, TasksAssumption
<1>2. IsFiniteSet(Runs(u)) /\ Cardinality(Runs(u)) \in Nat
  BY RunsFinite
<1>3. Cardinality(Runs(u) \union {x}) = Cardinality(Runs(u)) + 1
  BY <1>1, <1>2, FS_AddElement
<1> QED
  BY <1>1, <1>2, <1>3

LEMMA RunsEnd ==
  ASSUME Types, Working, Locked, NEW x \in Threads, job[x] # NULL,
         job' = [job EXCEPT ![x] = NULL]
  PROVE  \A u \in Tasks :
           /\ Cardinality(Runs(u)) = Cardinality(Runs(u))' + (IF u = job[x] THEN 1 ELSE 0)
           /\ Cardinality(Runs(u))' \in Nat
<1> SUFFICES ASSUME NEW u \in Tasks
             PROVE  /\ Cardinality(Runs(u)) = Cardinality(Runs(u)')
                                                 + (IF u = job[x] THEN 1 ELSE 0)
                    /\ Cardinality(Runs(u)') \in Nat
  OBVIOUS
<1>1. Runs(u)' = IF u = job[x] THEN Runs(u) \ {x} ELSE Runs(u)
  BY TasksAssumption DEF Types, Runs, TasksAssumption
<1>2. IsFiniteSet(Runs(u)) /\ Cardinality(Runs(u)) \in Nat
  BY RunsFinite
<1>3. u = job[x] => x \in Runs(u)
  BY DEF Runs
<1>4. x \in Runs(u) => /\ Cardinality(Runs(u) \ {x}) = Cardinality(Runs(u)) - 1
                       /\ Cardinality(Runs(u)) # 0
  BY <1>2, FS_RemoveElement, FS_EmptySet
<1> QED
  BY <1>1, <1>2, <1>3, <1>4

-----------------------------------------------------------------------------
(* The inductive invariant.                                                  *)

LEMMA InitIInv == Init => IInv
<1> SUFFICES ASSUME Init
             PROVE  IInv
  OBVIOUS
<1>1. Types /\ Working /\ Locked /\ Pushing /\ Emptied /\ Explained
  BY ThreadsAssumption
  DEF Init, Types, Working, Locked, Pushing, Emptied, Explained, PCs, Threads,
      ThreadsAssumption
<1>2. \A t : Count(t, pushed) = 0 /\ Count(t, ran) = 0
             /\ Count(t, local) = 0 /\ Count(t, queue) = 0
  BY CountEmpty DEF Init
<1>3. Once
  BY <1>2 DEF Init, Once
<1>4. Conserved
  <2>1. \A t \in Tasks : Runs(t) = {}
    BY TasksAssumption DEF Init, Runs, TasksAssumption
  <2>2. \A t \in Tasks : Cardinality(Runs(t)) = 0
    BY <2>1, FS_EmptySet
  <2> QED
    BY <1>2, <2>2 DEF Init, Conserved, Deleted
<1>5. Ordered
  <2>1. Runner \in Threads
    BY DEF Threads
  <2> QED
    BY <2>1 DEF Init, Ordered, Current
<1> QED
  BY <1>1, <1>3, <1>4, <1>5 DEF IInv

\* A step that moves no task counts them as before,
LEMMA ConservedFrame ==
  ASSUME Conserved, UNCHANGED <<pushed, ran, local, queue, job, deleted>>
  PROVE  Conserved'
BY DEF Conserved, Count, Runs, Deleted

\* and keeps their order, as long as nobody flushes.
LEMMA OrderedFrame ==
  ASSUME Ordered, UNCHANGED <<pushed, ran, local, queue, deleted>>,
         flushed' = flushed \/ flushed' = TRUE,
         ~flushed => UNCHANGED job
  PROVE  Ordered'
BY DEF Ordered, Current

\* The insertions are what they were, and no other begins.
LEMMA OnceFrame ==
  ASSUME Once, Types, UNCHANGED <<pushed, arg, begun>>,
         \A x \in Threads : push'[x] \in {"lock", "insert"} => push[x] \in {"lock", "insert"}
  PROVE  Once'
BY DEF Once, Count

-----------------------------------------------------------------------------
(* push                                                                      *)

LEMMA PushIInv ==
  ASSUME IInv, NEW x \in Threads, NEW t \in Tasks, Push(x, t)
  PROVE  IInv'
<1>1. /\ push[x] = "no" /\ t \notin begun
      /\ \/ x \in Producers /\ pc[x] = "idle"
         \/ job[x] # NULL /\ t \in Children[job[x]]
      /\ push' = [push EXCEPT ![x] = IF x = Runner THEN "insert" ELSE "lock"]
      /\ arg' = [arg EXCEPT ![x] = t]
      /\ begun' = begun \union {t}
      /\ UNCHANGED <<data, pc, job, pushed, ran, deleted, flushed, stopped, fault>>
  BY DEF Push, MayPush
<1> USE DEF IInv, data
<1>2. /\ push'[x] = IF x = Runner THEN "insert" ELSE "lock"
      /\ arg'[x] = t
      /\ \A y \in Threads \ {x} : push'[y] = push[y] /\ arg'[y] = arg[y]
  BY <1>1 DEF Types
<1>3. Types'
  BY <1>1 DEF Types
<1>4. Working'
  BY <1>1 DEF Working
<1>5. Locked'
  BY <1>1, <1>2, ThreadsAssumption DEF Locked, Types, Threads, ThreadsAssumption
<1>6. Pushing'
  <2>1. job[x] = NULL \/ job[x] # NULL
    OBVIOUS
  <2>2. x \in Producers /\ pc[x] = "idle" => job[x] = NULL
    BY ThreadsAssumption DEF Working, Threads, ThreadsAssumption
  <2> QED
    BY <1>1, <1>2, <2>2 DEF Pushing
<1>7. Once'
  <2>1. Count(t, pushed) = 0
    BY <1>1 DEF Once
  <2>2. \A y \in Threads : push[y] # "no" => arg[y] # t
    BY <1>1 DEF Pushing
  <2>3. \A u : Count(u, pushed)' = Count(u, pushed)
    BY <1>1 DEF Count
  <2>4. \A y \in Threads : push'[y] \in {"lock", "insert"} => Count(arg'[y], pushed') = 0
    <3>1. pushed' = pushed
      BY <1>1
    <3> QED
      BY <1>2, <2>1, <3>1 DEF Once
  <2>5. \A y, z \in Threads :
          y # z /\ push'[y] \in {"lock", "insert"} /\ push'[z] \in {"lock", "insert"}
            => arg'[y] # arg'[z]
    BY <1>2, <2>2 DEF Once
  <2> QED
    BY <1>1, <2>3, <2>4, <2>5 DEF Once
<1>8. Emptied'
  BY <1>1 DEF Emptied
<1>9. Conserved' /\ Ordered'
  BY <1>1, ConservedFrame, OrderedFrame
<1>10. Explained'
  BY <1>1 DEF Explained
<1> QED
  BY <1>3, <1>4, <1>5, <1>6, <1>7, <1>8, <1>9, <1>10

LEMMA LockIInv ==
  ASSUME IInv, NEW x \in Threads, Lock(x)
  PROVE  IInv'
<1>1. /\ push[x] = "lock" /\ holder = NULL /\ holder' = x
      /\ push' = [push EXCEPT ![x] = "insert"]
      /\ UNCHANGED <<queue, local, hasData, running, pc, job, arg, history, fault>>
  BY DEF Lock
<1> USE DEF IInv, history
<1>2. push'[x] = "insert" /\ \A y \in Threads \ {x} : push'[y] = push[y]
  BY <1>1 DEF Types
<1>3. x \in Producers /\ x # Runner /\ x # NULL
  BY <1>1, ThreadsAssumption DEF Locked, Threads, ThreadsAssumption
<1>4. pc[x] = "idle" /\ \A y \in Threads : pc[y] # "flush" /\ holder # y
  BY <1>1, <1>3, ThreadsAssumption DEF Locked, Working, Threads, ThreadsAssumption
<1>5. Types'
  BY <1>1, <1>3 DEF Types
<1>6. Working'
  BY <1>1 DEF Working
<1>7. Locked'
  <2>1. \A y \in Producers \ {x} : push[y] # "insert"
    BY <1>4 DEF Locked, Threads
  <2> QED
    BY <1>1, <1>2, <1>3, <1>4, <2>1, ThreadsAssumption
    DEF Locked, Threads, ThreadsAssumption
<1>8. Pushing'
  BY <1>1, <1>2 DEF Pushing
<1>9. Once'
  BY <1>1, <1>2, OnceFrame
<1>10. Emptied'
  BY <1>1 DEF Emptied
<1>11. Conserved' /\ Ordered'
  BY <1>1, ConservedFrame, OrderedFrame
<1>12. Explained'
  BY <1>1 DEF Explained
<1> QED
  BY <1>5, <1>6, <1>7, <1>8, <1>9, <1>10, <1>11, <1>12

\* A task is added to m_queue and to the history at once.
LEMMA InsertIInv ==
  ASSUME IInv, NEW x \in Threads, Insert(x)
  PROVE  IInv'
<1>1. /\ push[x] = "insert"
      /\ queue' = Append(queue, arg[x])
      /\ pushed' = Append(pushed, arg[x])
      /\ holder' = IF x = Runner THEN holder ELSE NULL
      /\ push' = [push EXCEPT ![x] = "flag"]
      /\ UNCHANGED <<local, hasData, running, pc, job, arg, begun, ran, deleted,
                     flushed, stopped, fault>>
  BY DEF Insert
<1> USE DEF IInv
<1>2. push'[x] = "flag" /\ \A y \in Threads \ {x} : push'[y] = push[y]
  BY <1>1 DEF Types
<1>3. arg[x] \in begun /\ arg[x] \in Tasks
  BY <1>1 DEF Pushing, Types
<1>4. x # Runner => x \in Producers /\ holder = x /\ pc[x] = "idle"
  BY <1>1 DEF Locked, Threads
<1>5. Types'
  BY <1>1, <1>3 DEF Types
<1>6. Working'
  BY <1>1 DEF Working
<1>7. Locked'
  <2>1. CASE x = Runner
    BY <1>1, <1>2, <2>1, ThreadsAssumption DEF Locked, Threads, Types, ThreadsAssumption
  <2>2. CASE x # Runner
    <3>1. \A y \in Threads \ {x} : pc[y] # "flush"
      BY <1>4, <2>2 DEF Locked
    <3>2. \A y \in Producers \ {x} : push[y] # "insert"
      BY <1>4, <2>2 DEF Locked
    <3>3. holder' = NULL /\ NULL # Runner /\ pc' = pc
      BY <1>1, <2>2, ThreadsAssumption DEF ThreadsAssumption
    <3>4. push'[Runner] # "lock"
      BY <1>2, <2>2 DEF Locked, Threads
    <3>5. \A y \in Threads : pc'[y] # "flush"
      BY <1>4, <2>2, <3>1, <3>3
    <3>6. \A y \in Producers : push'[y] # "insert"
      BY <1>2, <3>2 DEF Threads
    <3> QED
      BY <3>3, <3>4, <3>5, <3>6 DEF Locked
  <2> QED
    BY <2>1, <2>2
<1>8. Pushing'
  BY <1>1, <1>2 DEF Pushing
<1>9. \A u \in Tasks :
        /\ Count(u, pushed)' = Count(u, pushed) + (IF arg[x] = u THEN 1 ELSE 0)
        /\ Count(u, queue)' = Count(u, queue) + (IF arg[x] = u THEN 1 ELSE 0)
        /\ Count(u, pushed) \in Nat /\ Count(u, queue) \in Nat
        /\ Count(u, local)' = Count(u, local) /\ Count(u, ran)' = Count(u, ran)
  <2> SUFFICES ASSUME NEW u \in Tasks
               PROVE  /\ Count(u, pushed') = Count(u, pushed) + (IF arg[x] = u THEN 1 ELSE 0)
                      /\ Count(u, queue') = Count(u, queue) + (IF arg[x] = u THEN 1 ELSE 0)
                      /\ Count(u, pushed) \in Nat /\ Count(u, queue) \in Nat
                      /\ Count(u, local') = Count(u, local) /\ Count(u, ran') = Count(u, ran)
    BY DEF Count
  <2>1. pushed \in Seq(Tasks) /\ queue \in Seq(Tasks)
    BY DEF Types
  <2>2. /\ Count(u, Append(pushed, arg[x])) = Count(u, pushed) + (IF arg[x] = u THEN 1 ELSE 0)
        /\ Count(u, Append(queue, arg[x])) = Count(u, queue) + (IF arg[x] = u THEN 1 ELSE 0)
    BY <1>3, <2>1, CountAppend
  <2> QED
    BY <1>1, <2>1, <2>2, CountType
<1>10. Once'
  <2>1. Count(arg[x], pushed) = 0
    BY <1>1 DEF Once
  <2>2. \A y \in Threads : push'[y] \in {"lock", "insert"} => y # x /\ arg[y] # arg[x]
    BY <1>1, <1>2 DEF Once
  <2>3. \A y \in Threads : push'[y] \in {"lock", "insert"} =>
          Count(arg'[y], pushed') = 0
    <3> SUFFICES ASSUME NEW y \in Threads, push'[y] \in {"lock", "insert"}
                 PROVE  Count(arg'[y], pushed') = 0
      OBVIOUS
    <3>1. y # x /\ push[y] \in {"lock", "insert"} /\ arg[y] # arg[x] /\ arg'[y] = arg[y]
      BY <1>1, <1>2, <2>2
    <3>2. Count(arg[y], pushed) = 0 /\ arg[y] \in Tasks
      BY <3>1 DEF Once, Pushing, Types
    <3>3. Count(arg[y], Append(pushed, arg[x])) = Count(arg[y], pushed)
      BY <1>3, <3>1, <3>2, CountAppend DEF Types
    <3> QED
      BY <1>1, <3>1, <3>2, <3>3
  <2>4. \A u \in Tasks : Count(u, pushed)' <= 1
    BY <1>9, <2>1 DEF Once
  <2>5. \A u \in Tasks \ begun : Count(u, pushed)' = 0
    BY <1>3, <1>9 DEF Once
  <2> QED
    BY <1>1, <1>2, <2>3, <2>4, <2>5 DEF Once
<1>11. Emptied'
  BY <1>1 DEF Emptied
<1>12. Conserved'
  <2>1. \A u \in Tasks : Cardinality(Runs(u))' = Cardinality(Runs(u))
                         /\ Deleted(u)' = Deleted(u)
    BY <1>1 DEF Runs, Deleted
  <2>2. \A u \in Tasks : /\ Count(u, ran) \in Nat /\ Count(u, local) \in Nat
                         /\ Cardinality(Runs(u)) \in Nat /\ Deleted(u) \in Nat
    BY CountType, RunsFinite DEF Types, Deleted
  <2> QED
    BY <1>9, <2>1, <2>2 DEF Conserved
<1>13. Ordered'
  <2> SUFFICES ASSUME ~flushed, deleted = {}
               PROVE  pushed' = ran \o Current(Runner) \o local \o queue'
    BY <1>1 DEF Ordered, Current
  <2> DEFINE before == ran \o Current(Runner) \o local
  <2>1. before \in Seq(Tasks) /\ queue \in Seq(Tasks)
    BY TasksAssumption DEF Types, Current, Threads, TasksAssumption
  <2>2. pushed = before \o queue
    BY DEF Ordered
  <2> HIDE DEF before
  <2>3. Append(before \o queue, arg[x]) = before \o Append(queue, arg[x])
    BY <1>3, <2>1
  <2> QED
    BY <1>1, <2>2, <2>3 DEF before
<1>14. Explained'
  BY <1>1 DEF Explained
<1> QED
  BY <1>5, <1>6, <1>7, <1>8, <1>10, <1>11, <1>12, <1>13, <1>14

LEMMA FlagIInv ==
  ASSUME IInv, NEW x \in Threads, Flag(x)
  PROVE  IInv'
<1>1. /\ push[x] = "flag"
      /\ push' = [push EXCEPT ![x] = "no"]
      /\ UNCHANGED <<queue, local, holder, running, pc, job, arg, history, fault>>
  BY DEF Flag
<1> USE DEF IInv, history
<1>2. push'[x] = "no" /\ \A y \in Threads \ {x} : push'[y] = push[y]
  BY <1>1 DEF Types
<1>3. Types'
  BY <1>1 DEF Types
<1>4. Working'
  BY <1>1 DEF Working
<1>5. Locked'
  BY <1>1, <1>2 DEF Locked, Threads, Types
<1>6. Pushing'
  BY <1>1, <1>2 DEF Pushing
<1>7. Once'
  BY <1>1, <1>2, OnceFrame
<1>8. Emptied'
  BY <1>1 DEF Emptied
<1>9. Conserved' /\ Ordered'
  BY <1>1, ConservedFrame, OrderedFrame
<1>10. Explained'
  BY <1>1 DEF Explained
<1> QED
  BY <1>3, <1>4, <1>5, <1>6, <1>7, <1>8, <1>9, <1>10

\* Two threads that are inside m_queue cannot both hold its lock: one of them is the
\* run thread, in a push, and so in a task.
LEMMA OverlapIInv == ASSUME IInv, Overlap PROVE IInv'
<1>1. /\ \/ \E x, y \in Threads : x # y /\ Inside(x) /\ Inside(y)
         \/ \E x \in Threads : push[x] = "insert" /\ pc[x] = "flush"
      /\ fault' = TRUE
      /\ UNCHANGED <<data, threads, history>>
  BY DEF Overlap
<1> USE DEF IInv, data, threads, history
<1>2. \A x \in Producers : Inside(x) => holder = x /\ x # Runner
  BY ThreadsAssumption DEF Inside, Locked, Threads, ThreadsAssumption
<1>3. push[Runner] = "insert"
  <2>1. CASE \E x, y \in Threads : x # y /\ Inside(x) /\ Inside(y)
    <3>1. Inside(Runner) /\ pc[Runner] = "flush" => holder = Runner
      BY DEF Locked, Threads
    <3> QED
      BY <1>2, <2>1, <3>1 DEF Inside, Threads
  <2>2. CASE \E x \in Threads : push[x] = "insert" /\ pc[x] = "flush"
    BY <2>2 DEF Locked, Threads
  <2> QED
    BY <1>1, <2>1, <2>2
<1>4. arg[Runner] \in begun /\ job[Runner] \in Tasks /\ arg[Runner] \in Children[job[Runner]]
  BY <1>3, ThreadsAssumption DEF Pushing, Types, Threads, ThreadsAssumption
<1>5. Explained'
  BY <1>1, <1>4 DEF Explained
<1>6. Types' /\ Working' /\ Locked' /\ Pushing' /\ Emptied'
  BY <1>1 DEF Types, Working, Locked, Pushing, Emptied
<1>7. Once'
  BY <1>1, OnceFrame
<1>8. Conserved' /\ Ordered'
  BY <1>1, ConservedFrame, OrderedFrame
<1> QED
  BY <1>5, <1>6, <1>7, <1>8

-----------------------------------------------------------------------------
(* processAndDelete, run, flushQueue                                         *)

\* A task that ends was on the run thread, unless somebody has flushed.
LEMMA EndTaskIInv ==
  ASSUME IInv, NEW x \in Threads, EndTask(x)
  PROVE  IInv'
<1>1. /\ job[x] # NULL /\ push[x] = "no"
      /\ ran' = Append(ran, job[x])
      /\ job' = [job EXCEPT ![x] = NULL]
      /\ UNCHANGED <<data, pc, push, arg, begun, pushed, deleted, flushed, stopped, fault>>
  BY DEF EndTask, Take
<1> USE DEF IInv, data
<1>2. job[x] \in Tasks /\ job'[x] = NULL /\ \A y \in Threads \ {x} : job'[y] = job[y]
  BY <1>1 DEF Types
<1>3. Types'
  BY <1>1, <1>2 DEF Types
<1>4. Working'
  BY <1>1, <1>2 DEF Working
<1>5. Locked'
  BY <1>1 DEF Locked
<1>6. Pushing'
  BY <1>1, <1>2 DEF Pushing
<1>7. Once'
  BY <1>1, OnceFrame
<1>8. Emptied'
  BY <1>1 DEF Emptied
<1>9. Conserved'
  <2>1. \A u \in Tasks :
          /\ Cardinality(Runs(u)) = Cardinality(Runs(u))' + (IF u = job[x] THEN 1 ELSE 0)
          /\ Cardinality(Runs(u))' \in Nat
    BY <1>1, RunsEnd
  <2>2. \A u \in Tasks :
          Count(u, ran)' = Count(u, ran) + (IF job[x] = u THEN 1 ELSE 0)
    <3>1. \A u \in Tasks :
            Count(u, Append(ran, job[x])) = Count(u, ran) + (IF job[x] = u THEN 1 ELSE 0)
      BY <1>2, CountAppend DEF Types
    <3> QED
      BY <1>1, <3>1 DEF Count
  <2>3. \A u \in Tasks :
          /\ Count(u, pushed)' = Count(u, pushed) /\ Count(u, local)' = Count(u, local)
          /\ Count(u, queue)' = Count(u, queue) /\ Deleted(u)' = Deleted(u)
    BY <1>1 DEF Count, Deleted
  <2>4. \A u \in Tasks : /\ Count(u, ran) \in Nat /\ Count(u, local) \in Nat
                         /\ Count(u, queue) \in Nat /\ Count(u, pushed) \in Nat
                         /\ Deleted(u) \in Nat
    BY CountType DEF Types, Deleted
  <2> QED
    BY <2>1, <2>2, <2>3, <2>4 DEF Conserved
<1>10. Ordered'
  <2> SUFFICES ASSUME ~flushed, deleted = {}
               PROVE  pushed = ran' \o Current(Runner)' \o local \o queue
    BY <1>1 DEF Ordered
  <2>1. x = Runner
    BY <1>1 DEF Working, Locked
  <2>2. Current(Runner) = <<job[x]>> /\ Current(Runner)' = <<>>
    BY <1>1, <1>2, <2>1 DEF Current
  <2>3. ran' = ran \o <<job[x]>> /\ ran' \in Seq(Tasks)
    BY <1>1, <1>2, AppendIsConcat DEF Types
  <2>4. ran' \o <<>> = ran'
    BY <2>3, ConcatEmptySeq
  <2> QED
    BY <2>2, <2>3, <2>4 DEF Ordered
<1>11. Explained'
  BY <1>1 DEF Explained
<1> QED
  BY <1>3, <1>4, <1>5, <1>6, <1>7, <1>8, <1>9, <1>10, <1>11

\* The steps of run that move no task only change where the run thread is.
LEMMA LoopsIInv ==
  ASSUME IInv, RunBegin \/ Loop \/ Exchange \/ EndProcess
  PROVE  IInv'
<1>1. PICK p \in {"loop", "drain", "done", "swap"} :
        /\ pc' = [pc EXCEPT ![Runner] = p]
        /\ pc[Runner] \in {"idle", "loop", "drain", "process"}
        /\ pc[Runner] = "process" => job[Runner] = NULL /\ local = <<>>
        /\ UNCHANGED <<queue, local, holder, job, push, arg, history, fault>>
  BY DEF RunBegin, Loop, Exchange, EndProcess, data
<1> USE DEF IInv, history
<1>2. /\ pc'[Runner] = p /\ \A x \in Threads \ {Runner} : pc'[x] = pc[x]
      /\ p \in PCs \ {"flush", "process", "gone"}
  BY <1>1 DEF Types, Threads, PCs
<1>3. job[Runner] = NULL /\ local = <<>>
  BY <1>1 DEF Working, Emptied, Threads
<1>4. Types'
  BY <1>1, <1>2 DEF Types
<1>5. Working'
  BY <1>1, <1>2, <1>3, ThreadsAssumption DEF Working, Threads, ThreadsAssumption
<1>6. Locked'
  <2>1. holder # Runner
    BY <1>1 DEF Locked
  <2>2. holder # NULL => holder \in Producers
    BY <2>1 DEF Types, Threads
  <2>3. \A x \in Producers : x \in Threads \ {Runner}
    BY ThreadsAssumption DEF Threads, ThreadsAssumption
  <2> QED
    BY <1>1, <1>2, <2>1, <2>2, <2>3 DEF Locked
<1>7. Pushing'
  BY <1>1, <1>2, <1>3, ThreadsAssumption DEF Pushing, Threads, ThreadsAssumption
<1>8. Once'
  BY <1>1, OnceFrame
<1>9. Emptied'
  BY <1>1, <1>2, <1>3 DEF Emptied
<1>10. Conserved' /\ Ordered'
  BY <1>1, ConservedFrame, OrderedFrame
<1>11. Explained'
  BY <1>1 DEF Explained
<1> QED
  BY <1>4, <1>5, <1>6, <1>7, <1>8, <1>9, <1>10, <1>11

\* m_queue is taken as a whole, and what is left in its place is empty.
LEMMA SwapIInv == ASSUME IInv, Swap PROVE IInv'
<1>1. /\ pc[Runner] = "swap" /\ queue' = local /\ local' = queue
      /\ pc' = [pc EXCEPT ![Runner] = "process"] /\ holder = NULL
      /\ UNCHANGED <<holder, hasData, running, job, push, arg, history, fault>>
  BY DEF Swap
<1> USE DEF IInv, history
<1>2. pc'[Runner] = "process" /\ \A x \in Threads \ {Runner} : pc'[x] = pc[x]
  BY <1>1 DEF Types, Threads
<1>3. local = <<>>
  BY <1>1 DEF Emptied
<1>4. job[Runner] = NULL
  BY <1>1 DEF Working, Threads
<1>5. Types'
  BY <1>1 DEF Types, PCs
<1>6. Working'
  BY <1>1, <1>2, ThreadsAssumption DEF Working, Threads, ThreadsAssumption
<1>7. Locked'
  <2>1. \A x \in Threads : x # NULL
    BY ThreadsAssumption DEF Threads, ThreadsAssumption
  <2> QED
    BY <1>1, <1>2, <2>1, ThreadsAssumption DEF Locked, Threads, ThreadsAssumption
<1>8. Pushing'
  BY <1>1, <1>2, ThreadsAssumption DEF Pushing, Threads, ThreadsAssumption
<1>9. Once'
  BY <1>1, OnceFrame
<1>10. Emptied'
  BY <1>1, <1>2 DEF Emptied
<1>11. Conserved'
  <2>1. \A u \in Tasks :
          /\ Count(u, pushed)' = Count(u, pushed) /\ Count(u, ran)' = Count(u, ran)
          /\ Count(u, local)' = Count(u, queue) /\ Count(u, queue)' = Count(u, local)
          /\ Cardinality(Runs(u))' = Cardinality(Runs(u)) /\ Deleted(u)' = Deleted(u)
    BY <1>1 DEF Count, Runs, Deleted
  <2>2. \A u \in Tasks : /\ Count(u, ran) \in Nat /\ Count(u, local) \in Nat
                         /\ Count(u, queue) \in Nat
                         /\ Cardinality(Runs(u)) \in Nat /\ Deleted(u) \in Nat
    BY CountType, RunsFinite DEF Types, Deleted
  <2> QED
    BY <2>1, <2>2 DEF Conserved
<1>12. Ordered'
  <2> SUFFICES ASSUME ~flushed, deleted = {}
               PROVE  pushed = ran \o Current(Runner) \o queue \o local
    BY <1>1 DEF Ordered, Current
  <2>1. Current(Runner) = <<>>
    BY <1>4 DEF Current
  <2>2. pushed = ran \o <<>> \o <<>> \o queue
    BY <1>3, <2>1 DEF Ordered
  <2>3. ran \o <<>> = ran /\ ran \o queue \in Seq(Tasks)
    BY ConcatEmptySeq DEF Types
  <2>4. (ran \o queue) \o <<>> = ran \o queue
    BY <2>3, ConcatEmptySeq
  <2> QED
    BY <1>3, <2>1, <2>2, <2>3, <2>4
<1>13. Explained'
  BY <1>1 DEF Explained
<1> QED
  BY <1>5, <1>6, <1>7, <1>8, <1>9, <1>10, <1>11, <1>12, <1>13

\* The first task of one of the lists is taken out of it and run.
LEMMA TakeCounts ==
  ASSUME IInv, NEW x \in Threads, NEW s \in Seq(Tasks), s # <<>>, job[x] = NULL,
         job' = [job EXCEPT ![x] = Head(s)]
  PROVE  /\ Head(s) \in Tasks /\ Tail(s) \in Seq(Tasks)
         /\ job'[x] = Head(s) /\ \A y \in Threads \ {x} : job'[y] = job[y]
         /\ \A u \in Tasks :
              /\ Count(u, s) + Cardinality(Runs(u))
                   = Count(u, Tail(s)) + Cardinality(Runs(u))'
              /\ Cardinality(Runs(u))' \in Nat
<1> USE DEF IInv
<1>1. Head(s) \in Tasks /\ Tail(s) \in Seq(Tasks)
  BY HeadTailProperties
<1>2. job'[x] = Head(s) /\ \A y \in Threads \ {x} : job'[y] = job[y]
  BY DEF Types
<1>3. \A u \in Tasks :
        /\ Cardinality(Runs(u))' = Cardinality(Runs(u)) + (IF u = Head(s) THEN 1 ELSE 0)
        /\ Cardinality(Runs(u))' \in Nat
  BY <1>1, RunsTake
<1>4. \A u \in Tasks : Count(u, s) = Count(u, Tail(s)) + (IF Head(s) = u THEN 1 ELSE 0)
  BY CountTail
<1>5. \A u \in Tasks : Count(u, Tail(s)) \in Nat /\ Cardinality(Runs(u)) \in Nat
  BY <1>1, CountType, RunsFinite
<1>6. ASSUME NEW u \in Tasks
      PROVE  /\ Count(u, s) + Cardinality(Runs(u)) = Count(u, Tail(s)) + Cardinality(Runs(u)')
             /\ Cardinality(Runs(u)') \in Nat
  <2>1. PICK before, after, total, rest :
          /\ before = Cardinality(Runs(u)) /\ after = Cardinality(Runs(u)')
          /\ total = Count(u, s) /\ rest = Count(u, Tail(s))
    OBVIOUS
  <2>2. /\ before \in Nat /\ rest \in Nat
        /\ after = before + (IF u = Head(s) THEN 1 ELSE 0)
        /\ total = rest + (IF Head(s) = u THEN 1 ELSE 0)
    BY <1>3, <1>4, <1>5, <2>1
  <2>3. total + before = rest + after /\ after \in Nat
    BY <2>2
  <2> QED
    BY <2>1, <2>3
<1> QED
  BY <1>1, <1>2, <1>6

LEMMA ProcessIInv == ASSUME IInv, Process PROVE IInv'
<1>1. /\ pc[Runner] = "process" /\ job[Runner] = NULL /\ local # <<>>
      /\ job' = [job EXCEPT ![Runner] = Head(local)] /\ local' = Tail(local)
      /\ UNCHANGED <<queue, holder, hasData, running, pc, push, arg, history, fault>>
  BY DEF Process, Take
<1> USE DEF IInv, history
<1>2. Runner \in Threads /\ local \in Seq(Tasks)
  BY DEF Threads, Types
<1>3. /\ Head(local) \in Tasks /\ Tail(local) \in Seq(Tasks)
      /\ job'[Runner] = Head(local) /\ \A y \in Threads \ {Runner} : job'[y] = job[y]
      /\ \A u \in Tasks :
           /\ Count(u, local) + Cardinality(Runs(u))
                = Count(u, Tail(local)) + Cardinality(Runs(u))'
           /\ Cardinality(Runs(u))' \in Nat
  BY <1>1, <1>2, TakeCounts
<1>4. Types'
  BY <1>1, <1>3 DEF Types
<1>5. Working'
  BY <1>1, <1>3 DEF Working
<1>6. Locked'
  BY <1>1 DEF Locked
<1>7. Pushing'
  <2>1. push[Runner] = "no"
    BY <1>1, <1>2, ThreadsAssumption DEF Pushing, ThreadsAssumption
  <2> QED
    BY <1>1, <1>3, <2>1 DEF Pushing
<1>8. Once'
  BY <1>1, OnceFrame
<1>9. Emptied'
  BY <1>1 DEF Emptied
<1>10. Conserved'
  <2>1. \A u \in Tasks :
          /\ Count(u, pushed)' = Count(u, pushed) /\ Count(u, ran)' = Count(u, ran)
          /\ Count(u, local)' = Count(u, Tail(local)) /\ Count(u, queue)' = Count(u, queue)
          /\ Deleted(u)' = Deleted(u)
    BY <1>1 DEF Count, Deleted
  <2>2. \A u \in Tasks : /\ Count(u, ran) \in Nat /\ Count(u, local) \in Nat
                         /\ Count(u, queue) \in Nat /\ Count(u, Tail(local)) \in Nat
                         /\ Count(u, local) \in Nat /\ Deleted(u) \in Nat
                         /\ Cardinality(Runs(u)) \in Nat
    BY <1>3, CountType, RunsFinite DEF Types, Deleted
  <2>3. ASSUME NEW u \in Tasks
        PROVE  Count(u, pushed') = Count(u, ran') + Count(u, local') + Count(u, queue')
                                     + Cardinality(Runs(u)') + Deleted(u)'
    <3>1. Count(u, pushed) = Count(u, ran) + Count(u, local) + Count(u, queue)
                               + Cardinality(Runs(u)) + Deleted(u)
      BY DEF Conserved
    <3>2. /\ Count(u, pushed') = Count(u, pushed) /\ Count(u, ran') = Count(u, ran)
          /\ Count(u, local') = Count(u, Tail(local)) /\ Count(u, queue') = Count(u, queue)
          /\ Deleted(u)' = Deleted(u)
      BY <1>1 DEF Deleted
    <3>3. /\ Count(u, local) + Cardinality(Runs(u))
               = Count(u, Tail(local)) + Cardinality(Runs(u)')
          /\ Cardinality(Runs(u)') \in Nat
      BY <1>3
    <3> QED
      BY <2>2, <3>1, <3>2, <3>3
  <2> QED
    BY <2>3 DEF Conserved, Count
<1>11. Ordered'
  <2> SUFFICES ASSUME ~flushed, deleted = {}
               PROVE  pushed = ran \o Current(Runner)' \o Tail(local) \o queue
    BY <1>1 DEF Ordered
  <2>1. Current(Runner) = <<>> /\ Current(Runner)' = <<Head(local)>>
    BY <1>1, <1>3, TasksAssumption DEF Current, TasksAssumption
  <2>2. pushed = ran \o <<>> \o local \o queue
    BY <2>1 DEF Ordered
  <2>3. ran \o <<>> = ran /\ ran \in Seq(Tasks) /\ <<Head(local)>> \in Seq(Tasks)
    BY <1>3, ConcatEmptySeq DEF Types
  <2>4. local = <<Head(local)>> \o Tail(local)
    BY <1>1, <1>2
  <2>5. ran \o (<<Head(local)>> \o Tail(local)) = (ran \o <<Head(local)>>) \o Tail(local)
    BY <1>3, <2>3, ConcatAssociative
  <2> QED
    BY <2>1, <2>2, <2>3, <2>4, <2>5
<1>12. Explained'
  BY <1>1 DEF Explained
<1> QED
  BY <1>4, <1>5, <1>6, <1>7, <1>8, <1>9, <1>10, <1>11, <1>12

LEMMA FlushIInv ==
  ASSUME IInv, NEW x \in Threads, Flush(x)
  PROVE  IInv'
<1>1. /\ push[x] = "no" /\ ~flushed
      /\ IF x = Runner THEN pc[x] = "loop" ELSE pc[x] = "idle"
      /\ holder = NULL /\ holder' = x
      /\ pc' = [pc EXCEPT ![x] = "flush"]
      /\ flushed' = TRUE
      /\ UNCHANGED <<queue, local, hasData, running, job, push, arg, begun, pushed,
                     ran, deleted, stopped, fault>>
  BY DEF Flush
<1> USE DEF IInv
<1>2. pc'[x] = "flush" /\ \A y \in Threads \ {x} : pc'[y] = pc[y]
  BY <1>1 DEF Types
<1>3. job[x] = NULL
  BY <1>1 DEF Working
<1>4. Types'
  BY <1>1 DEF Types, PCs
<1>5. Working'
  BY <1>1, <1>2 DEF Working, Threads
<1>6. Locked'
  <2>1. \A y \in Threads : y # NULL /\ pc[y] # "flush"
    BY <1>1, ThreadsAssumption DEF Locked, Threads, ThreadsAssumption
  <2>2. \A y \in Producers : push[y] # "insert"
    BY <1>1, <2>1 DEF Locked, Threads
  <2> QED
    BY <1>1, <1>2, <2>1, <2>2 DEF Locked, Threads
<1>7. Pushing'
  BY <1>1, <1>2 DEF Pushing
<1>8. Once'
  BY <1>1, OnceFrame
<1>9. Emptied'
  BY <1>1, <1>2 DEF Emptied, Threads
<1>10. Conserved' /\ Ordered'
  BY <1>1, ConservedFrame, OrderedFrame
<1>11. Explained'
  BY <1>1 DEF Explained
<1> QED
  BY <1>4, <1>5, <1>6, <1>7, <1>8, <1>9, <1>10, <1>11

LEMMA FlushTaskIInv ==
  ASSUME IInv, NEW x \in Threads, FlushTask(x)
  PROVE  IInv'
<1>1. /\ pc[x] = "flush" /\ job[x] = NULL /\ queue # <<>>
      /\ job' = [job EXCEPT ![x] = Head(queue)] /\ queue' = Tail(queue)
      /\ UNCHANGED <<local, holder, hasData, running, pc, push, arg, history, fault>>
  BY DEF FlushTask, Take
<1> USE DEF IInv, history
<1>2. queue \in Seq(Tasks)
  BY DEF Types
<1>3. /\ Head(queue) \in Tasks /\ Tail(queue) \in Seq(Tasks)
      /\ job'[x] = Head(queue) /\ \A y \in Threads \ {x} : job'[y] = job[y]
      /\ \A u \in Tasks :
           /\ Count(u, queue) + Cardinality(Runs(u))
                = Count(u, Tail(queue)) + Cardinality(Runs(u))'
           /\ Cardinality(Runs(u))' \in Nat
  BY <1>1, <1>2, TakeCounts
<1>4. Types'
  BY <1>1, <1>3 DEF Types
<1>5. Working'
  BY <1>1, <1>3 DEF Working
<1>6. Locked'
  BY <1>1 DEF Locked
<1>7. Pushing'
  <2>1. push[x] = "no"
    BY <1>1 DEF Pushing
  <2> QED
    BY <1>1, <1>3, <2>1 DEF Pushing
<1>8. Once'
  BY <1>1, OnceFrame
<1>9. Emptied'
  BY <1>1 DEF Emptied
<1>10. Conserved'
  <2>1. \A u \in Tasks :
          /\ Count(u, pushed)' = Count(u, pushed) /\ Count(u, ran)' = Count(u, ran)
          /\ Count(u, local)' = Count(u, local) /\ Count(u, queue)' = Count(u, Tail(queue))
          /\ Deleted(u)' = Deleted(u)
    BY <1>1 DEF Count, Deleted
  <2>2. \A u \in Tasks : /\ Count(u, ran) \in Nat /\ Count(u, local) \in Nat
                         /\ Count(u, queue) \in Nat /\ Count(u, Tail(queue)) \in Nat
                         /\ Deleted(u) \in Nat /\ Cardinality(Runs(u)) \in Nat
    BY <1>3, CountType, RunsFinite DEF Types, Deleted
  <2>3. ASSUME NEW u \in Tasks
        PROVE  Count(u, pushed') = Count(u, ran') + Count(u, local') + Count(u, queue')
                                     + Cardinality(Runs(u)') + Deleted(u)'
    <3>1. Count(u, pushed) = Count(u, ran) + Count(u, local) + Count(u, queue)
                               + Cardinality(Runs(u)) + Deleted(u)
      BY DEF Conserved
    <3>2. /\ Count(u, pushed') = Count(u, pushed) /\ Count(u, ran') = Count(u, ran)
          /\ Count(u, queue') = Count(u, Tail(queue)) /\ Count(u, local') = Count(u, local)
          /\ Deleted(u)' = Deleted(u)
      BY <1>1 DEF Deleted
    <3>3. /\ Count(u, queue) + Cardinality(Runs(u))
               = Count(u, Tail(queue)) + Cardinality(Runs(u)')
          /\ Cardinality(Runs(u)') \in Nat
      BY <1>3
    <3> QED
      BY <2>2, <3>1, <3>2, <3>3
  <2> QED
    BY <2>3 DEF Conserved, Count
<1>11. Ordered'
  BY <1>1 DEF Locked, Ordered
<1>12. Explained'
  BY <1>1 DEF Explained
<1> QED
  BY <1>4, <1>5, <1>6, <1>7, <1>8, <1>9, <1>10, <1>11, <1>12

LEMMA EndFlushIInv ==
  ASSUME IInv, NEW x \in Threads, EndFlush(x)
  PROVE  IInv'
<1>1. /\ pc[x] = "flush" /\ job[x] = NULL /\ holder' = NULL
      /\ pc' = [pc EXCEPT ![x] = IF x = Runner THEN "loop" ELSE "idle"]
      /\ UNCHANGED <<queue, local, hasData, running, job, push, arg, history, fault>>
  BY DEF EndFlush
<1> USE DEF IInv, history
<1>2. /\ pc'[x] = IF x = Runner THEN "loop" ELSE "idle"
      /\ \A y \in Threads \ {x} : pc'[y] = pc[y]
  BY <1>1 DEF Types
<1>3. holder = x /\ flushed
  BY <1>1 DEF Locked
<1>4. Types'
  BY <1>1 DEF Types, PCs
<1>5. Working'
  BY <1>1, <1>2, ThreadsAssumption DEF Working, Threads, ThreadsAssumption
<1>6. Locked'
  <2>1. \A y \in Threads \ {x} : pc[y] # "flush"
    BY <1>3 DEF Locked
  <2>2. \A y \in Producers : push[y] # "insert"
    BY <1>1, <1>3 DEF Locked
  <2>3. \A y \in Threads : pc'[y] # "flush"
    BY <1>2, <2>1
  <2>4. holder' # Runner
    BY <1>1, ThreadsAssumption DEF ThreadsAssumption
  <2> QED
    BY <1>1, <2>2, <2>3, <2>4 DEF Locked
<1>7. Pushing'
  BY <1>1, <1>2 DEF Pushing, Threads
<1>8. Once'
  BY <1>1, OnceFrame
<1>9. Emptied'
  BY <1>1, <1>2 DEF Emptied, Threads
<1>10. Conserved' /\ Ordered'
  BY <1>1, ConservedFrame, OrderedFrame
<1>11. Explained'
  BY <1>1 DEF Explained
<1> QED
  BY <1>4, <1>5, <1>6, <1>7, <1>8, <1>9, <1>10, <1>11

-----------------------------------------------------------------------------
(* The end.                                                                  *)

LEMMA StopIInv == ASSUME IInv, Stop PROVE IInv'
<1>1. UNCHANGED <<queue, local, holder, threads, begun, pushed, ran, deleted, flushed, fault>>
  BY DEF Stop
<1> USE DEF IInv, threads
<1>2. Types' /\ Working' /\ Locked' /\ Pushing' /\ Emptied' /\ Explained'
  BY <1>1 DEF Types, Working, Locked, Pushing, Emptied, Explained
<1>3. Once'
  BY <1>1, OnceFrame
<1>4. Conserved' /\ Ordered'
  BY <1>1, ConservedFrame, OrderedFrame
<1> QED
  BY <1>2, <1>3, <1>4

\* What is queued is deleted: once, for no task is queued twice.
LEMMA DestroyIInv == ASSUME IInv, Destroy PROVE IInv'
<1>1. /\ pc[Runner] \in {"idle", "done"}
      /\ pc' = [pc EXCEPT ![Runner] = "gone"]
      /\ deleted' = ToSet(queue) /\ queue' = <<>>
      /\ UNCHANGED <<local, holder, hasData, job, push, arg, begun, pushed, ran,
                     flushed, stopped, fault>>
  BY DEF Destroy
<1> USE DEF IInv
<1>2. pc'[Runner] = "gone" /\ \A x \in Threads \ {Runner} : pc'[x] = pc[x]
  BY <1>1 DEF Types, Threads
<1>3. deleted = {} /\ local = <<>> /\ job[Runner] = NULL
  BY <1>1 DEF Emptied, Working, Threads
<1>4. Types'
  <2>1. ToSet(queue) \subseteq Tasks
    BY DEF Types, ToSet
  <2>2. pc' \in [Threads -> PCs]
    BY <1>1 DEF Types, PCs
  <2>3. queue' \in Seq(Tasks)
    BY <1>1
  <2> QED
    BY <1>1, <2>1, <2>2, <2>3 DEF Types
<1>5. Working'
  BY <1>1, <1>2, <1>3, ThreadsAssumption DEF Working, Threads, ThreadsAssumption
<1>6. Locked'
  <2>1. holder # Runner
    BY <1>1 DEF Locked
  <2>2. holder # NULL => holder \in Producers
    BY <2>1 DEF Types, Threads
  <2>3. \A x \in Producers : x \in Threads \ {Runner}
    BY ThreadsAssumption DEF Threads, ThreadsAssumption
  <2> QED
    BY <1>1, <1>2, <2>1, <2>2, <2>3 DEF Locked
<1>7. Pushing'
  BY <1>1, <1>2, <1>3, ThreadsAssumption DEF Pushing, Threads, ThreadsAssumption
<1>8. Once'
  BY <1>1, OnceFrame
<1>9. Emptied'
  BY <1>1, <1>2, <1>3 DEF Emptied
<1>10. Conserved'
  <2> SUFFICES ASSUME NEW u \in Tasks
               PROVE  Count(u, pushed) = Count(u, ran) + Count(u, local)
                        + Count(u, <<>>) + Cardinality(Runs(u))
                        + (IF u \in ToSet(queue) THEN 1 ELSE 0)
    BY <1>1 DEF Conserved, Count, Runs, Deleted
  <2>1. /\ Count(u, pushed) \in Nat /\ Count(u, ran) \in Nat /\ Count(u, local) \in Nat
        /\ Count(u, queue) \in Nat /\ Cardinality(Runs(u)) \in Nat
    BY CountType, RunsFinite DEF Types
  <2>2. Count(u, pushed) = Count(u, ran) + Count(u, local) + Count(u, queue)
                             + Cardinality(Runs(u))
    BY <1>3, <2>1 DEF Conserved, Deleted
  <2>3. Count(u, pushed) <= 1
    BY DEF Once
  <2>4. Count(u, queue) = IF u \in ToSet(queue) THEN 1 ELSE 0
    <3>1. u \in ToSet(queue) <=> Count(u, queue) # 0
      BY CountMember DEF Types
    <3>2. Count(u, queue) <= 1
      BY <2>1, <2>2, <2>3
    <3> QED
      BY <2>1, <3>1, <3>2
  <2>5. Count(u, <<>>) = 0
    BY CountEmpty
  <2> QED
    BY <2>1, <2>2, <2>4, <2>5
<1>11. Ordered'
  <2> SUFFICES ASSUME ~flushed, ToSet(queue) = {}
               PROVE  pushed = ran \o Current(Runner) \o local \o <<>>
    BY <1>1 DEF Ordered, Current
  <2>1. queue = <<>>
    <3>1. queue \in Seq(Tasks)
      BY DEF Types
    <3>2. queue # <<>> => 1 \in DOMAIN queue
      BY <3>1
    <3> QED
      BY <3>2 DEF ToSet
  <2> QED
    BY <1>3, <2>1 DEF Ordered
<1>12. Explained'
  BY <1>1 DEF Explained
<1> QED
  BY <1>4, <1>5, <1>6, <1>7, <1>8, <1>9, <1>10, <1>11, <1>12

LEMMA StutterIInv == ASSUME IInv, UNCHANGED vars PROVE IInv'
<1>1. UNCHANGED <<data, threads, history, fault>>
  BY DEF vars
<1> USE DEF IInv, data, threads, history
<1>2. Types' /\ Working' /\ Locked' /\ Pushing' /\ Emptied' /\ Explained'
  BY <1>1 DEF Types, Working, Locked, Pushing, Emptied, Explained
<1>3. Once'
  BY <1>1, OnceFrame
<1>4. Conserved' /\ Ordered'
  BY <1>1, ConservedFrame, OrderedFrame
<1> QED
  BY <1>2, <1>3, <1>4

LEMMA NextIInv == IInv /\ [Next]_vars => IInv'
<1> SUFFICES ASSUME IInv, [Next]_vars
             PROVE  IInv'
  OBVIOUS
<1>1. ASSUME NEW x \in Threads, Steps(x)
      PROVE  IInv'
  BY <1>1, PushIInv, LockIInv, InsertIInv, FlagIInv, EndTaskIInv, FlushTaskIInv,
     EndFlushIInv
  DEF Steps
<1>2. ASSUME Run
      PROVE  IInv'
  BY <1>2, LoopsIInv, SwapIInv, ProcessIInv DEF Run
<1> QED
  BY <1>1, <1>2, FlushIInv, StopIInv, DestroyIInv, OverlapIInv, StutterIInv DEF Next

-----------------------------------------------------------------------------

\* No task that was pushed is lost, run twice, or both run and deleted, whoever
\* pushes, flushes and stops meanwhile, as long as no two accesses to m_queue have
\* overlapped; and while nobody flushes tasks run in the order of their insertion.
THEOREM NoTaskIsLost == Spec => []TasksConserved
<1>1. IInv => TasksConserved
  BY DEF IInv, TasksConserved, Conserved, Ordered, Count, Runs, Deleted
<1> QED
  BY InitIInv, NextIInv, <1>1, PTL DEF Spec

\* Accesses to m_queue overlap, and a thread waits for its own lock, only when a
\* task pushes another: the unlocked push of the run thread is safe otherwise.
THEOREM FaultsAreExplained == Spec => []FaultsExplained
<1>1. IInv => FaultsExplained
  <2> SUFFICES ASSUME IInv, NEW x \in Threads, push[x] = "lock", holder = x
               PROVE  flushed /\ x \in Producers /\ job[x] # NULL
                        /\ arg[x] \in Children[job[x]]
    BY DEF FaultsExplained, Deadlocked, IInv, Explained
  <2>1. pc[x] = "flush" /\ x # Runner
    BY ThreadsAssumption DEF IInv, Locked, Threads, ThreadsAssumption
  <2> QED
    BY <2>1 DEF IInv, Locked, Pushing, Threads
<1> QED
  BY InitIInv, NextIInv, <1>1, PTL DEF Spec

-----------------------------------------------------------------------------
(* The two lists are one.                                                    *)

LEMMA MembersOfConcat ==
  ASSUME NEW S, NEW a \in Seq(S), NEW b \in Seq(S)
  PROVE  ToSet(a \o b) = ToSet(a) \union ToSet(b)
<1> DEFINE w == a \o b
<1>1. /\ Len(a) \in Nat /\ Len(b) \in Nat /\ DOMAIN w = 1..(Len(a) + Len(b))
      /\ DOMAIN a = 1..Len(a) /\ DOMAIN b = 1..Len(b)
      /\ \A i \in 1..Len(a) : w[i] = a[i]
      /\ \A i \in 1..Len(b) : w[Len(a) + i] = b[i]
  OBVIOUS
<1> HIDE DEF w
<1>2. ASSUME NEW t, t \in ToSet(w)
      PROVE  t \in ToSet(a) \union ToSet(b)
  <2>1. PICK i \in 1..(Len(a) + Len(b)) : w[i] = t
    BY <1>1, <1>2 DEF ToSet
  <2>2. CASE i <= Len(a)
    BY <1>1, <2>1, <2>2 DEF ToSet
  <2>3. CASE i > Len(a)
    <3>1. i - Len(a) \in 1..Len(b) /\ i = Len(a) + (i - Len(a))
      BY <1>1, <2>1, <2>3
    <3> QED
      BY <1>1, <2>1, <3>1 DEF ToSet
  <2> QED
    BY <1>1, <2>1, <2>2, <2>3
<1>3. ASSUME NEW t, t \in ToSet(a) PROVE t \in ToSet(w)
  BY <1>1, <1>3 DEF ToSet
<1>4. ASSUME NEW t, t \in ToSet(b) PROVE t \in ToSet(w)
  <2>1. PICK i \in 1..Len(b) : b[i] = t
    BY <1>1, <1>4 DEF ToSet
  <2>2. Len(a) + i \in DOMAIN w /\ w[Len(a) + i] = t
    BY <1>1, <2>1
  <2> QED
    BY <2>2 DEF ToSet
<1> QED
  BY <1>2, <1>3, <1>4 DEF w

LEMMA MembersOfAppend ==
  ASSUME NEW S, NEW s \in Seq(S), NEW e \in S
  PROVE  ToSet(Append(s, e)) = ToSet(s) \union {e}
<1>1. /\ Len(s) \in Nat /\ DOMAIN s = 1..Len(s) /\ DOMAIN Append(s, e) = 1..(Len(s) + 1)
      /\ \A i \in 1..Len(s) : Append(s, e)[i] = s[i]
      /\ Append(s, e)[Len(s) + 1] = e
  OBVIOUS
<1>2. \A i \in 1..(Len(s) + 1) : i \in 1..Len(s) \/ i = Len(s) + 1
  BY <1>1
<1>3. \A i \in 1..Len(s) : i \in 1..(Len(s) + 1)
  BY <1>1
<1>4. Len(s) + 1 \in 1..(Len(s) + 1)
  BY <1>1
<1> QED
  BY <1>1, <1>2, <1>3, <1>4, Zenon DEF ToSet

\* What is left of a list when the first task of its second half is taken.
LEMMA TakeFromConcat ==
  ASSUME NEW S, NEW a \in Seq(S), NEW b \in Seq(S), b # <<>>
  PROVE  LET w == a \o b
             i == Len(a) + 1
         IN  /\ i \in DOMAIN w /\ w[i] = Head(b)
             /\ SubSeq(w, 1, i - 1) \o SubSeq(w, i + 1, Len(w)) = a \o Tail(b)
<1> DEFINE w == a \o b
           i == Len(a) + 1
<1>1. /\ w \in Seq(S) /\ Len(w) = Len(a) + Len(b) /\ Len(a) \in Nat /\ Len(b) \in Nat \ {0}
      /\ \A j \in 1..Len(a) : w[j] = a[j]
      /\ \A j \in 1..Len(b) : w[Len(a) + j] = b[j]
      /\ Head(b) = b[1] /\ Tail(b) \in Seq(S) /\ Len(Tail(b)) = Len(b) - 1
      /\ \A j \in 1..(Len(b) - 1) : Tail(b)[j] = b[j + 1]
  OBVIOUS
<1>2. i \in DOMAIN w /\ w[i] = Head(b)
  BY <1>1
<1> HIDE DEF w
<1>3. SubSeq(w, 1, i - 1) = a
  <2> DEFINE u == SubSeq(w, 1, Len(a))
  <2>1. u \in Seq(S) /\ Len(u) = Len(a) /\ \A j \in 1..Len(a) : u[j] = w[j]
    BY <1>1
  <2>2. \A j \in 1..Len(a) : u[j] = a[j]
    BY <1>1, <2>1
  <2> HIDE DEF u
  <2>3. u = a
    BY <2>1, <2>2, SeqEqual
  <2>4. i - 1 = Len(a)
    BY <1>1
  <2> QED
    BY <2>3, <2>4 DEF u
<1>4. SubSeq(w, i + 1, Len(w)) = Tail(b)
  <2> DEFINE u == SubSeq(w, i + 1, Len(w))
             n == Len(b) - 1
  <2>1. u \in Seq(S) /\ Len(u) = n /\ \A j \in 1..n : u[j] = w[i + j]
    BY <1>1
  <2>2. \A j \in 1..n : j + 1 \in 1..Len(b) /\ i + j = Len(a) + (j + 1)
    BY <1>1
  <2>3. \A j \in 1..n : u[j] = Tail(b)[j]
    BY <1>1, <2>1, <2>2
  <2> HIDE DEF u
  <2>4. u = Tail(b)
    BY <1>1, <2>1, <2>3, SeqEqual
  <2> QED
    BY <2>4 DEF u
<1> QED
  BY <1>2, <1>3, <1>4 DEF w

LEMMA InitPool == Init => Pool!Init
<1> SUFFICES ASSUME Init
             PROVE  Pool!Init
  OBVIOUS
<1>1. ToSet(<<>>) = {}
  BY DEF ToSet
<1>2. <<>> \o <<>> = <<>>
  OBVIOUS
<1> QED
  BY <1>1, <1>2 DEF Init, Pool!Init

\* A task that was not inserted is nowhere.
LEMMA NotInserted ==
  ASSUME IInv, NEW t \in Tasks, Count(t, pushed) = 0
  PROVE  Pool!New(t)
<1> USE DEF IInv
<1>1. /\ Count(t, ran) \in Nat /\ Count(t, local) \in Nat /\ Count(t, queue) \in Nat
      /\ Cardinality(Runs(t)) \in Nat /\ Deleted(t) \in Nat
  BY CountType, RunsFinite DEF Types, Deleted
<1>2. Count(t, pushed) = Count(t, ran) + Count(t, local) + Count(t, queue)
                           + Cardinality(Runs(t)) + Deleted(t)
  BY DEF Conserved
<1>3. /\ Count(t, ran) = 0 /\ Count(t, local) = 0 /\ Count(t, queue) = 0
      /\ Cardinality(Runs(t)) = 0 /\ Deleted(t) = 0
  BY <1>1, <1>2
<1>4. t \notin ToSet(ran) /\ t \notin ToSet(local) /\ t \notin ToSet(queue)
  BY <1>3, CountMember DEF Types
<1>5. t \notin ToSet(local \o queue)
  BY <1>4, MembersOfConcat DEF Types
<1>6. \A x \in Threads : job[x] # t
  <2>1. Runs(t) = {}
    BY <1>3, RunsFinite, FS_EmptySet
  <2> QED
    BY <2>1 DEF Runs
<1>7. t \notin deleted
  BY <1>3 DEF Deleted
<1> QED
  BY <1>4, <1>5, <1>6, <1>7 DEF Pool!New, Pool!ToSet, ToSet

\* A thread takes the first task of m_queue, behind what run has taken.
LEMMA TakesFromPool ==
  ASSUME IInv, NEW x \in Threads, NEW a \in Seq(Tasks), NEW b \in Seq(Tasks), b # <<>>,
         local \o queue = a \o b, local' \o queue' = a \o Tail(b),
         x = Runner => a = <<>>, job[x] = NULL,
         job' = [job EXCEPT ![x] = Head(b)], UNCHANGED <<ran, deleted>>
  PROVE  Pool!Next
<1> DEFINE w == local \o queue
           i == Len(a) + 1
<1>1. /\ i \in DOMAIN w /\ w[i] = Head(b)
      /\ SubSeq(w, 1, i - 1) \o SubSeq(w, i + 1, Len(w)) = a \o Tail(b)
  BY TakeFromConcat
<1>2. x = Runner => i = 1
  OBVIOUS
<1> HIDE DEF i
<1>3. Pool!Begin(x, i)
  BY <1>1, <1>2 DEF Pool!Begin
<1> QED
  BY <1>1, <1>3 DEF Pool!Next

LEMMA InsertPool == ASSUME IInv, NEW x \in Threads, Insert(x) PROVE Pool!Next
<1> USE DEF IInv
<1>1. arg[x] \in Tasks /\ Count(arg[x], pushed) = 0
  <2>1. push[x] = "insert"
    BY DEF Insert
  <2> QED
    BY <2>1 DEF Pushing, Types, Once
<1>2. Pool!New(arg[x])
  BY <1>1, NotInserted
<1>3. local \o Append(queue, arg[x]) = Append(local \o queue, arg[x])
  BY <1>1 DEF Types
<1>4. Pool!Accept(arg[x])
  BY <1>2, <1>3 DEF Pool!Accept, Insert
<1> QED
  BY <1>1, <1>4 DEF Pool!Next

LEMMA EndTaskPool == ASSUME IInv, NEW x \in Threads, EndTask(x) PROVE Pool!Next
<1>1. job[x] \in Tasks
  BY DEF IInv, Types, EndTask
<1>2. ToSet(Append(ran, job[x])) = ToSet(ran) \union {job[x]}
  BY <1>1, MembersOfAppend DEF IInv, Types
<1>3. Pool!End(x)
  BY <1>2 DEF Pool!End, EndTask, Take, data
<1> QED
  BY <1>3 DEF Pool!Next

LEMMA ProcessPool == ASSUME IInv, Process PROVE Pool!Next
<1> USE DEF IInv
<1>1. local \in Seq(Tasks) /\ queue \in Seq(Tasks) /\ local # <<>> /\ Runner \in Threads
  BY DEF Types, Process, Threads
<1> DEFINE b == local \o queue
<1>2. b \in Seq(Tasks) /\ b # <<>> /\ Head(b) = Head(local) /\ Tail(b) = Tail(local) \o queue
  <2>1. /\ b \in Seq(Tasks) /\ Len(b) = Len(local) + Len(queue) /\ Len(local) \in Nat \ {0}
        /\ Len(queue) \in Nat /\ Head(b) = b[1] /\ Head(local) = local[1]
        /\ b[1] = local[1]
    BY <1>1
  <2>2. Len(b) \in Nat \ {0}
    BY <2>1
  <2>3. b # <<>>
    BY <2>2
  <2>4. Tail(b) = Tail(local) \o queue
    <3> DEFINE c == Tail(local) \o queue
               n == Len(local) + Len(queue) - 1
    <3>1. Tail(b) \in Seq(Tasks) /\ Len(Tail(b)) = n /\ \A j \in 1..n : Tail(b)[j] = b[j + 1]
      BY <2>1, <2>3
    <3>2. c \in Seq(Tasks) /\ Len(c) = n
      BY <1>1
    <3>3. \A j \in 1..n : c[j] = b[j + 1]
      BY <1>1
    <3> HIDE DEF b, c
    <3>4. Tail(b) = c
      BY <3>1, <3>2, <3>3, SeqEqual
    <3> QED
      BY <3>4 DEF c
  <2> QED
    BY <2>1, <2>3, <2>4
<1>3. <<>> \in Seq(Tasks) /\ <<>> \o b = b /\ <<>> \o Tail(b) = Tail(b)
  <2>1. Tail(b) \in Seq(Tasks)
    BY <1>2
  <2> QED
    BY <1>2, <2>1, ConcatEmptySeq
<1> HIDE DEF b
<1>4. /\ local' \o queue' = <<>> \o Tail(b) /\ local \o queue = <<>> \o b
      /\ job[Runner] = NULL /\ job' = [job EXCEPT ![Runner] = Head(b)]
      /\ UNCHANGED <<ran, deleted>>
  BY <1>2, <1>3 DEF Process, Take, history, b
<1> QED
  BY <1>1, <1>2, <1>3, <1>4, TakesFromPool

LEMMA FlushTaskPool == ASSUME IInv, NEW x \in Threads, FlushTask(x) PROVE Pool!Next
<1>1. /\ pc[x] = "flush" /\ job[x] = NULL /\ queue # <<>>
      /\ job' = [job EXCEPT ![x] = Head(queue)] /\ queue' = Tail(queue)
      /\ UNCHANGED <<local, ran, deleted>>
  BY DEF FlushTask, Take, history
<1>2. local \in Seq(Tasks) /\ queue \in Seq(Tasks)
  BY DEF IInv, Types
<1>3. x = Runner => local = <<>>
  BY <1>1 DEF IInv, Emptied
<1> QED
  BY <1>1, <1>2, <1>3, TakesFromPool

LEMMA DestroyPool == ASSUME IInv, Destroy PROVE Pool!Next
<1>1. /\ pc[Runner] \in {"idle", "done"} /\ \A x \in Producers : pc[x] = "idle"
      /\ deleted' = ToSet(queue) /\ queue' = <<>> /\ UNCHANGED <<local, job, ran>>
  BY DEF Destroy
<1>2. local = <<>> /\ queue \in Seq(Tasks)
  BY <1>1 DEF IInv, Types, Emptied
<1>3. \A x \in Threads : job[x] = NULL
  BY <1>1 DEF IInv, Working, Threads
<1>4. <<>> \o queue = queue /\ <<>> \o <<>> = <<>>
  BY <1>2, ConcatEmptySeq
<1>5. local \o queue = queue /\ (local \o queue)' = <<>>
  BY <1>1, <1>2, <1>4
<1>6. deleted' = ToSet(local \o queue) /\ UNCHANGED <<job, ToSet(ran)>>
  BY <1>1, <1>5
<1>7. Pool!Discard
  BY <1>3, <1>5, <1>6 DEF Pool!Discard, Pool!ToSet, ToSet
<1> QED
  BY <1>7 DEF Pool!Next

\* The swap moves all tasks, and no task moves in the list: run has none left.
LEMMA SwapPool == ASSUME IInv, Swap PROVE UNCHANGED <<local \o queue, job, ToSet(ran), deleted>>
<1>1. local = <<>> /\ queue \in Seq(Tasks)
  BY DEF IInv, Types, Emptied, Swap
<1>2. <<>> \o queue = queue /\ queue \o <<>> = queue
  BY <1>1, ConcatEmptySeq
<1> QED
  BY <1>1, <1>2 DEF Swap, history

LEMMA NextPool ==
  IInv /\ [Next]_vars => [Pool!Next]_<<local \o queue, job, ToSet(ran), deleted>>
<1> SUFFICES ASSUME IInv, [Next]_vars
             PROVE  Pool!Next \/ UNCHANGED <<local \o queue, job, ToSet(ran), deleted>>
  OBVIOUS
<1>1. CASE UNCHANGED <<local, queue, job, ran, deleted>>
  BY <1>1
<1>2. ASSUME NEW x \in Threads, Steps(x)
      PROVE  Pool!Next \/ UNCHANGED <<local, queue, job, ran, deleted>>
  BY <1>2, InsertPool, EndTaskPool, FlushTaskPool
  DEF Steps, Push, Lock, Flag, EndFlush, data, history
<1>3. ASSUME Run
      PROVE  \/ Pool!Next \/ UNCHANGED <<local, queue, job, ran, deleted>>
             \/ UNCHANGED <<local \o queue, job, ToSet(ran), deleted>>
  BY <1>3, SwapPool, ProcessPool DEF Run, RunBegin, Loop, Exchange, EndProcess, data, history
<1>4. ASSUME NEW x \in Threads, Flush(x) \/ Stop \/ Overlap \/ UNCHANGED vars
      PROVE  UNCHANGED <<local, queue, job, ran, deleted>>
  BY <1>4 DEF Flush, Stop, Overlap, vars, data, threads, history
<1> QED
  BY <1>1, <1>2, <1>3, <1>4, DestroyPool DEF Next, Threads

\* Seen through its two lists, the task queue is one list of tasks: each goes through
\* it once, run always takes the oldest task there is, whoever flushes meanwhile, and
\* the destructor deletes what is left.
THEOREM PoolImplemented == Spec => ImplementsPool
<1>1. Spec => []IInv
  BY InitIInv, NextIInv, PTL DEF Spec
<1> QED
  BY <1>1, InitPool, NextPool, PTL DEF Spec, ImplementsPool, Pool!Spec

=============================================================================
