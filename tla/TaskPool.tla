------------------------------- MODULE TaskPool -------------------------------
(* What the task queue promises to those who push: a task waits in one list,   *)
(* is taken out of it once, and ends or is deleted.  The main worker, the      *)
(* thread in run, always takes the oldest; another may overtake it.            *)
EXTENDS Naturals, Sequences, SequencesExt

CONSTANTS Tasks, Workers, Main, NULL

VARIABLES waiting,   \* accepted and not yet begun, in order of acceptance
          doing,     \* the task of each worker
          finished,  \* the tasks that have ended
          discarded  \* the tasks deleted without being run

Init ==
  /\ waiting = <<>> /\ doing = [w \in Workers |-> NULL]
  /\ finished = {} /\ discarded = {}

New(t) ==
  /\ t \notin ToSet(waiting) \union finished \union discarded
  /\ \A w \in Workers : doing[w] # t

Accept(t) ==
  /\ New(t)
  /\ waiting' = Append(waiting, t)
  /\ UNCHANGED <<doing, finished, discarded>>

Begin(w, i) ==
  /\ doing[w] = NULL
  /\ w = Main => i = 1
  /\ doing' = [doing EXCEPT ![w] = waiting[i]]
  /\ waiting' = SubSeq(waiting, 1, i - 1) \o SubSeq(waiting, i + 1, Len(waiting))
  /\ UNCHANGED <<finished, discarded>>

End(w) ==
  /\ doing[w] # NULL
  /\ finished' = finished \union {doing[w]}
  /\ doing' = [doing EXCEPT ![w] = NULL]
  /\ UNCHANGED <<waiting, discarded>>

Discard ==
  /\ \A w \in Workers : doing[w] = NULL
  /\ discarded' = ToSet(waiting)
  /\ waiting' = <<>>
  /\ UNCHANGED <<doing, finished>>

Next ==
  \/ \E t \in Tasks : Accept(t)
  \/ \E w \in Workers : End(w) \/ \E i \in DOMAIN waiting : Begin(w, i)
  \/ Discard

Spec == Init /\ [][Next]_<<waiting, doing, finished, discarded>>
===============================================================================
