------------------------------ MODULE ParallelOr ------------------------------
(* __parallel_or: does the brick hold on some subrange? The tasks share one    *)
(* relaxed atomic flag, and a task that found a witness asks the backend to    *)
(* cancel what has not started.                                                *)
VARIABLES chunks,      \* the subranges the backend split the range into
          holds,       \* the chunks on which the brick returns true
          cancels,     \* __cancel_execution cancels (TBB) or does nothing (OpenMP)
          found,       \* the atomic __found
          cancelled,   \* the task group has been cancelled
          pc,          \* pc[c]: what the task of chunk c does next
          answer       \* "running", or what the call returned

vars == <<chunks, holds, cancels, found, cancelled, pc, answer>>

Init ==
  /\ holds \subseteq chunks
  /\ cancels \in BOOLEAN
  /\ found = FALSE
  /\ cancelled = FALSE
  /\ pc = [c \in chunks |-> "check"]
  /\ answer = "running"

\* !__found.load(memory_order_relaxed): a task may still read the initial value
\* after another one has stored TRUE, never TRUE before.
Check(c) ==
  /\ pc[c] = "check"
  /\ \E seen \in BOOLEAN :
       /\ seen => found
       /\ pc' = [pc EXCEPT ![c] = IF seen THEN "done" ELSE "brick"]
  /\ UNCHANGED <<chunks, holds, cancels, found, cancelled, answer>>

\* && __f(__i, __j)
Brick(c) ==
  /\ pc[c] = "brick"
  /\ pc' = [pc EXCEPT ![c] = IF c \in holds THEN "store" ELSE "done"]
  /\ UNCHANGED <<chunks, holds, cancels, found, cancelled, answer>>

\* [mutant] The execution is cancelled before the flag is set.
Store_CancelFirst(c) ==
  /\ pc[c] = "store"
  /\ cancelled' = (cancelled \/ cancels)
  /\ pc' = [pc EXCEPT ![c] = "cancel"]
  /\ UNCHANGED <<chunks, holds, cancels, found, answer>>

\* __found.store(true, memory_order_relaxed)
Store(c) ==
  /\ pc[c] = "store"
  /\ found' = TRUE
  /\ pc' = [pc EXCEPT ![c] = "cancel"]
  /\ UNCHANGED <<chunks, holds, cancels, cancelled, answer>>

\* __cancel_execution()
Cancel(c) ==
  /\ pc[c] = "cancel"
  /\ cancelled' = (cancelled \/ cancels)
  /\ pc' = [pc EXCEPT ![c] = "done"]
  /\ UNCHANGED <<chunks, holds, cancels, found, answer>>

\* A cancelled group drops a task that has not started.
Drop(c) ==
  /\ cancelled
  /\ pc[c] = "check"
  /\ pc' = [pc EXCEPT ![c] = "done"]
  /\ UNCHANGED <<chunks, holds, cancels, found, cancelled, answer>>

\* return __found, after the parallel loop has joined its tasks.
Return ==
  /\ answer = "running"
  /\ \A c \in chunks : pc[c] = "done"
  /\ answer' = (IF found THEN "true" ELSE "false")
  /\ UNCHANGED <<chunks, holds, cancels, found, cancelled, pc>>

Step(c) == Check(c) \/ Brick(c) \/ Store(c) \/ Cancel(c) \/ Drop(c)

Next == (\E c \in chunks : Step(c)) \/ Return

Spec == Init /\ [][Next]_vars
-------------------------------------------------------------------------------
\* "Return true if brick f[i,j) returns true for some subrange" (parallel_impl.h:72):
\* neither the early exit nor the cancellation changes the result.
AnswerIsOr ==
  answer # "running" => answer = (IF holds # {} THEN "true" ELSE "false")

\* A chunk is given up, by the early exit or by the cancellation, only once the
\* flag that makes its result irrelevant is set (parallel_impl.h:80-83).
SkippedOnlyWhenFound ==
  /\ cancelled => found
  /\ \A c \in holds : pc[c] = "done" => found
===============================================================================
