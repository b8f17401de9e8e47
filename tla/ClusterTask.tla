----------------------------- MODULE ClusterTask -----------------------------
(***************************************************************************)
(* cluster/task/test.c: the fabric controller pushes two FC tasks to the   *)
(* cluster; each of them pushes two CL tasks of two cores, which live in   *)
(* its stack frame, and waits for them; main waits for the two FC tasks.   *)
(* The task scheduler of the cluster is external: a task starts when it    *)
(* finds the cores it asks for free, and has them until it returns, also   *)
(* while it waits.  Two waiting FC tasks and a CL task need four cores.    *)
(***************************************************************************)
EXTENDS RtEvents, FiniteSets

CONSTANT NB_PE  \* cores of the cluster

TaskAssumption == NB_PE \in Nat /\ NB_PE >= 4

Fc == 0 .. 1      \* fc_tasks
Cl == 0 .. 1      \* cl_tasks in the frame of an FC task
Id == 0 .. 1      \* the cores of a CL task

VARIABLES pc,       \* where main is
          n,        \* the i of its loops
          mounted,  \* the cluster is on
          pool,     \* free events
          event,    \* each FC task's event: "none", "out" or "signaled"
          task,     \* where each FC task is
          j,        \* the i of its loops
          cl,       \* each CL task of each FC task
          ran       \* the ids that have entered each CL task

vars == << pc, n, mounted, pool, event, task, j, cl, ran >>

TypeOK ==
  /\ pc \in {"alloc", "mount", "init", "push", "wait", "exit_0", "exit_-1", "null_event"}
  /\ n \in 0 .. 2
  /\ mounted \in BOOLEAN
  /\ pool \in 0 .. 2
  /\ event \in [Fc -> {"none", "out", "signaled"}]
  /\ task \in [Fc -> {"new", "pushed", "pushing", "waiting", "done"}]
  /\ j \in [Fc -> 0 .. 2]
  /\ cl \in [Fc -> [Cl -> {"new", "pushed", "running", "done"}]]
  /\ ran \in [Fc -> [Cl -> SUBSET Id]]

Init ==
  /\ pc = "alloc" /\ n = 0 /\ mounted = FALSE /\ pool = 0
  /\ event = [f \in Fc |-> "none"]
  /\ task = [f \in Fc |-> "new"] /\ j = [f \in Fc |-> 0]
  /\ cl = [f \in Fc |-> [c \in Cl |-> "new"]]
  /\ ran = [f \in Fc |-> [c \in Cl |-> {}]]

-----------------------------------------------------------------------------
(* main                                                                    *)

tasks == << task, j, cl, ran >>

\* Mutant: one event too many.
Alloc_Three ==
  /\ pc = "alloc"
  /\ \/ pool' = rt_event_alloc(pool, 3) /\ pc' = "mount"
     \/ pc' = "exit_-1" /\ UNCHANGED pool
  /\ UNCHANGED << n, mounted, event, tasks >>

Alloc ==
  /\ pc = "alloc"
  /\ \/ pool' = rt_event_alloc(pool, 2) /\ pc' = "mount"
     \/ pc' = "exit_-1" /\ UNCHANGED pool
  /\ UNCHANGED << n, mounted, event, tasks >>

Mount ==
  /\ pc = "mount"
  /\ mounted' = TRUE /\ pc' = "init"
  /\ UNCHANGED << n, pool, event, tasks >>

\* rt_task_cluster_init, which may fail.
InitTasks ==
  /\ pc = "init"
  /\ pc' \in {"push", "exit_-1"}
  /\ UNCHANGED << n, mounted, pool, event, tasks >>

PushFc ==
  /\ pc = "push"
  /\ IF HasEvents(pool, 1)
       THEN /\ pool' = rt_event_get(pool, 1)
            /\ event' = [event EXCEPT ![n] = "out"]
            /\ task' = [task EXCEPT ![n] = "pushed"]
            /\ IF n = 1 THEN n' = 0 /\ pc' = "wait" ELSE n' = n + 1 /\ UNCHANGED pc
       ELSE pc' = "null_event" /\ UNCHANGED << n, pool, event, task >>
  /\ UNCHANGED << mounted, j, cl, ran >>

\* rt_event_wait gives the event back.
WaitFc ==
  /\ pc = "wait"
  /\ event[n] = "signaled"
  /\ event' = [event EXCEPT ![n] = "none"]
  /\ pool' = rt_event_free(pool)
  /\ n' = n + 1
  /\ pc' = IF n = 1 THEN "exit_0" ELSE pc
  /\ UNCHANGED << mounted, tasks >>

Main == Alloc \/ Mount \/ InitTasks \/ PushFc \/ WaitFc

-----------------------------------------------------------------------------
(* The tasks, on the cluster.                                              *)

main == << pc, n, mounted, pool >>

\* The cores that are taken: one for each FC task, two for each CL task.
Busy == Cardinality({f \in Fc : task[f] \in {"pushing", "waiting"}}) +
        2 * Cardinality({p \in Fc \X Cl : cl[p[1]][p[2]] = "running"})

StartFc(f) ==
  /\ task[f] = "pushed" /\ Busy + 1 <= NB_PE
  /\ task' = [task EXCEPT ![f] = "pushing"]
  /\ UNCHANGED << main, event, j, cl, ran >>

\* fc_task_entry: initialise and push a CL task.
PushCl(f) ==
  /\ task[f] = "pushing"
  /\ cl' = [cl EXCEPT ![f][j[f]] = "pushed"]
  /\ IF j[f] = 1
       THEN task' = [task EXCEPT ![f] = "waiting"] /\ j' = [j EXCEPT ![f] = 0]
       ELSE j' = [j EXCEPT ![f] = @ + 1] /\ UNCHANGED task
  /\ UNCHANGED << main, event, ran >>

\* Mutant: the FC task waits for the first of its tasks only.
WaitCl_First(f) ==
  /\ task[f] = "waiting" /\ cl[f][0] = "done"
  /\ task' = [task EXCEPT ![f] = "done"]
  /\ event' = [event EXCEPT ![f] = "signaled"]
  /\ UNCHANGED << main, j, cl, ran >>

\* fc_task_entry waits for its tasks in order, and returns.
WaitCl(f) ==
  /\ task[f] = "waiting" /\ cl[f][j[f]] = "done"
  /\ j' = [j EXCEPT ![f] = @ + 1]
  /\ IF j[f] = 1
       THEN task' = [task EXCEPT ![f] = "done"] /\ event' = [event EXCEPT ![f] = "signaled"]
       ELSE UNCHANGED << task, event >>
  /\ UNCHANGED << main, cl, ran >>

StartCl(f, c) ==
  /\ cl[f][c] = "pushed" /\ Busy + 2 <= NB_PE
  /\ cl' = [cl EXCEPT ![f][c] = "running"]
  /\ UNCHANGED << main, event, task, j, ran >>

\* Each of the task's cores enters it once; the last one ends the task.
cl_task_entry(f, c) ==
  /\ cl[f][c] = "running"
  /\ \E id \in Id \ ran[f][c] :
       /\ ran' = [ran EXCEPT ![f][c] = @ \cup {id}]
       /\ cl' = [cl EXCEPT ![f][c] = IF ran'[f][c] = Id THEN "done" ELSE @]
  /\ UNCHANGED << main, event, task, j >>

Cluster ==
  \E f \in Fc : \/ StartFc(f) \/ PushCl(f) \/ WaitCl(f)
                \/ \E c \in Cl : StartCl(f, c) \/ cl_task_entry(f, c)

-----------------------------------------------------------------------------
Stopped == pc \in {"exit_0", "exit_-1", "null_event"} /\ UNCHANGED vars

Next == Main \/ Cluster \/ Stopped

Spec == Init /\ [][Next]_vars /\ WF_vars(Main) /\ WF_vars(Cluster)

-----------------------------------------------------------------------------
\* A CL task is only queued or running while the frame it lives in exists.
FrameOutlivesTasks ==
  \A f \in Fc, c \in Cl :
    cl[f][c] \in {"pushed", "running"} => task[f] \in {"pushing", "waiting"}
=============================================================================
