----------------------------- MODULE SlideTasks -----------------------------
(***************************************************************************)
(* Threads of a compiled program (crates/runtime/src/lib.rs): bet_slide    *)
(* spawns an OS thread and then, in a second step, registers its join      *)
(* handle; bet_task_join takes the join handle out of the registry and     *)
(* then waits outside the lock; crib, stash, vec and rng handles belong to *)
(* the thread that created them, and every accessor aborts the process     *)
(* when another thread comes through it.                                   *)
(***************************************************************************)
EXTENDS Integers, FiniteSets

CONSTANTS Threads,      \* every thread of the program
          Main,         \* the thread that is there from the start
          Handles,      \* crib/stash/vec/rng handles the program creates
          NoThread, NoHandle,
          OwnersFree    \* the program frees a handle only on its own thread

ASSUME TaskAssumption == /\ IsFiniteSet(Threads)
                         /\ Main \in Threads
                         /\ NoThread \notin Threads
                         /\ NoHandle \notin Handles
                         /\ OwnersFree \in BOOLEAN

VARIABLES status,    \* unborn, running or done
          pc,        \* run, spawned, joining or using
          child,     \* the thread being spawned, between spawn and registration
          next,      \* TaskReg.next
          registry,  \* TaskReg.handles: task id -> its JoinHandle's thread
          waitFor,   \* the thread whose JoinHandle a joiner took
          taker,     \* ghost: who took the JoinHandle of each id
          taskOf,    \* ghost: the thread each id was given to
          owner,     \* the thread stamped in each handle
          freed,     \* handles that were freed
          using,     \* the handle an accessor works on
          aborted    \* the process is gone

taskVars   == <<next, registry, waitFor, taker, taskOf>>
handleVars == <<owner, freed, using>>
threadVars == <<status, pc, child, taskVars, handleVars, aborted>>

Ids == 1 .. Cardinality(Threads) - 1

TaskInit == /\ status = [t \in Threads |-> IF t = Main THEN "running" ELSE "unborn"]
        /\ pc = [t \in Threads |-> "run"]
        /\ child = [t \in Threads |-> NoThread]
        /\ next = 1
        /\ registry = [i \in Ids |-> NoThread]
        /\ waitFor = [t \in Threads |-> NoThread]
        /\ taker = [i \in Ids |-> NoThread]
        /\ taskOf = [i \in Ids |-> NoThread]
        /\ owner = [h \in Handles |-> NoThread]
        /\ freed = {}
        /\ using = [t \in Threads |-> NoHandle]
        /\ aborted = FALSE

Runs(t) == status[t] = "running" /\ pc[t] = "run"

(* bet_slide, first half: std::thread::spawn.  The task runs from here on, *)
(* and may be over before its spawner goes on.                             *)
bet_slide(t, c) ==
    /\ Runs(t)
    /\ status[c] = "unborn"
    /\ status' = [status EXCEPT ![c] = "running"]
    /\ pc' = [pc EXCEPT ![t] = "spawned"]
    /\ child' = [child EXCEPT ![t] = c]
    /\ UNCHANGED <<taskVars, handleVars, aborted>>

(* The registry's lock as it would be if bet_task_join waited inside it.   *)
Register_locked_mutant(t) ==
    /\ pc[t] = "spawned"
    /\ \A u \in Threads : pc[u] # "joining"
    /\ registry' = [registry EXCEPT ![next] = child[t]]
    /\ taskOf' = [taskOf EXCEPT ![next] = child[t]]
    /\ next' = next + 1
    /\ pc' = [pc EXCEPT ![t] = "run"]
    /\ child' = [child EXCEPT ![t] = NoThread]
    /\ UNCHANGED <<status, waitFor, taker, handleVars, aborted>>

(* bet_slide, second half: the id is drawn and the handle inserted under   *)
(* one lock.                                                               *)
Register(t) ==
    /\ pc[t] = "spawned"
    /\ registry' = [registry EXCEPT ![next] = child[t]]
    /\ taskOf' = [taskOf EXCEPT ![next] = child[t]]
    /\ next' = next + 1
    /\ pc' = [pc EXCEPT ![t] = "run"]
    /\ child' = [child EXCEPT ![t] = NoThread]
    /\ UNCHANGED <<status, waitFor, taker, handleVars, aborted>>

(* bet_task_join, first half: take the JoinHandle out under the lock.  An  *)
(* id that is not there (never issued, or joined already) returns at once. *)
(* The model's programs never close a cycle of joins: the task joined does *)
(* not wait, directly or through others, for the joiner.                   *)
WaitsOn(t, u) ==
    LET reach[n \in Nat] ==
          IF n = 0 THEN {u}
          ELSE reach[n - 1] \cup {waitFor[w] : w \in reach[n - 1] \ {NoThread}}
    IN t \in reach[Cardinality(Threads)]

bet_task_join(t, id) ==
    /\ Runs(t)
    /\ registry[id] # NoThread => ~WaitsOn(t, registry[id])
    /\ IF registry[id] = NoThread
       THEN UNCHANGED <<pc, waitFor, taker>>
       ELSE /\ pc' = [pc EXCEPT ![t] = "joining"]
            /\ waitFor' = [waitFor EXCEPT ![t] = registry[id]]
            /\ taker' = [taker EXCEPT ![id] = t]
    /\ registry' = [registry EXCEPT ![id] = NoThread]
    /\ UNCHANGED <<status, child, next, taskOf, handleVars, aborted>>

(* A join that does not wait.                                              *)
JoinReturns_mutant(t) ==
    /\ pc[t] = "joining"
    /\ pc' = [pc EXCEPT ![t] = "run"]
    /\ waitFor' = [waitFor EXCEPT ![t] = NoThread]
    /\ UNCHANGED <<status, child, next, registry, taker, taskOf, handleVars, aborted>>

(* bet_task_join, second half: h.join() returns when the thread is done.   *)
JoinReturns(t) ==
    /\ pc[t] = "joining"
    /\ status[waitFor[t]] = "done"
    /\ pc' = [pc EXCEPT ![t] = "run"]
    /\ waitFor' = [waitFor EXCEPT ![t] = NoThread]
    /\ UNCHANGED <<status, child, next, registry, taker, taskOf, handleVars, aborted>>

(* bet_crib_new, bet_map_new, bet_vec_new, bet_rng_new, bet_scratch.       *)
NewHandle(t, h) ==
    /\ Runs(t)
    /\ owner[h] = NoThread
    /\ owner' = [owner EXCEPT ![h] = t]
    /\ UNCHANGED <<status, pc, child, taskVars, freed, using, aborted>>

(* Accessors with no check.                                                *)
check_affinity_mutant(t, h) == TRUE

(* crib, crib_ref, stash_ref, vec_ref, rng_ref: check_affinity, then the   *)
(* accessor works on the handle.  The caller guarantees the handle is      *)
(* live; which thread it is on is what the check is for.                   *)
check_affinity(t, h) == owner[h] = t

BeginAccess(t, h) ==
    /\ Runs(t)
    /\ owner[h] # NoThread /\ h \notin freed
    /\ IF check_affinity(t, h)
       THEN /\ pc' = [pc EXCEPT ![t] = "using"]
            /\ using' = [using EXCEPT ![t] = h]
            /\ UNCHANGED aborted
       ELSE /\ aborted' = TRUE
            /\ UNCHANGED <<pc, using>>
    /\ UNCHANGED <<status, child, taskVars, owner, freed>>

EndAccess(t) ==
    /\ pc[t] = "using"
    /\ pc' = [pc EXCEPT ![t] = "run"]
    /\ using' = [using EXCEPT ![t] = NoHandle]
    /\ UNCHANGED <<status, child, taskVars, owner, freed, aborted>>

(* bet_crib_free, bet_map_free, bet_vec_free, bet_rng_free: no check.      *)
FreeHandle(t, h) ==
    /\ Runs(t)
    /\ owner[h] # NoThread /\ h \notin freed
    /\ OwnersFree => owner[h] = t
    /\ freed' = freed \cup {h}
    /\ UNCHANGED <<status, pc, child, taskVars, owner, using, aborted>>

(* The entry function of a task returns; when main returns, the process    *)
(* exits and no task takes another step.                                   *)
Finish(t) ==
    /\ Runs(t)
    /\ status' = [status EXCEPT ![t] = "done"]
    /\ UNCHANGED <<pc, child, taskVars, handleVars, aborted>>

ThreadStep(t) ==
    \/ \E c \in Threads : bet_slide(t, c)
    \/ Register(t)
    \/ \E id \in Ids : bet_task_join(t, id)
    \/ JoinReturns(t)
    \/ \E h \in Handles : NewHandle(t, h) \/ BeginAccess(t, h) \/ FreeHandle(t, h)
    \/ EndAccess(t)
    \/ Finish(t)

Gone == aborted \/ status[Main] = "done"

TaskNext == ~Gone /\ \E t \in Threads : ThreadStep(t)

(* The OS scheduler runs every runnable thread, calls return, and tasks    *)
(* come to their end.                                                      *)
Fairness == \A t \in Threads :
               /\ WF_threadVars(~Gone /\ (Register(t) \/ JoinReturns(t) \/ EndAccess(t)))
               /\ t # Main => SF_threadVars(~Gone /\ Finish(t))

TaskSpec == TaskInit /\ [][TaskNext]_threadVars /\ Fairness

-----------------------------------------------------------------------------
(* The thread that took a task's join handle comes back from               *)
(* bet_task_join only after the task's entry function has returned.        *)
JoinMeansDone ==
    \A i \in Ids : taker[i] # NoThread =>
        \/ status[taskOf[i]] = "done"
        \/ pc[taker[i]] = "joining" /\ waitFor[taker[i]] = taskOf[i]

(* No two threads are ever inside the same crib, stash, vec or rng, and    *)
(* none is inside a freed one: crossing a thread boundary with a handle    *)
(* aborts "rather than racing".                                            *)
NoRace == /\ \A t, u \in Threads : using[t] # NoHandle /\ using[t] = using[u] => t = u
          /\ \A t \in Threads : using[t] \notin freed

(* A joined task's joiner gets back to work.                               *)
JoinersReturn == \A t \in Threads : pc[t] = "joining" ~> (pc[t] = "run" \/ Gone)
=============================================================================
