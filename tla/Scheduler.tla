------------------------------ MODULE Scheduler ------------------------------
(***************************************************************************)
(* The process scheduler (kernel/src/cpu/sched.rs) under the loop every    *)
(* hart runs (hart_loop, kernel/src/cpu/mod.rs).  Each CPU has a run queue *)
(* behind a spinlock and a lock-free steal queue that duplicates it.  A    *)
(* step is one critical section or one operation on a steal queue; steal   *)
(* queues are the atomic deques that ChaseLev implements.                  *)
(***************************************************************************)
EXTENDS Integers, Sequences, FiniteSets, FiniteSetsExt

CONSTANTS
    NumCpus,
    BootAffinity,   \* hart each boot daemon is pinned to; its pid is the index
    BootPriority,
    MAX_PID,        \* bound: pids that can be allocated
    MAX_KILLS,      \* bound: processes that are killed
    MAX_QUEUE       \* bound: a run queue this long is not stolen from

Cpus == 0 .. NumCpus - 1
Pids == 1 .. MAX_PID
AnyCpu == -1        \* usize::MAX: no affinity
NoPid == 0

ASSUME SchedulerAssumption ==
    /\ NumCpus \in Nat \ {0}
    /\ BootAffinity \in Seq(Cpus) /\ Len(BootAffinity) <= MAX_PID
    /\ BootPriority \in Seq(Nat) /\ Len(BootPriority) = Len(BootAffinity)
    /\ MAX_PID \in Nat /\ MAX_QUEUE \in Nat

VARIABLES
    queues,         \* run queues
    steal_queues,
    proc,           \* [state, affinity, priority, daemon] of each pid
    table,          \* PROCESS_TABLE
    next_pid,
    pc, cur,        \* per hart: where it is, and the process it picked
    scan,           \* per hart: victims still to try in pick_next
    obj, target,    \* per hart: arguments of enqueue() or kill()
    back,           \* per hart: where enqueue() returns to
    killed,         \* history: processes kill() was called for
    finished        \* history: one-shot processes whose tick returned

queue_vars == <<queues, steal_queues>>
call_vars == <<obj, target, back>>
history == <<killed, finished>>
vars == <<queue_vars, proc, table, next_pid, pc, cur, scan, call_vars, history>>

States == {"Created", "Ready", "Running", "Zombie"}
Boot == DOMAIN BootAffinity

Goto(h, label) == pc' = [pc EXCEPT ![h] = label]
SetState(p, s) == proc' = [proc EXCEPT ![p].state = s]
Runnable(p) == proc[p].state = "Ready"

----------------------------------------------------------------------------
(* RunQueue, a VecDeque of processes *)

InsertAt(q, i, p) == SubSeq(q, 1, i - 1) \o <<p>> \o SubSeq(q, i, Len(q))
RemoveAt(q, i) == SubSeq(q, 1, i - 1) \o SubSeq(q, i + 1, Len(q))
PopBack(q) == IF q = <<>> THEN q ELSE SubSeq(q, 1, Len(q) - 1)

Contains(q, p) == \E i \in DOMAIN q : q[i] = p

(* RunQueue::remove: the first entry of the process, if there is one. *)
Remove(q, p) == IF Contains(q, p) THEN RemoveAt(q, Min({i \in DOMAIN q : q[i] = p})) ELSE q

(* Fault: equal priorities are served last in, first out. *)
InsertBeforeEqual(q, p, prio) ==
    LET lower == {i \in DOMAIN q : prio[q[i]] <= prio[p]}
        pos == IF lower = {} THEN Len(q) + 1 ELSE Min(lower)
    IN  InsertAt(q, pos, p)

(* RunQueue::enqueue: before the first entry of lower priority. *)
Insert(q, p, prio) ==
    LET lower == {i \in DOMAIN q : prio[q[i]] < prio[p]}
        pos == IF lower = {} THEN Len(q) + 1 ELSE Min(lower)
    IN  InsertAt(q, pos, p)

(* RunQueue::dequeue: the first entry that is Ready. *)
FirstRunnable(q) == {i \in DOMAIN q : Runnable(q[i]) /\ \A j \in 1 .. i - 1 : ~ Runnable(q[j])}

Priority == [p \in Pids |-> proc[p].priority]

(* Fault: the affinity of a stolen process is not looked at. *)
CanRunAnywhere(p, cpu) == TRUE

CanRunOnCpu(p, cpu) == proc[p].affinity \in {AnyCpu, cpu}

(* find_least_loaded_cpu with every hart ready: the first empty secondary, else
   the last of the shortest. *)
LeastLoaded ==
    LET empty == {c \in Cpus \ {0} : queues[c] = <<>>}
    IN  IF empty # {}
        THEN Min(empty)
        ELSE Max({c \in Cpus : \A d \in Cpus : Len(queues[c]) <= Len(queues[d])})

Process(affinity, priority, daemon) ==
    [state |-> "Ready", affinity |-> affinity, priority |-> priority, daemon |-> daemon]
Unborn == [state |-> "Created", affinity |-> AnyCpu, priority |-> 0, daemon |-> FALSE]

(* Hart 0 boots; the others wait for it. *)
Init ==
    /\ queues = [c \in Cpus |-> <<>>]
    /\ steal_queues = [c \in Cpus |-> <<>>]
    /\ proc = [p \in Pids |-> Unborn]
    /\ table = {}
    /\ next_pid = 1
    /\ pc = [h \in Cpus |-> "boot"]
    /\ cur = [h \in Cpus |-> NoPid]
    /\ scan = [h \in Cpus |-> <<>>]
    /\ obj = [h \in Cpus |-> NoPid] /\ target = [h \in Cpus |-> 0]
    /\ back = [h \in Cpus |-> "boot"]
    /\ killed = {} /\ finished = {}

----------------------------------------------------------------------------
(* enqueue(): the steal queue first, the run queue second, each on its own. *)
CallEnqueue(h, p, cpu, return) ==
    /\ obj' = [obj EXCEPT ![h] = p]
    /\ target' = [target EXCEPT ![h] = cpu]
    /\ back' = [back EXCEPT ![h] = return]
    /\ Goto(h, "enqueue_push")

EnqueuePush(h) ==
    /\ pc[h] = "enqueue_push"
    /\ steal_queues' = [steal_queues EXCEPT ![target[h]] = Append(@, obj[h])]
    /\ Goto(h, "enqueue_insert")
    /\ UNCHANGED <<queues, proc, table, next_pid, cur, scan, call_vars, history>>

(* Fault: only the steal queue gets the process. *)
EnqueueInsertForgotten(h) ==
    /\ pc[h] = "enqueue_insert"
    /\ Goto(h, back[h])
    /\ obj' = [obj EXCEPT ![h] = NoPid]
    /\ UNCHANGED <<queue_vars, proc, table, next_pid, cur, scan, target, back, history>>

EnqueueInsert(h) ==
    /\ pc[h] = "enqueue_insert"
    /\ queues' = [queues EXCEPT ![target[h]] = Insert(@, obj[h], Priority)]
    /\ Goto(h, back[h])
    /\ obj' = [obj EXCEPT ![h] = NoPid]
    /\ UNCHANGED <<steal_queues, proc, table, next_pid, cur, scan, target, back, history>>

----------------------------------------------------------------------------
(* init_services on hart 0, before any hart picks a process *)

Register(p) ==
    /\ table' = table \cup {p}
    /\ next_pid' = next_pid + 1

(* schedule_service: spawn_daemon_on_cpu for the next daemon, pinned. *)
ScheduleService(h) ==
    /\ pc[h] = "boot" /\ h = 0
    /\ next_pid \in Boot
    /\ proc' = [proc EXCEPT ![next_pid] = Process(BootAffinity[next_pid], BootPriority[next_pid], TRUE)]
    /\ Register(next_pid)
    /\ CallEnqueue(h, next_pid, BootAffinity[next_pid], "boot")
    /\ UNCHANGED <<queue_vars, cur, scan, history>>

BootReady(h) ==
    /\ pc[h] = "boot" /\ h = 0
    /\ next_pid = Len(BootAffinity) + 1
    /\ pc' = [g \in Cpus |-> "pick"]
    /\ UNCHANGED <<queue_vars, proc, table, next_pid, cur, scan, call_vars, history>>

----------------------------------------------------------------------------
(* pick_next() *)

(* The steal queue gives up its newest entry, whichever process that is.  A
   steal in between commutes with the dequeue, so both are one step. *)
PickOwn(h) ==
    /\ pc[h] = "pick"
    /\ \E i \in FirstRunnable(queues[h]) :
        /\ cur' = [cur EXCEPT ![h] = queues[h][i]]
        /\ queues' = [queues EXCEPT ![h] = RemoveAt(@, i)]
    /\ steal_queues' = [steal_queues EXCEPT ![h] = PopBack(@)]
    /\ Goto(h, "assign")
    /\ UNCHANGED <<proc, table, next_pid, scan, call_vars, history>>

(* All CPUs from a random start on. *)
Victims(start) == [i \in 1 .. NumCpus |-> (start + i - 1) % NumCpus]

PickNone(h) ==
    /\ pc[h] = "pick"
    /\ FirstRunnable(queues[h]) = {}
    /\ \E start \in Cpus : scan' = [scan EXCEPT ![h] = Victims(start)]
    /\ Goto(h, "scan")
    /\ UNCHANGED <<queue_vars, proc, table, next_pid, cur, call_vars, history>>

(* The thief itself or hart 0, which are skipped; Empty, or Retry when another hart's
   operation made the CAS fail. *)
StealFails(h) ==
    /\ pc[h] = "scan" /\ scan[h] # <<>>
    /\ scan' = [scan EXCEPT ![h] = Tail(@)]
    /\ UNCHANGED <<queue_vars, proc, table, next_pid, pc, cur, call_vars, history>>

Steal(h, label) ==
    /\ pc[h] = "scan" /\ scan[h] # <<>>
    /\ LET v == Head(scan[h])
       IN  /\ v \notin {h, 0}
           /\ steal_queues[v] # <<>>
           /\ Len(queues[v]) < MAX_QUEUE
           /\ cur' = [cur EXCEPT ![h] = Head(steal_queues[v])]
           /\ steal_queues' = [steal_queues EXCEPT ![v] = Tail(@)]
    /\ Goto(h, label)
    /\ UNCHANGED <<queues, proc, table, next_pid, scan, call_vars, history>>

StealFits(h) ==
    /\ Steal(h, "steal_remove")
    /\ CanRunOnCpu(cur'[h], h)

RemoveStolen(h) ==
    /\ pc[h] = "steal_remove"
    /\ queues' = [queues EXCEPT ![Head(scan[h])] = Remove(@, cur[h])]
    /\ scan' = [scan EXCEPT ![h] = <<>>]
    /\ Goto(h, "assign")
    /\ UNCHANGED <<steal_queues, proc, table, next_pid, cur, call_vars, history>>

(* Wrong affinity: back onto both queues, and on to the next victim. *)
StealMisfits(h) ==
    /\ Steal(h, "putback_push")
    /\ ~ CanRunOnCpu(cur'[h], h)

PutBackPush(h) ==
    /\ pc[h] = "putback_push"
    /\ steal_queues' = [steal_queues EXCEPT ![Head(scan[h])] = Append(@, cur[h])]
    /\ Goto(h, "putback_insert")
    /\ UNCHANGED <<queues, proc, table, next_pid, cur, scan, call_vars, history>>

PutBackInsert(h) ==
    /\ pc[h] = "putback_insert"
    /\ queues' = [queues EXCEPT ![Head(scan[h])] = Insert(@, cur[h], Priority)]
    /\ scan' = [scan EXCEPT ![h] = Tail(@)]
    /\ cur' = [cur EXCEPT ![h] = NoPid]
    /\ Goto(h, "scan")
    /\ UNCHANGED <<steal_queues, proc, table, next_pid, call_vars, history>>

(* Nothing found: the hart sleeps until the timer or an IPI wakes it. *)
Idle(h) ==
    /\ pc[h] = "scan" /\ scan[h] = <<>>
    /\ Goto(h, "idle")
    /\ UNCHANGED <<queue_vars, proc, table, next_pid, cur, scan, call_vars, history>>

Wake(h) ==
    /\ pc[h] = "idle"
    /\ Goto(h, "pick")
    /\ UNCHANGED <<queue_vars, proc, table, next_pid, cur, scan, call_vars, history>>

----------------------------------------------------------------------------
(* hart_loop: one tick of the picked process. *)
Assign(h) ==
    /\ pc[h] = "assign"
    /\ SetState(cur[h], "Running")
    /\ Goto(h, "running")
    /\ UNCHANGED <<queue_vars, table, next_pid, cur, scan, call_vars, history>>

(* requeue(): mark_ready, then enqueue on the pinned or the least loaded CPU. *)
DaemonReturns(h) ==
    /\ pc[h] = "running"
    /\ proc[cur[h]].daemon
    /\ SetState(cur[h], "Ready")
    /\ CallEnqueue(h, cur[h],
                   IF proc[cur[h]].affinity = AnyCpu THEN LeastLoaded ELSE proc[cur[h]].affinity,
                   "pick")
    /\ cur' = [cur EXCEPT ![h] = NoPid]
    /\ UNCHANGED <<queue_vars, table, next_pid, scan, history>>

(* exit(pid, 0) of a process without RESTART_ON_EXIT. *)
OneShotReturns(h) ==
    /\ pc[h] = "running"
    /\ ~ proc[cur[h]].daemon
    /\ IF cur[h] \in table THEN SetState(cur[h], "Zombie") ELSE UNCHANGED proc
    /\ finished' = finished \cup {cur[h]}
    /\ cur' = [cur EXCEPT ![h] = NoPid]
    /\ Goto(h, "pick")
    /\ UNCHANGED <<queue_vars, table, next_pid, scan, call_vars, killed>>

----------------------------------------------------------------------------
(* What a tick may call *)

(* spawn_on_cpu(.., Some(cpu)) by start_service: a process, not a daemon. *)
SpawnOnCpu(h, cpu, priority) ==
    /\ pc[h] = "running"
    /\ next_pid \in Pids
    /\ proc' = [proc EXCEPT ![next_pid] = Process(cpu, priority, FALSE)]
    /\ Register(next_pid)
    /\ CallEnqueue(h, next_pid, cpu, "running")
    /\ UNCHANGED <<queue_vars, cur, scan, history>>

(* sys_kill: exit(pid, 9).  A daemon is spawned again, without affinity. *)
ExitOther(h, p) ==
    /\ pc[h] = "running"
    /\ p \in table
    /\ IF proc[p].daemon
       THEN /\ next_pid \in Pids
            /\ proc' = [proc EXCEPT ![p].state = "Zombie",
                                    ![next_pid] = Process(AnyCpu, proc[p].priority, TRUE)]
            /\ Register(next_pid)
            /\ CallEnqueue(h, next_pid, LeastLoaded, "running")
       ELSE /\ SetState(p, "Zombie")
            /\ UNCHANGED <<table, next_pid, pc, call_vars>>
    /\ UNCHANGED <<queue_vars, cur, scan, history>>

(* kill(): mark_exited, then one run queue after the other. *)
Kill(h, p) ==
    /\ pc[h] = "running"
    /\ Cardinality(killed) < MAX_KILLS
    /\ p \in table
    /\ killed' = killed \cup {p}
    /\ SetState(p, "Zombie")
    /\ obj' = [obj EXCEPT ![h] = p]
    /\ target' = [target EXCEPT ![h] = 0]
    /\ Goto(h, "kill_remove")
    /\ UNCHANGED <<queue_vars, table, next_pid, cur, scan, back, finished>>

(* The entry stays in the table when the process is a daemon. *)
KillRemove(h) ==
    /\ pc[h] = "kill_remove"
    /\ queues' = [queues EXCEPT ![target[h]] = Remove(@, obj[h])]
    /\ IF target[h] < NumCpus - 1
       THEN /\ target' = [target EXCEPT ![h] = @ + 1]
            /\ UNCHANGED <<pc, obj, table>>
       ELSE /\ table' = IF proc[obj[h]].daemon THEN table ELSE table \ {obj[h]}
            /\ obj' = [obj EXCEPT ![h] = NoPid]
            /\ Goto(h, "running")
            /\ UNCHANGED target
    /\ UNCHANGED <<steal_queues, proc, next_pid, cur, scan, back, killed, finished>>

(* reap_zombies() in sysmond's tick and at the end of hart 0's loop: zombies that
   do not restart leave the table. *)
ReapZombies(h) ==
    /\ pc[h] = "running" \/ (h = 0 /\ pc[h] = "pick")
    /\ table' = {p \in table : proc[p].state # "Zombie" \/ proc[p].daemon}
    /\ table' # table
    /\ UNCHANGED <<queue_vars, proc, next_pid, pc, cur, scan, call_vars, history>>

----------------------------------------------------------------------------
Pick(h) == PickOwn(h) \/ PickNone(h) \/ StealFails(h) \/ StealFits(h) \/ RemoveStolen(h)
           \/ StealMisfits(h) \/ PutBackPush(h) \/ PutBackInsert(h)

Loop(h) ==
    \/ ScheduleService(h) \/ BootReady(h)
    \/ Pick(h) \/ Idle(h) \/ Wake(h)
    \/ Assign(h) \/ DaemonReturns(h) \/ OneShotReturns(h)
    \/ EnqueuePush(h) \/ EnqueueInsert(h) \/ KillRemove(h)

Calls(h) ==
    \/ \E cpu \in Cpus, p \in Boot : SpawnOnCpu(h, cpu, BootPriority[p])
    \/ \E p \in Pids : ExitOther(h, p) \/ Kill(h, p)
    \/ ReapZombies(h)

Next == \E h \in Cpus : Loop(h) \/ Calls(h)
Spec == Init /\ [][Next]_vars

(* Each hart keeps executing, ticks return ("processes must return promptly"),
   and the timer ends every wfi. *)
FairSpec == Spec /\ \A h \in Cpus : WF_vars(Loop(h))

----------------------------------------------------------------------------
RunningOn(p) == {h \in Cpus : cur[h] = p /\ pc[h] \in {"running", "enqueue_push", "enqueue_insert", "kill_remove"}}
InHand(p) == \E h \in Cpus : cur[h] = p \/ obj[h] = p
Queued(p) == \E c \in Cpus : Contains(queues[c], p)

(* A Ready process is never lost: it is on a run queue, or some hart holds it
   between two queue operations.  kill() during a tick is the exception: it may
   take the entry that the requeue has just made. *)
ReadyIsQueued ==
    \A p \in table \ killed : proc[p].state = "Ready" => Queued(p) \/ InHand(p)

(* "Pinned: MUST go to pinned hart" (sched.rs:397), and "Non-daemon processes are
   one-shot and exit" (mod.rs:128): stale queue entries, steals, put-backs and
   requeues never let a pinned process tick elsewhere or a one-shot process tick
   twice. *)
TicksAreDue ==
    \A p \in Pids :
        /\ proc[p].affinity # AnyCpu => RunningOn(p) \subseteq {proc[p].affinity}
        /\ p \in finished => RunningOn(p) = {}

(* "runs all processes assigned to this hart in round-robin fashion" (mod.rs:75):
   every boot daemon that is not stopped ticks again and again. *)
EveryDaemonTicks ==
    \A p \in Boot : []<>(RunningOn(p) # {} \/ proc[p].state = "Zombie" \/ p \in killed)

=============================================================================
