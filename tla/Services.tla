------------------------------ MODULE Services ------------------------------
(***************************************************************************)
(* System services (kernel/src/init.rs, boot/services.rs): the table of    *)
(* services, the processes behind it, the programs that start, stop,       *)
(* restart and kill them from several harts at once, and the log that      *)
(* klogd and sysmond fill and hart 0 flushes (services/klogd.rs,           *)
(* services/sysmond.rs).  Run queues are plain queues here; priorities and *)
(* stealing are in Scheduler.                                              *)
(***************************************************************************)
EXTENDS Harts

CONSTANTS
    Boot,               \* the daemons init_services schedules, [name, hart] each
    Targets,            \* services the programs name
    LOG_BUFFER_SIZE,
    MAX_PID,            \* bound: processes
    MAX_WORK            \* bound: work begun, a program counting one and a log line two

Pids == 1 .. MAX_PID
AnyHart == -1
Names == {Boot[i].name : i \in DOMAIN Boot}
Daemons == {"klogd", "sysmond"}         \* the ones that log
Shells == {"shelld", "gui_cmd"}         \* the ones that run programs
Idle == [op |-> "none", name |-> "", pid |-> NoPid, again |-> FALSE]

ASSUME ServicesAssumption ==
    /\ Targets \subseteq Names
    /\ LOG_BUFFER_SIZE \in Nat \ {0}
    /\ \A i \in DOMAIN Boot : Boot[i].hart \in HartIds
    /\ MAX_PID >= Len(Boot) + MAX_WORK         \* a program spawns at most once

VARIABLES
    queue,              \* per hart: run queue
    proc,               \* [name, state, daemon, home] of each pid
    table,              \* PROCESS_TABLE
    next_pid,
    services,           \* INIT_STATE: [status, pid] of each service
    cur,                \* per hart: the process that ticks
    did_work,           \* hart 0: this round ran a process
    call,               \* per hart: the control call in progress
    calls,              \* history: programs run
    buffer, hand, file, \* SIMPLE_LOG_BUFFER, lines drained by a flush, the log files
    lines, dropped,     \* history: lines queued, and those a full buffer lost
    killed              \* history: services whose process sched::kill hit

proc_vars == <<queue, proc, table, next_pid>>
call_vars == <<services, call, calls, killed>>
log_vars == <<buffer, hand, file, lines, dropped>>
vars == <<hart_vars, proc_vars, cur, did_work, call_vars, log_vars>>

Init ==
    /\ HartsInit
    /\ queue = [h \in HartIds |-> <<>>]
    /\ proc = [p \in Pids |-> [name |-> "", state |-> "Created", daemon |-> FALSE, home |-> AnyHart]]
    /\ table = {} /\ next_pid = 1
    /\ services = [n \in Names |-> [status |-> "none", pid |-> NoPid]]
    /\ cur = [h \in HartIds |-> NoPid] /\ did_work = FALSE
    /\ call = [h \in HartIds |-> Idle] /\ calls = 0
    /\ buffer = <<>> /\ hand = <<>> /\ file = [d \in Daemons |-> <<>>]
    /\ lines = 0 /\ dropped = {}
    /\ killed = {}

Work == calls + 2 * lines

----------------------------------------------------------------------------
(* Processes *)

(* Fault: the hart that gets the process is not woken. *)
send_nothing(h, target) == msip

(* enqueue(): another hart is woken. *)
send_ipi(h, target) == IF target = h THEN msip ELSE RaiseMsip(target)

(* find_least_loaded_cpu, once every hart is online: the first ready secondary
   hart without work, else the last of the least loaded. *)
find_least_loaded_cpu ==
    LET idle == {h \in Secondary : ready[h] /\ queue[h] = <<>>}
    IN  IF idle # {}
        THEN Min(idle)
        ELSE Max({h \in HartIds : \A g \in HartIds : Len(queue[h]) <= Len(queue[g])})

(* NEXT_PID only grows. *)
allocate_pid == next_pid

(* spawn_on_cpu and spawn_daemon_on_cpu, enqueue included. *)
spawn(h, name, daemon, affinity) ==
    LET p == allocate_pid
        target == IF affinity = AnyHart THEN find_least_loaded_cpu ELSE affinity
    IN  /\ next_pid' = next_pid + 1
        /\ proc' = [proc EXCEPT ![p] =
               [name |-> name, state |-> "Ready", daemon |-> daemon, home |-> affinity]]
        /\ table' = table \cup {p}
        /\ queue' = [queue EXCEPT ![target] = Append(@, p)]
        /\ msip' = send_ipi(h, target)

----------------------------------------------------------------------------
(* init_services on hart 0 *)

register_service(name, p) == services' = [services EXCEPT ![name] = [status |-> "Running", pid |-> p]]

schedule_service ==
    /\ at[0] = "services"
    /\ \E i \in DOMAIN Boot :
        /\ services[Boot[i].name].status = "none"
        /\ \A j \in 1 .. i - 1 : services[Boot[j].name].status # "none"
        /\ spawn(0, Boot[i].name, TRUE, Boot[i].hart)
        /\ register_service(Boot[i].name, allocate_pid)
    /\ UNCHANGED <<at, timer, cpu, boot_vars, cur, did_work, call, calls, killed, log_vars>>

(* write_boot_log replaces kernel.log; then the init scripts run. *)
write_boot_log ==
    /\ at[0] = "services"
    /\ \A n \in Names : services[n].status # "none"
    /\ file' = [file EXCEPT !["klogd"] = <<>>]
    /\ Goto(0, "script")
    /\ UNCHANGED <<machine, proc_vars, cur, did_work, call_vars, buffer, hand, lines, dropped>>

(* run_init_scripts: none, or the first WASM script, which may call as any
   program. *)
run_init_scripts ==
    /\ at[0] = "script"
    /\ Goto(0, "boot_ready")
    /\ UNCHANGED <<machine, proc_vars, cur, did_work, call_vars, log_vars>>

----------------------------------------------------------------------------
(* hart_loop *)
RoundEnds == IF did_work THEN "loop" ELSE "no_work"
PeriodicOrLoop(h) == IF h = 0 THEN "flush" ELSE "loop"

(* The first Ready entry of its own queue, else one without affinity from another
   secondary hart. *)
Candidates(h) ==
    LET own == SelectSeq(queue[h], LAMBDA p : proc[p].state = "Ready")
        others == {p \in Pids : /\ proc[p].state = "Ready" /\ proc[p].home = AnyHart
                                /\ \E v \in Secondary \ {h} : Contains(queue[v], p)}
    IN  IF own # <<>> THEN {Head(own)} ELSE others

pick_next(h) ==
    /\ at[h] = "loop" /\ flag.active
    /\ \E p \in Candidates(h) :
        /\ queue' = [v \in HartIds |-> RemoveFirst(queue[v], p)]
        /\ proc' = [proc EXCEPT ![p].state = "Running"]                     \* mark_running
        /\ cur' = [cur EXCEPT ![h] = p]
        /\ assign_process(h, p)
    /\ Goto(h, "tick")
    /\ UNCHANGED <<msip, timer, boot_vars, table, next_pid, did_work, call_vars, log_vars>>

pick_nothing(h) ==
    /\ at[h] = "loop"
    /\ Candidates(h) = {}
    /\ Goto(h, IF h = 0 THEN "flush" ELSE "no_work")
    /\ did_work' = IF h = 0 THEN FALSE ELSE did_work
    /\ UNCHANGED <<machine, proc_vars, cur, call_vars, log_vars>>

(* The tick returned: clear_process, then requeue() or exit(). *)
tick_returns(h) ==
    /\ at[h] \in {"tick", "ticked"}
    /\ LET p == cur[h]
           target == IF proc[p].home = AnyHart THEN find_least_loaded_cpu ELSE proc[p].home
       IN  IF proc[p].daemon
           THEN /\ proc' = [proc EXCEPT ![p].state = "Ready"]
                /\ queue' = [queue EXCEPT ![target] = Append(@, p)]
                /\ msip' = send_ipi(h, target)
           ELSE /\ proc' = IF p \in table THEN [proc EXCEPT ![p].state = "Zombie"] ELSE proc
                /\ UNCHANGED <<msip, queue>>
    /\ cur' = [cur EXCEPT ![h] = NoPid]
    /\ clear_process(h)
    /\ did_work' = IF h = 0 THEN TRUE ELSE did_work
    /\ Goto(h, PeriodicOrLoop(h))
    /\ UNCHANGED <<timer, boot_vars, table, next_pid, call_vars, log_vars>>

----------------------------------------------------------------------------
(* The log *)

(* SimpleLogBuffer::push: a full buffer drops its oldest line. *)
push(line) ==
    LET full == Len(buffer) >= LOG_BUFFER_SIZE
    IN  /\ buffer' = Append(IF full THEN Tail(buffer) ELSE buffer, line)
        /\ dropped' = IF full THEN dropped \cup {Head(buffer)} ELSE dropped

(* Five seconds for klogd and ten for sysmond have passed, by the clock of the hart
   that asks; hart 0 and the daemon may get the same answer. *)
PeriodOver == Work + 2 <= MAX_WORK

(* Hart 0 also calls klogd_tick and sysmond_tick, in this order, each round: where it
   goes when those of the set ds are left. *)
AfterPeriodic(ds) == {RoundEnds} \cup (IF PeriodOver THEN ds ELSE {})

(* The dead that nobody will restart *)
Reaped == {p \in table : proc[p].state = "Zombie" /\ ~ proc[p].daemon}

(* queue_log by a tick whose time has come, in the process of the daemon (klogd_service,
   sysmond_service) or in hart 0's round, where the ticks of rest are still to come. *)
queue_log(h, d, rest) ==
    /\ \/ /\ at[h] = "tick" /\ proc[cur[h]].name = d /\ PeriodOver
          /\ Goto(h, "ticked")
       \/ /\ at[h] = d
          /\ \E l \in AfterPeriodic(rest) : Goto(h, l)
    /\ lines' = lines + 1
    /\ push([n |-> lines + 1, to |-> d])
    /\ UNCHANGED <<machine, queue, proc, next_pid, cur, did_work, call_vars, hand, file>>

klogd_tick(h) == queue_log(h, "klogd", {"sysmond"}) /\ UNCHANGED table

(* The first run only logs; the others reap_zombies. *)
sysmond_tick(h) == queue_log(h, "sysmond", {}) /\ table' \in {table, table \ Reaped}

----------------------------------------------------------------------------
(* Hart 0's periodic tasks *)

(* Fault: the buffer keeps what was drained. *)
flush_keeps ==
    /\ at[0] = "flush"
    /\ hand' = buffer
    /\ \E l \in IF buffer = <<>> THEN AfterPeriodic(Daemons) ELSE {"flush_write"} : Goto(0, l)
    /\ UNCHANGED <<machine, proc_vars, cur, did_work, call_vars, buffer, file, lines, dropped>>

flush_drain ==
    /\ at[0] = "flush"
    /\ hand' = buffer
    /\ buffer' = <<>>
    /\ \E l \in IF buffer = <<>> THEN AfterPeriodic(Daemons) ELSE {"flush_write"} : Goto(0, l)
    /\ UNCHANGED <<machine, proc_vars, cur, did_work, call_vars, file, lines, dropped>>

(* Read, append and write each file under both locks, then sync. *)
flush_write ==
    /\ at[0] = "flush_write"
    /\ file' = [d \in Daemons |-> file[d] \o SelectSeq(hand, LAMBDA l : l.to = d)]
    /\ hand' = <<>>
    /\ \E l \in AfterPeriodic(Daemons) : Goto(0, l)
    /\ UNCHANGED <<machine, proc_vars, cur, did_work, call_vars, buffer, lines, dropped>>

----------------------------------------------------------------------------
(* Programs: service and kill, run in a tick of a shell or by an init script. *)
Program(h) ==
    /\ \/ at[h] = "tick" /\ proc[cur[h]].name \in Shells
       \/ at[h] = "script"
    /\ Work + 1 <= MAX_WORK
    /\ calls' = calls + 1

Call(h, op, name, p, again, label) ==
    /\ call' = [call EXCEPT ![h] = [op |-> op, name |-> name, pid |-> p, again |-> again]]
    /\ Goto(h, label)

Return(h) ==
    /\ call' = [call EXCEPT ![h] = Idle]
    /\ Goto(h, IF cur[h] = NoPid THEN "boot_ready" ELSE "tick")

(* service start, stop and restart; restart stops first and ignores the result. *)
service(h) ==
    /\ Program(h)
    /\ \E n \in Targets :
        \/ Call(h, "start", n, NoPid, FALSE, "start_check")
        \/ Call(h, "stop", n, NoPid, FALSE, "stop_check")
        \/ Call(h, "stop", n, NoPid, TRUE, "stop_check")
    /\ UNCHANGED <<machine, proc_vars, cur, did_work, services, killed, log_vars>>

(* kill: a native program calls sys_kill, a WASM one the other function. *)
kill(h) ==
    /\ Program(h)
    /\ \E p \in 1 .. next_pid - 1 :
        /\ proc[p].name \in Targets
        /\ \/ Call(h, "kill", "", p, FALSE, "exit")
           \/ p # 1 /\ Call(h, "kill", "", p, FALSE, "kill")
    /\ UNCHANGED <<machine, proc_vars, cur, did_work, services, killed, log_vars>>

----------------------------------------------------------------------------
(* start_service *)
start_check(h) ==
    /\ at[h] = "start_check"
    /\ IF services[call[h].name].status = "Running"
       THEN Return(h)
       ELSE Goto(h, "start_spawn") /\ UNCHANGED call
    /\ UNCHANGED <<machine, proc_vars, cur, did_work, services, calls, killed, log_vars>>

HomeOf(name) == Boot[CHOOSE i \in DOMAIN Boot : Boot[i].name = name].hart

(* A process, not a daemon; the lock of the table is not held. *)
start_spawn(h) ==
    /\ at[h] = "start_spawn"
    /\ spawn(h, call[h].name, FALSE, HomeOf(call[h].name))
    /\ call' = [call EXCEPT ![h].pid = allocate_pid]
    /\ Goto(h, "start_register")
    /\ UNCHANGED <<timer, cpu, boot_vars, cur, did_work, services, calls, killed, log_vars>>

start_register(h) ==
    /\ at[h] = "start_register"
    /\ register_service(call[h].name, call[h].pid)
    /\ Return(h)
    /\ msip' = IF HomeOf(call[h].name) = 0 THEN msip ELSE RaiseMsip(HomeOf(call[h].name))
    /\ UNCHANGED <<timer, cpu, boot_vars, proc_vars, cur, did_work, calls, killed, log_vars>>

----------------------------------------------------------------------------
(* stop_service *)
StopReturns(h) ==
    IF call[h].again
    THEN Call(h, "start", call[h].name, NoPid, FALSE, "start_check")
    ELSE Return(h)

stop_check(h) ==
    /\ at[h] = "stop_check"
    /\ LET s == services[call[h].name]
       IN  IF s.status # "Running"
           THEN StopReturns(h)
           ELSE Call(h, "stop", call[h].name, s.pid, call[h].again, "kill")
    /\ UNCHANGED <<machine, proc_vars, cur, did_work, services, calls, killed, log_vars>>

Stopped == [status |-> "Stopped", pid |-> NoPid]

mark_service_stopped(h) ==
    /\ at[h] = "stop_mark"
    /\ services' = [services EXCEPT ![call[h].name] = Stopped]
    /\ StopReturns(h)
    /\ UNCHANGED <<machine, proc_vars, cur, did_work, calls, killed, log_vars>>

(* sched::kill, from stop_service or the WASM kill: mark_exited if the pid is in
   the table. *)
AfterKill(h, found) ==
    IF call[h].op = "stop" THEN Goto(h, "stop_mark") /\ UNCHANGED call
    ELSE IF found THEN Return(h)
    ELSE Goto(h, "stop_by_pid") /\ UNCHANGED call

sched_kill(h) ==
    /\ at[h] = "kill"
    /\ IF call[h].pid \in table
       THEN /\ proc' = [proc EXCEPT ![call[h].pid].state = "Zombie"]
            /\ killed' = killed \cup {proc[call[h].pid].name}
            /\ Goto(h, "kill_remove") /\ UNCHANGED call
       ELSE /\ AfterKill(h, FALSE)
            /\ UNCHANGED <<proc, killed>>
    /\ UNCHANGED <<machine, queue, table, next_pid, cur, did_work, services, calls, log_vars>>

(* Off the run queues, and out of the table unless it is a daemon. *)
sched_kill_remove(h) ==
    /\ at[h] = "kill_remove"
    /\ queue' = [v \in HartIds |-> RemoveFirst(queue[v], call[h].pid)]
    /\ table' = IF proc[call[h].pid].daemon THEN table ELSE table \ {call[h].pid}
    /\ AfterKill(h, TRUE)
    /\ UNCHANGED <<machine, proc, next_pid, cur, did_work, services, calls, killed, log_vars>>

stop_service_by_pid(h) ==
    /\ at[h] = "stop_by_pid"
    /\ services' = [n \in Names |->
           IF services[n] = [status |-> "Running", pid |-> call[h].pid] THEN Stopped ELSE services[n]]
    /\ Return(h)
    /\ UNCHANGED <<machine, proc_vars, cur, did_work, calls, killed, log_vars>>

----------------------------------------------------------------------------
(* sys_kill: Scheduler::exit, which restarts a daemon without affinity. *)
exit(h) ==
    /\ at[h] = "exit"
    /\ IF call[h].pid \in table
       THEN /\ proc' = [proc EXCEPT ![call[h].pid].state = "Zombie"]
            /\ IF proc[call[h].pid].daemon
               THEN Goto(h, "respawn") /\ UNCHANGED call
               ELSE Return(h)
       ELSE Return(h) /\ UNCHANGED proc
    /\ UNCHANGED <<machine, queue, table, next_pid, cur, did_work, services, calls, killed,
                   log_vars>>

(* Fault: what is spawned in its place is an ordinary process. *)
respawn_process(h) ==
    /\ at[h] = "respawn"
    /\ spawn(h, proc[call[h].pid].name, FALSE, AnyHart)
    /\ Return(h)
    /\ UNCHANGED <<timer, cpu, boot_vars, cur, did_work, services, calls, killed, log_vars>>

respawn(h) ==
    /\ at[h] = "respawn"
    /\ spawn(h, proc[call[h].pid].name, TRUE, AnyHart)
    /\ Return(h)
    /\ UNCHANGED <<timer, cpu, boot_vars, cur, did_work, services, calls, killed, log_vars>>

----------------------------------------------------------------------------
Booting ==
    /\ \/ init_cpu \/ cpu_init \/ init_complete \/ sched_init \/ boot_ready
       \/ \E h \in Secondary : secondary_hart_park(h) \/ secondary_hart_entry(h) \/ secondary_hart_join(h)
    /\ UNCHANGED <<proc_vars, cur, did_work, call_vars, log_vars>>

Sleeping(h) ==
    /\ check_msip(h) \/ wfi(h)
    /\ UNCHANGED <<proc_vars, cur, did_work, call_vars, log_vars>>

Interrupt(h) ==
    /\ handle_software_interrupt(h) \/ handle_timer_interrupt(h)
    /\ UNCHANGED <<proc_vars, cur, did_work, call_vars, log_vars>>

Periodic == flush_drain \/ flush_write

Control(h) ==
    \/ start_check(h) \/ start_spawn(h) \/ start_register(h)
    \/ stop_check(h) \/ mark_service_stopped(h)
    \/ sched_kill(h) \/ sched_kill_remove(h) \/ stop_service_by_pid(h)
    \/ exit(h) \/ respawn(h)

Loop(h) ==
    \/ pick_next(h) \/ pick_nothing(h) \/ tick_returns(h)
    \/ klogd_tick(h) \/ sysmond_tick(h)
    \/ Sleeping(h) \/ Interrupt(h) \/ Control(h)

Boots == Booting \/ schedule_service \/ write_boot_log \/ run_init_scripts
Programs == \E h \in HartIds : service(h) \/ kill(h)

Next == Boots \/ Periodic \/ (\E h \in HartIds : Loop(h)) \/ Programs

(* Every hart executes, and its timer fires: ticks return promptly. *)
Spec ==
    /\ Init /\ [][Next]_vars
    /\ WF_vars(Boots)
    /\ \A h \in HartIds : WF_vars((h = 0 /\ Periodic) \/ Loop(h))

----------------------------------------------------------------------------
(* "we must not enter hart_loop until init_main() finishes" (cpu/mod.rs:263): no
   process ticks before the last service is scheduled, although INIT_COMPLETE is
   raised earlier and IPIs wake the harts while hart 0 boots. *)
NoTickBeforeBoot == (\E h \in HartIds : cur[h] # NoPid) => flag.boot_ready

(* Every queued line is in a log file, on its way there or still in the buffer,
   in the order it was queued and once, unless a full buffer dropped it: the
   klogd daemon and hart 0 log at the same time, and hart 0 flushes. *)
LogInOrder ==
    LET logged(d) == file[d] \o SelectSeq(hand \o buffer, LAMBDA l : l.to = d)
    IN  /\ \A d \in Daemons : \A i, j \in DOMAIN logged(d) : i < j => logged(d)[i].n < logged(d)[j].n
        /\ \A n \in 1 .. lines :
            \/ \E l \in dropped : l.n = n
            \/ \E d \in Daemons : \E i \in DOMAIN logged(d) : logged(d)[i].n = n

(* "If daemon with restart, let it restart" (sched.rs:489): a boot service that
   nobody stopped keeps a live daemon through every sys_kill. *)
DaemonSurvivesKill ==
    \A n \in Targets \ killed :
        services[n].status # "none" =>
            \/ \E p \in table : proc[p].name = n /\ proc[p].daemon /\ proc[p].state # "Zombie"
            \/ \E h \in HartIds : at[h] = "respawn" /\ proc[call[h].pid].name = n

(* No hart has a process waiting on its run queue for ever, it picks one: an IPI that is taken
   between the last look at the queue and wfi is made up for by the timer, and at
   boot the IPI of its first process starts the hart. *)
QueuedIsPicked ==
    \A h \in HartIds :
        LET Waiting == \E i \in DOMAIN queue[h] : proc[queue[h][i]].state = "Ready"
        IN  []<>(cur[h] # NoPid \/ ~ Waiting)
=============================================================================
