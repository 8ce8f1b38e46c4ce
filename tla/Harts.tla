-------------------------------- MODULE Harts --------------------------------
(***************************************************************************)
(* How the harts come up and go to sleep (kernel/src/boot/, cpu/mod.rs,    *)
(* trap.rs).  Hart 0 runs init_boot; the others park until an IPI, wait    *)
(* for BOOT_READY and INIT_COMPLETE, and enter the same hart_loop.  A hart *)
(* without work sleeps in wfi until its timer or an IPI traps.             *)
(***************************************************************************)
EXTENDS Integers, Sequences, FiniteSets, FiniteSetsExt, SequencesExt

CONSTANTS NumHarts

HartIds == 0 .. NumHarts - 1
Secondary == HartIds \ {0}
NoPid == 0

ASSUME HartsAssumption == NumHarts \in Nat \ {0}

VARIABLES
    at,             \* per hart: where it is
    msip,           \* per hart: software interrupt pending
    timer,          \* per hart: its next timer interrupt is scheduled
    cpu,            \* CPU_TABLE: [state, pid] per hart
    flag,           \* BOOT_READY, INIT_COMPLETE and the scheduler's active flag
    ready,          \* HART_READY
    harts_online    \* HARTS_ONLINE

boot_vars == <<flag, ready, harts_online>>
machine == <<msip, timer, cpu, boot_vars>>
hart_vars == <<at, machine>>

(* hart_start brings up harts that are off; harts that firmware left running have
   parked themselves already. *)
HartsInit ==
    /\ \E start \in {"off", "park"} :
        at = [h \in HartIds |-> IF h = 0 THEN "init_cpu" ELSE start]            \* mp_hook
    /\ msip = [h \in HartIds |-> FALSE]
    /\ timer = [h \in HartIds |-> FALSE]
    /\ cpu = [h \in HartIds |-> [state |-> "Offline", pid |-> NoPid]]
    /\ flag = [boot_ready |-> FALSE, init_complete |-> FALSE, active |-> FALSE]
    /\ ready = [h \in HartIds |-> FALSE]
    /\ harts_online = 0

(* A hart in its loop has interrupts on and takes an IPI at once; where that makes no
   difference to what it does next, the interrupt is not kept pending. *)
RaiseMsip(h) ==
    [msip EXCEPT ![h] = at[h] \in {"off", "park", "no_work", "before_wfi", "asleep"}]

(* Entries of CPU_TABLE *)
bring_online(h) == [cpu[h] EXCEPT !.state = "Online"]
assign_process(h, p) == cpu' = [cpu EXCEPT ![h] = [state |-> "Running", pid |-> p]]
clear_process(h) == cpu' = [cpu EXCEPT ![h] = [state |-> "Idle", pid |-> NoPid]]

Goto(h, label) == at' = [at EXCEPT ![h] = label]

----------------------------------------------------------------------------
(* init_cpu on hart 0.  hart_start fails for a running hart, which gets an IPI
   instead. *)
init_cpu ==
    /\ at[0] = "init_cpu"
    /\ harts_online' = harts_online + 1
    /\ at' = [h \in HartIds |-> IF h = 0 THEN "cpu_table" ELSE "park"]
    /\ msip' = [h \in HartIds |-> at[h] = "park"]
    /\ UNCHANGED <<timer, cpu, flag, ready>>

(* cpu::init marks every expected hart online, though only hart 0 is. *)
cpu_init ==
    /\ at[0] = "cpu_table"
    /\ cpu' = [h \in HartIds |-> bring_online(h)]
    /\ Goto(0, "init_complete")
    /\ UNCHANGED <<msip, timer, boot_vars>>

(* INIT_COMPLETE is raised before the scheduler runs; BOOT_READY holds the
   secondary harts back. *)
init_complete ==
    /\ at[0] = "init_complete"
    /\ flag' = [flag EXCEPT !.init_complete = TRUE]
    /\ Goto(0, "sched_init")
    /\ UNCHANGED <<msip, timer, cpu, ready, harts_online>>

sched_init ==
    /\ at[0] = "sched_init"
    /\ flag' = [flag EXCEPT !.active = TRUE]
    /\ timer' = [timer EXCEPT ![0] = TRUE]                                      \* trap::init
    /\ Goto(0, "services")
    /\ UNCHANGED <<msip, cpu, ready, harts_online>>

(* The end of init_boot, and hart 0 enters its loop. *)
boot_ready ==
    /\ at[0] = "boot_ready"
    /\ flag' = [flag EXCEPT !.boot_ready = TRUE]
    /\ ready' = [ready EXCEPT ![0] = TRUE]
    /\ Goto(0, "loop")
    /\ UNCHANGED <<msip, timer, cpu, harts_online>>

----------------------------------------------------------------------------
(* Secondary harts *)
secondary_hart_park(h) ==
    /\ at[h] = "park" /\ msip[h]
    /\ msip' = [msip EXCEPT ![h] = FALSE]
    /\ Goto(h, "wait_boot")
    /\ UNCHANGED <<timer, cpu, boot_vars>>

(* Fault: the hart does not wait for the boot to finish. *)
entry_no_wait(h) ==
    /\ at[h] = "wait_boot"
    /\ harts_online' = harts_online + 1
    /\ Goto(h, "wait_init")
    /\ UNCHANGED <<msip, timer, cpu, flag, ready>>

secondary_hart_entry(h) ==
    /\ at[h] = "wait_boot"
    /\ flag.boot_ready
    /\ harts_online' = harts_online + 1
    /\ Goto(h, "wait_init")
    /\ UNCHANGED <<msip, timer, cpu, flag, ready>>

secondary_hart_join(h) ==
    /\ at[h] = "wait_init"
    /\ flag.init_complete
    /\ cpu' = [cpu EXCEPT ![h] = bring_online(h)]
    /\ timer' = [timer EXCEPT ![h] = TRUE]                                      \* trap::init
    /\ ready' = [ready EXCEPT ![h] = TRUE]
    /\ Goto(h, "loop")
    /\ UNCHANGED <<msip, flag, harts_online>>

----------------------------------------------------------------------------
(* The end of a round of hart_loop that found no work *)
(* A pending IPI is cleared and the round starts over; else the hart goes on to
   sleep.  An IPI may arrive, and be taken, before it does. *)
check_msip(h) ==
    /\ at[h] = "no_work"
    /\ IF msip[h]
       THEN msip' = [msip EXCEPT ![h] = FALSE] /\ Goto(h, "loop")
       ELSE UNCHANGED msip /\ Goto(h, "before_wfi")
    /\ UNCHANGED <<timer, cpu, boot_vars>>

wfi(h) ==
    /\ at[h] = "before_wfi"
    /\ Goto(h, "asleep")
    /\ UNCHANGED <<msip, timer, cpu, boot_vars>>

(* The trap ends a wfi; elsewhere the interrupted code goes on. *)
ReturnFromTrap(h) == at' = IF at[h] = "asleep" THEN [at EXCEPT ![h] = "loop"] ELSE at

handle_software_interrupt(h) ==
    /\ at[h] \in {"no_work", "before_wfi", "asleep"} /\ msip[h]
    /\ msip' = [msip EXCEPT ![h] = FALSE]                                       \* clear_ipi
    /\ ReturnFromTrap(h)
    /\ UNCHANGED <<timer, cpu, boot_vars>>

(* The timer fires and is set again.  Only a sleeping hart notices: the yield flag
   it raises is not read by hart_loop. *)
handle_timer_interrupt(h) ==
    /\ timer[h] /\ at[h] = "asleep"
    /\ ~ msip[h]                                \* the software interrupt goes first
    /\ timer' = [timer EXCEPT ![h] = TRUE]                                      \* schedule_timer_interrupt
    /\ ReturnFromTrap(h)
    /\ UNCHANGED <<msip, cpu, boot_vars>>
=============================================================================
