-------------------------------- MODULE Exec --------------------------------
(***************************************************************************)
(* Running user programs: a command typed at the serial shell (shelld) or  *)
(* into the terminal window (gpuid) becomes a program in U-mode on the     *)
(* hart of the service that read it, and SYS_EXIT brings the hart back to  *)
(* hart_loop on a fresh frame (elf_loader.rs, trap.rs, scripting.rs,       *)
(* uart.rs, gui_cmd.rs, main_screen.rs).  KERNEL_CTX, GUI_CONTEXT and the  *)
(* output capture are single globals shared by all harts.                  *)
(*                                                                         *)
(* The frame a program was started from is never resumed: the service it   *)
(* belonged to lives on only because the exit path queues it again.        *)
(*                                                                         *)
(* Output is abstracted to the set of commands that produced it.  Run      *)
(* queues are the ones of Scheduler without work stealing: services are    *)
(* pinned at boot.                                                         *)
(***************************************************************************)
EXTENDS Integers, Sequences, FiniteSetsExt

CONSTANTS
    Harts,
    Affinities,     \* the ways boot may pin the services to harts
    MAX_COMMANDS    \* bound: commands entered

Services == {"shelld", "gpuid", "gui_cmd"}
Commands == 1 .. MAX_COMMANDS
None == 0
NoCtx == [cmd |-> None, gui |-> FALSE, exited |-> FALSE]
NoResult == {None}

ASSUME ExecAssumption ==
    /\ IsFiniteSet(Harts)
    /\ Affinities \subseteq [Services -> Harts] /\ Affinities # {}
    /\ MAX_COMMANDS \in Nat

VARIABLES
    affinity,       \* hart each service is pinned to
    runq,           \* run queue of each hart
    at, run, cmd,   \* per hart: where it is, its service, its command
    gui,            \* per hart: in_gui_mode, read before KERNEL_CTX is set
    kctx,           \* KERNEL_CTX
    gui_context,    \* GUI_CONTEXT
    gui_running,    \* GUI_CMD_RUNNING
    term_running,   \* TERMINAL_COMMAND_RUNNING
    capture,        \* OUTPUT_CAPTURE
    result,         \* GUI_CMD_RESULT
    line,           \* per command: [by, elf, redirect]
    console, file, terminal,    \* commands whose output each received
    wrote,          \* history: commands that have printed
    gui_exits,      \* history: programs that left by the GUI path
    overlap,        \* history: two commands were in progress at once
    leaked          \* history: a program was started with its output redirected

hart_vars == <<at, run, cmd, gui>>
flag_vars == <<gui_context, gui_running, term_running>>
out_vars == <<console, file, terminal, wrote>>
history == <<gui_exits, overlap, leaked>>
vars == <<affinity, runq, hart_vars, kctx, flag_vars, capture, result, line,
          out_vars, history>>

Goto(h, label) == at' = [at EXCEPT ![h] = label]
Entered == Len(line)
LastGui == {c \in 1 .. Entered : line[c].by = "gpuid"
                               /\ \A d \in c + 1 .. Entered : line[d].by # "gpuid"}

Labels == {"loop", "tick", "line", "install", "after", "user", "check", "exiting",
           "lost", "restore", "complete", "gui_clear", "requeue"}

----------------------------------------------------------------------------
(* hart_loop *)

Priority(p) == IF p = "gui_cmd" THEN 2 ELSE 3       \* Normal and High

InsertAt(q, i, p) == SubSeq(q, 1, i - 1) \o <<p>> \o SubSeq(q, i, Len(q))

(* RunQueue::enqueue: before the first entry of lower priority. *)
Enqueue(q, p) ==
    LET lower == {i \in DOMAIN q : Priority(q[i]) < Priority(p)}
    IN  InsertAt(q, IF lower = {} THEN Len(q) + 1 ELSE Min(lower), p)

RequeueOn(rq, p) == [rq EXCEPT ![affinity[p]] = Enqueue(@, p)]

Pick(h) ==
    /\ at[h] = "loop" /\ runq[h] # <<>>
    /\ run' = [run EXCEPT ![h] = Head(runq[h])]
    /\ runq' = [runq EXCEPT ![h] = Tail(@)]
    /\ Goto(h, "tick")
    /\ UNCHANGED <<affinity, cmd, gui, kctx, flag_vars, capture, result, line,
                   out_vars, history>>

(* The tick returned: hart_loop queues the daemon for its next round. *)
Return(h) ==
    /\ runq' = RequeueOn(runq, run[h])
    /\ run' = [run EXCEPT ![h] = "idle"]
    /\ Goto(h, "loop")

(* Nothing sets GUI_CMD_WORK_AVAILABLE, so gui_cmd returns at once. *)
gui_cmd_service(h) ==
    /\ at[h] = "tick" /\ run[h] = "gui_cmd"
    /\ Return(h)
    /\ UNCHANGED <<affinity, cmd, gui, kctx, flag_vars, capture, result, line,
                   out_vars, history>>

shell_tick_ends(h) ==
    /\ at[h] = "tick" /\ run[h] = "shelld"
    /\ Return(h)
    /\ UNCHANGED <<affinity, cmd, gui, kctx, flag_vars, capture, result, line,
                   out_vars, history>>

(* The last thing a gpuid tick does is to poll for a finished command. *)
check_gui_command_completion ==
    IF term_running /\ result # NoResult
    THEN /\ terminal' = result
         /\ result' = NoResult
         /\ term_running' = FALSE
    ELSE UNCHANGED <<terminal, result, term_running>>

gpuid_tick_ends(h) ==
    /\ at[h] = "tick" /\ run[h] = "gpuid"
    /\ check_gui_command_completion
    /\ Return(h)
    /\ UNCHANGED <<affinity, cmd, gui, kctx, gui_context, gui_running, capture,
                   line, console, file, wrote, history>>

----------------------------------------------------------------------------
(* Entering a command *)

Busy(h) == cmd[h] # None

Begin(h, l) ==
    /\ Entered < MAX_COMMANDS
    /\ line' = Append(line, l)
    /\ cmd' = [cmd EXCEPT ![h] = Entered + 1]
    /\ overlap' = (overlap \/ \E g \in Harts \ {h} : Busy(g))
    /\ Goto(h, "line")

(* Fault: a redirected command keeps what the buffer held. *)
CaptureKept == capture' = [capture EXCEPT !.on = TRUE]

output_capture_start == capture' = [on |-> TRUE, buf |-> {}]

(* handle_enter in shelld: the capture starts before the command is looked up. *)
handle_line(h) ==
    /\ at[h] = "tick" /\ run[h] = "shelld"
    /\ \E elf, redirect \in BOOLEAN :
          /\ Begin(h, [by |-> "shelld", elf |-> elf, redirect |-> redirect])
          /\ IF redirect THEN output_capture_start ELSE UNCHANGED capture
          /\ leaked' = (leaked \/ (elf /\ redirect))
    /\ UNCHANGED <<affinity, runq, run, gui, kctx, flag_vars, result, out_vars,
                   gui_exits>>

terminal_execute_command(h) ==
    /\ at[h] = "tick" /\ run[h] = "gpuid"
    /\ ~gui_running
    /\ \E elf \in BOOLEAN : Begin(h, [by |-> "gpuid", elf |-> elf, redirect |-> FALSE])
    /\ term_running' = TRUE
    /\ gui_context' = TRUE
    /\ gui_running' = TRUE
    /\ output_capture_start
    /\ UNCHANGED <<affinity, runq, run, gui, kctx, result, out_vars, gui_exits, leaked>>

(* out_str: text goes to the capture buffer while anyone is capturing. *)
out_str(c) ==
    /\ wrote' = wrote \cup {c}
    /\ IF capture.on
       THEN capture' = [capture EXCEPT !.buf = @ \cup {c}] /\ UNCHANGED console
       ELSE console' = console \cup {c} /\ UNCHANGED capture

(* Not an ELF file: the error or "not found" message, then back to the caller. *)
execute_command_returns(h) ==
    /\ at[h] = "line" /\ ~line[cmd[h]].elf
    /\ out_str(cmd[h])
    /\ Goto(h, "after")
    /\ UNCHANGED <<affinity, runq, run, cmd, gui, kctx, flag_vars, result, line,
                   file, terminal, history>>

(* What follows execute_command in handle_line, when it returns. *)
handle_line_after(h) ==
    /\ at[h] = "after" /\ run[h] = "shelld"
    /\ IF line[cmd[h]].redirect
       THEN /\ capture' = [capture EXCEPT !.on = FALSE]
            /\ file' = file \cup capture.buf
       ELSE UNCHANGED <<capture, file>>
    /\ cmd' = [cmd EXCEPT ![h] = None]
    /\ Goto(h, "tick")
    /\ UNCHANGED <<affinity, runq, run, gui, kctx, flag_vars, result, line,
                   console, terminal, wrote, history>>

(* Fault: GUI_CONTEXT stays set when the command was not a program. *)
TerminalAfterInContext(h) ==
    /\ at[h] = "after" /\ run[h] = "gpuid"
    /\ capture' = [capture EXCEPT !.on = FALSE]
    /\ gui_running' = FALSE
    /\ terminal' = capture.buf
    /\ term_running' = FALSE
    /\ cmd' = [cmd EXCEPT ![h] = None]
    /\ Goto(h, "tick")
    /\ UNCHANGED <<affinity, runq, run, gui, kctx, gui_context, result, line, console, file,
                   wrote, history>>

(* What follows execute_command in terminal_execute_command, when it returns. *)
terminal_after(h) ==
    /\ at[h] = "after" /\ run[h] = "gpuid"
    /\ capture' = [capture EXCEPT !.on = FALSE]
    /\ gui_context' = FALSE
    /\ gui_running' = FALSE
    /\ terminal' = capture.buf
    /\ term_running' = FALSE
    /\ cmd' = [cmd EXCEPT ![h] = None]
    /\ Goto(h, "tick")
    /\ UNCHANGED <<affinity, runq, run, gui, kctx, result, line, console, file,
                   wrote, history>>

----------------------------------------------------------------------------
(* execute_elf and the system calls of the program *)

read_gui_context(h) ==
    /\ at[h] = "line" /\ line[cmd[h]].elf
    /\ gui' = [gui EXCEPT ![h] = gui_context]
    /\ Goto(h, "install")
    /\ UNCHANGED <<affinity, runq, run, cmd, kctx, flag_vars, capture, result,
                   line, out_vars, history>>

execute_elf(h) ==
    /\ at[h] = "install"
    /\ kctx' = [cmd |-> cmd[h], gui |-> gui[h], exited |-> FALSE]
    /\ gui' = [gui EXCEPT ![h] = FALSE]
    /\ Goto(h, "user")
    /\ UNCHANGED <<affinity, runq, run, cmd, flag_vars, capture, result, line,
                   out_vars, history>>

sys_print(h) ==
    /\ at[h] = "user"
    /\ out_str(cmd[h])
    /\ Goto(h, "check")
    /\ UNCHANGED <<affinity, runq, run, cmd, gui, kctx, flag_vars, result, line,
                   file, terminal, history>>

signal_exit(h) == kctx' = IF kctx # NoCtx THEN [kctx EXCEPT !.exited = TRUE] ELSE kctx

sys_exit(h) ==
    /\ at[h] = "user"
    /\ signal_exit(h)
    /\ Goto(h, "exiting")
    /\ UNCHANGED <<affinity, runq, run, cmd, gui, flag_vars, capture, result, line,
                   out_vars, history>>

(* After every ecall the trap handler asks whether "the" program exited.  A
   program whose exit was not seen spins in the library's exit(). *)
has_exited(h) ==
    /\ at[h] \in {"check", "exiting"}
    /\ Goto(h, IF kctx.exited THEN "restore"
               ELSE IF at[h] = "check" THEN "user" ELSE "lost")
    /\ UNCHANGED <<affinity, runq, run, cmd, gui, kctx, flag_vars, capture, result,
                   line, out_vars, history>>

----------------------------------------------------------------------------
(* restore_kernel_context *)

restore_gui(h) ==
    /\ at[h] = "restore" /\ kctx.gui
    /\ Goto(h, "complete")
    /\ UNCHANGED <<affinity, runq, run, cmd, gui, kctx, flag_vars, capture, result,
                   line, out_vars, history>>

(* Fault: the result of an earlier command that is still there is kept. *)
StoreIfEmpty == result' = IF result = NoResult THEN capture.buf ELSE result

store_result == result' = capture.buf

signal_completion(h) ==
    /\ at[h] = "complete"
    /\ capture' = [capture EXCEPT !.on = FALSE]
    /\ store_result
    /\ gui_running' = FALSE
    /\ gui_context' = FALSE
    /\ Goto(h, "gui_clear")
    /\ UNCHANGED <<affinity, runq, run, cmd, gui, kctx, term_running, line,
                   out_vars, history>>

(* The hart enters hart_loop on a new frame. *)
EnterHartLoop(h) ==
    /\ run' = [run EXCEPT ![h] = "idle"]
    /\ cmd' = [cmd EXCEPT ![h] = None]
    /\ Goto(h, "loop")

(* Fault: the exit path counts on hart_loop to queue gpuid. *)
RequeueGuiForgets == runq' = RequeueOn(runq, "gui_cmd")

(* gpuid is queued, and gui_cmd too, which was in its queue all along. *)
requeue_gui == runq' = RequeueOn(RequeueOn(runq, "gpuid"), "gui_cmd")

restore_gui_clear(h) ==
    /\ at[h] = "gui_clear"
    /\ kctx' = NoCtx
    /\ requeue_gui
    /\ gui_exits' = gui_exits + 1
    /\ EnterHartLoop(h)
    /\ UNCHANGED <<affinity, gui, flag_vars, capture, result, line, out_vars,
                   overlap, leaked>>

restore_shell(h) ==
    /\ at[h] = "restore" /\ ~kctx.gui
    /\ kctx' = NoCtx
    /\ Goto(h, "requeue")
    /\ UNCHANGED <<affinity, runq, run, cmd, gui, flag_vars, capture, result, line,
                   out_vars, history>>

requeue_shell == runq' = RequeueOn(runq, "shelld")

restore_shell_requeue(h) ==
    /\ at[h] = "requeue"
    /\ requeue_shell
    /\ EnterHartLoop(h)
    /\ UNCHANGED <<affinity, gui, kctx, flag_vars, capture, result, line, out_vars,
                   history>>

----------------------------------------------------------------------------
Init ==
    /\ affinity \in Affinities
    /\ runq = RequeueOn(RequeueOn(RequeueOn([h \in Harts |-> <<>>], "shelld"), "gpuid"), "gui_cmd")
    /\ at = [h \in Harts |-> "loop"]
    /\ run = [h \in Harts |-> "idle"]
    /\ cmd = [h \in Harts |-> None]
    /\ gui = [h \in Harts |-> FALSE]
    /\ kctx = NoCtx
    /\ gui_context = FALSE /\ gui_running = FALSE /\ term_running = FALSE
    /\ capture = [on |-> FALSE, buf |-> {}]
    /\ result = NoResult
    /\ line = <<>>
    /\ console = {} /\ file = {} /\ terminal = {} /\ wrote = {}
    /\ gui_exits = 0 /\ overlap = FALSE /\ leaked = FALSE

Kernel(h) ==
    \/ Pick(h) \/ gui_cmd_service(h) \/ shell_tick_ends(h) \/ gpuid_tick_ends(h)
    \/ execute_command_returns(h) \/ handle_line_after(h) \/ terminal_after(h)
    \/ read_gui_context(h) \/ execute_elf(h) \/ has_exited(h)
    \/ restore_gui(h) \/ signal_completion(h) \/ restore_gui_clear(h)
    \/ restore_shell(h) \/ restore_shell_requeue(h)

User(h) == handle_line(h) \/ terminal_execute_command(h) \/ sys_print(h)

Next == \E h \in Harts : Kernel(h) \/ User(h) \/ sys_exit(h)

(* A hart keeps executing the kernel, and a program exits some day: whether
   it prints again first is up to it, so its exit is strongly fair. *)
Fairness == \A h \in Harts : WF_vars(Kernel(h)) /\ SF_vars(sys_exit(h))

Spec == Init /\ [][Next]_vars /\ Fairness

----------------------------------------------------------------------------
(* Properties *)

Queued(p) == {i \in DOMAIN runq[affinity[p]] : runq[affinity[p]][i] = p}
Runners(p) == {h \in Harts : run[h] = p}

(* When the terminal is not waiting, it shows exactly what the last command
   entered in it printed, whatever ran before and whether that command was a
   program (result polled by gpuid) or not (output shown at once); unless
   commands overlapped. *)
TerminalShowsLastCommand ==
    ~overlap /\ ~term_running => terminal = LastGui \cap wrote

(* What a shell command prints reaches the console, or the capture and then
   the file when it is redirected, and nothing else reaches the file.  Two
   exceptions: commands that overlapped, and a program started with its output
   redirected, whose capture nobody ends and which swallows what later commands
   print (handle_line does not get control back from a program). *)
ShellOutputArrives ==
    ~overlap /\ ~leaked =>
        /\ \A c \in file : line[c].by = "shelld" /\ line[c].redirect
        /\ \A c \in wrote : line[c].by = "shelld" =>
              IF ~line[c].redirect THEN c \in console
              ELSE c \in file \ console \/ (capture.on /\ c \in capture.buf)

(* KERNEL_CTX belongs to the program on the hart: unless commands overlapped,
   a program in U-mode finds its own context installed, with the mode of the
   service that started it, and a hart in the exit path is the one whose
   program exited. *)
ContextIsMine ==
    ~overlap => \A h \in Harts :
        at[h] \in {"user", "check", "exiting", "restore", "complete", "gui_clear"} =>
            /\ kctx.cmd = cmd[h]
            /\ kctx.gui = (run[h] = "gpuid")

(* No program takes its service away and none is queued twice: unless commands
   overlapped, the shell and the GUI service each exist exactly once, in their queue
   or on their hart; the exit path queues the service whose frame the program replaced
   (restore_kernel_context). *)
Once(p) ==
    \/ Runners(p) = {} /\ \E i \in Queued(p) : Queued(p) = {i}
    \/ Queued(p) = {} /\ \E h \in Runners(p) : Runners(p) = {h}
ServicesKept == ~overlap => Once("shelld") /\ Once("gpuid")

(* The services are kept, and unless commands overlapped the shell and the GUI service
   are in their queues again and again.  gui_cmd is never the one that was replaced, yet
   each exit by the GUI path queues it too: there is one more copy of it per program run
   from the terminal. *)
ServicesReturn ==
    /\ [](~overlap => Once("shelld") /\ Once("gpuid"))
    /\ [](Cardinality(Queued("gui_cmd")) + Cardinality(Runners("gui_cmd")) = 1 + gui_exits)
    /\ \A p \in {"shelld", "gpuid"} : []<>(overlap \/ Queued(p) # {})
=============================================================================
