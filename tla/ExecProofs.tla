----------------------------- MODULE ExecProofs -----------------------------
(***************************************************************************)
(* Theorems about Exec, for any number of harts, any placement of the      *)
(* services and any number of commands.                                    *)
(***************************************************************************)
EXTENDS Exec, TLAPS, WellFoundedInduction

(***************************************************************************)
(* Run queues                                                              *)
(***************************************************************************)

(* The least element of a set of numbers. *)
LEMMA LeastOf ==
    ASSUME NEW S, S \subseteq Nat, S # {}
    PROVE  Min(S) \in S
  <1>1. PICK x \in S : \A y \in S : ~ (<<y, x>> \in OpToRel(<, Nat))
    BY NatLessThanWellFounded, WFMin, Zenon
  <1>2. \A y \in S : ~ (y < x)
    BY <1>1, Zenon DEF OpToRel
  <1>3. \A y \in S : x <= y
    BY <1>2
  <1> QED
    BY <1>3, Zenon DEF Min

(* Inserting an entry moves the later ones up by one. *)
LEMMA Inserted ==
    ASSUME NEW S, NEW q \in Seq(S), NEW e \in S, NEW i \in 1 .. Len(q) + 1
    PROVE  /\ InsertAt(q, i, e) \in Seq(S)
           /\ Len(InsertAt(q, i, e)) = Len(q) + 1
           /\ InsertAt(q, i, e)[i] = e
           /\ \A k \in 1 .. i - 1 : InsertAt(q, i, e)[k] = q[k]
           /\ \A k \in i .. Len(q) : InsertAt(q, i, e)[k + 1] = q[k]
  <1> DEFINE a == SubSeq(q, 1, i - 1)
             b == SubSeq(q, i, Len(q))
             c == a \o <<e>>
             r == InsertAt(q, i, e)
  <1>1. a \in Seq(S) /\ Len(a) = i - 1 /\ \A k \in 1 .. i - 1 : a[k] = q[k]
    OBVIOUS
  <1>2. b \in Seq(S) /\ Len(b) = Len(q) - i + 1 /\ \A k \in 1 .. Len(b) : b[k] = q[i + k - 1]
    OBVIOUS
  <1>r. r = c \o b
    BY Zenon DEF InsertAt
  <1> HIDE DEF a, b
  <1>3. c \in Seq(S) /\ Len(c) = i /\ c[i] = e /\ \A k \in 1 .. i - 1 : c[k] = q[k]
    BY <1>1
  <1> HIDE DEF c, r
  <1>4. /\ r \in Seq(S) /\ Len(r) = Len(q) + 1
        /\ \A k \in 1 .. i : r[k] = c[k]
        /\ \A k \in 1 .. Len(b) : r[i + k] = b[k]
    BY <1>2, <1>3, <1>r
  <1>5. ASSUME NEW k \in i .. Len(q)
        PROVE  r[k + 1] = q[k]
    <2>1. PICK l \in 1 .. Len(b) : i + l = k + 1 /\ i + l - 1 = k
      BY <1>2
    <2>2. r[i + l] = b[l] /\ b[l] = q[i + l - 1]
      BY <1>2, <1>4, Zenon
    <2> QED
      BY <2>1, <2>2, Zenon
  <1> QED
    BY <1>3, <1>4, <1>5 DEF r

(* A queue without p, and one with p in one place. *)
NoneIn(q, p) == \A i \in DOMAIN q : q[i] # p
OnceIn(q, p) == \E i \in DOMAIN q : q[i] = p /\ \A j \in DOMAIN q : q[j] = p => j = i

(* RunQueue::enqueue adds one entry of the process and keeps the rest. *)
LEMMA Enqueued ==
    ASSUME NEW S, NEW q \in Seq(S), NEW e \in S
    PROVE  /\ Enqueue(q, e) \in Seq(S)
           /\ \A k \in DOMAIN Enqueue(q, e) :
                 Enqueue(q, e)[k] = e \/ \E l \in DOMAIN q : Enqueue(q, e)[k] = q[l]
           /\ NoneIn(q, e) => OnceIn(Enqueue(q, e), e)
           /\ \A x : x # e /\ NoneIn(q, x) => NoneIn(Enqueue(q, e), x)
           /\ \A x : x # e /\ OnceIn(q, x) => OnceIn(Enqueue(q, e), x)
  <1> DEFINE lower == {i \in DOMAIN q : Priority(q[i]) < Priority(e)}
             pos == IF lower = {} THEN Len(q) + 1 ELSE Min(lower)
  <1>1. pos \in 1 .. Len(q) + 1
    <2>1. lower \subseteq 1 .. Len(q)
      OBVIOUS
    <2>2. ASSUME lower # {} PROVE Min(lower) \in 1 .. Len(q)
      <3> HIDE DEF lower
      <3>1. lower \subseteq Nat
        BY <2>1
      <3> QED
        BY <2>1, <2>2, <3>1, LeastOf, Zenon
    <2> QED
      BY <2>2
  <1> HIDE DEF pos
  <1>2. Enqueue(q, e) = InsertAt(q, pos, e)
    BY Zenon DEF Enqueue, pos
  <1> DEFINE r == InsertAt(q, pos, e)
  <1>3. /\ r \in Seq(S) /\ Len(r) = Len(q) + 1 /\ r[pos] = e
        /\ \A k \in 1 .. pos - 1 : r[k] = q[k]
        /\ \A k \in pos .. Len(q) : r[k + 1] = q[k]
    BY <1>1, Inserted, SMTT(30), ZenonT(30)
  <1> HIDE DEF r
  <1>d. /\ DOMAIN r = 1 .. Len(q) + 1 /\ DOMAIN q = 1 .. Len(q) /\ Len(q) \in Nat
        /\ pos \in DOMAIN r
    BY <1>1, <1>3
  <1> DEFINE back == [k \in DOMAIN r |-> IF k < pos THEN k ELSE k - 1]
             up == [l \in DOMAIN q |-> IF l < pos THEN l ELSE l + 1]
  <1>5. ASSUME NEW k \in DOMAIN r, k # pos
        PROVE  back[k] \in DOMAIN q /\ r[k] = q[back[k]] /\ up[back[k]] = k
    <2>1. CASE k < pos
      BY <1>1, <1>3, <1>d, <2>1
    <2>2. CASE k > pos
      <3>1. k - 1 \in pos .. Len(q) /\ (k - 1) + 1 = k /\ k - 1 \in DOMAIN q /\ back[k] = k - 1
        BY <1>1, <1>d, <2>2
      <3>2. r[k] = q[k - 1]
        BY <1>3, <3>1, Zenon
      <3>3. up[k - 1] = k
        BY <1>1, <3>1
      <3> QED
        BY <3>1, <3>2, <3>3, Zenon
    <2> QED
      BY <1>1, <1>5, <1>d, <2>1, <2>2
  <1>6. ASSUME NEW l \in DOMAIN q
        PROVE  up[l] \in DOMAIN r /\ r[up[l]] = q[l]
    <2>1. CASE l < pos
      BY <1>1, <1>3, <1>d, <2>1
    <2>2. CASE ~ (l < pos)
      <3>1. l \in pos .. Len(q) /\ up[l] = l + 1 /\ l + 1 \in DOMAIN r
        BY <1>1, <1>d, <2>2
      <3> QED
        BY <1>3, <3>1, Zenon
    <2> QED
      BY <2>1, <2>2, Zenon
  <1> HIDE DEF back, up
  <1>7. NoneIn(q, e) => OnceIn(r, e)
    BY <1>3, <1>5, <1>d DEF NoneIn, OnceIn
  <1>8. ASSUME NEW x, x # e, NoneIn(q, x)
        PROVE  NoneIn(r, x)
    BY <1>3, <1>5, <1>8 DEF NoneIn
  <1>9. ASSUME NEW x, x # e, OnceIn(q, x)
        PROVE  OnceIn(r, x)
    <2>1. PICK i \in DOMAIN q : q[i] = x /\ \A j \in DOMAIN q : q[j] = x => j = i
      BY <1>9, Zenon DEF OnceIn
    <2>2. \A j \in DOMAIN r : r[j] = x => j = up[i]
      BY <1>3, <1>5, <1>9, <2>1, Zenon
    <2> QED
      BY <1>6, <2>1, <2>2, Zenon DEF OnceIn
  <1>10. \A k \in DOMAIN r : r[k] = e \/ \E l \in DOMAIN q : r[k] = q[l]
    BY <1>3, <1>5
  <1>11. Enqueue(q, e) = r
    BY <1>2, Zenon DEF r
  <1> QED
    BY <1>3, <1>7, <1>8, <1>9, <1>10, <1>11, ZenonT(30)

(* Taking the first entry removes it and keeps the rest. *)
LEMMA Dequeued ==
    ASSUME NEW S, NEW q \in Seq(S), q # <<>>
    PROVE  /\ Head(q) \in S /\ Tail(q) \in Seq(S)
           /\ \E l \in DOMAIN q : Head(q) = q[l]
           /\ \A k \in DOMAIN Tail(q) : \E l \in DOMAIN q : Tail(q)[k] = q[l]
           /\ \A x : NoneIn(q, x) => NoneIn(Tail(q), x) /\ Head(q) # x
           /\ OnceIn(q, Head(q)) => NoneIn(Tail(q), Head(q))
           /\ \A x : x # Head(q) /\ OnceIn(q, x) => OnceIn(Tail(q), x)
  <1> DEFINE t == Tail(q)
  <1>1. /\ Head(q) \in S /\ t \in Seq(S) /\ Len(q) = Len(t) + 1 /\ Head(q) = q[1]
        /\ Len(t) \in Nat /\ DOMAIN q = 1 .. Len(t) + 1 /\ DOMAIN t = 1 .. Len(t)
        /\ \A k \in 1 .. Len(t) : t[k] = q[k + 1]
    OBVIOUS
  <1> HIDE DEF t
  <1>2. 1 \in DOMAIN q /\ Head(q) = q[1]
    BY <1>1
  <1>3. ASSUME NEW k \in DOMAIN t
        PROVE  k + 1 \in DOMAIN q /\ k + 1 # 1 /\ t[k] = q[k + 1]
    BY <1>1
  <1>4. \A x : NoneIn(q, x) => NoneIn(t, x) /\ Head(q) # x
    BY <1>2, <1>3, Zenon DEF NoneIn
  <1>5. OnceIn(q, Head(q)) => NoneIn(t, Head(q))
    BY <1>2, <1>3, Zenon DEF NoneIn, OnceIn
  <1>6. ASSUME NEW x, x # Head(q), OnceIn(q, x)
        PROVE  OnceIn(t, x)
    <2>1. PICK i \in DOMAIN q : q[i] = x /\ \A j \in DOMAIN q : q[j] = x => j = i
      BY <1>6, Zenon DEF OnceIn
    <2>2. i # 1
      BY <1>2, <1>6, <2>1, Zenon
    <2>3. i - 1 \in DOMAIN t /\ (i - 1) + 1 = i /\ \A j \in DOMAIN t : j + 1 = i => j = i - 1
      BY <1>1, <2>2
    <2>4. t[i - 1] = x
      BY <1>3, <2>1, <2>3, Zenon
    <2>5. \A j \in DOMAIN t : t[j] = x => j = i - 1
      BY <1>3, <2>1, <2>3, Zenon
    <2> QED
      BY <2>3, <2>4, <2>5, Zenon DEF OnceIn
  <1> QED
    BY <1>1, <1>2, <1>3, <1>4, <1>5, <1>6, Zenon DEF t

(***************************************************************************)
(* KERNEL_CTX                                                              *)
(***************************************************************************)

(* Places of a program whose KERNEL_CTX is installed, of a command during which
   GUI_CONTEXT is set if gpuid reads it, and of any command. *)
InContext == {"user", "check", "exiting", "restore", "complete", "gui_clear"}
InGui == {"line", "after", "install", "user", "check", "exiting", "restore", "complete"}
InCommand == InContext \cup InGui \cup {"lost", "requeue"}

(* Types of what the argument is about. *)
Shape ==
    /\ at \in [Harts -> Labels]
    /\ run = [h \in Harts |-> run[h]]
    /\ cmd \in [Harts -> Nat]
    /\ gui \in [Harts -> BOOLEAN]
    /\ kctx \in [cmd : Nat, gui : BOOLEAN, exited : BOOLEAN]
    /\ gui_context \in BOOLEAN /\ overlap \in BOOLEAN
    /\ line \in Seq([by : Services, elf : BOOLEAN, redirect : BOOLEAN])

(* A hart has a command exactly while it executes one. *)
CommandsInProgress ==
    \A h \in Harts :
        /\ Busy(h) <=> at[h] \in InCommand
        /\ Busy(h) => run[h] \in {"shelld", "gpuid"}

(* What holds of the only command in progress, at each place. *)
Alone(h) ==
    /\ \A g \in Harts : Busy(g) => g = h
    /\ gui_context = (run[h] = "gpuid" /\ at[h] \in InGui)
    /\ at[h] = "install" => gui[h] = (run[h] = "gpuid")
    /\ at[h] \in InContext => kctx.cmd = cmd[h] /\ kctx.gui = (run[h] = "gpuid")
    /\ at[h] \in {"complete", "gui_clear"} => run[h] = "gpuid"
    /\ at[h] = "exiting" => kctx.exited
    /\ at[h] = "requeue" => run[h] = "shelld"
    /\ at[h] # "lost"

(* If no two commands overlapped, the one in progress is alone, and outside a
   command GUI_CONTEXT is clear. *)
OnlyCommand ==
    ~overlap =>
        /\ \A h \in Harts : Busy(h) => Alone(h)
        /\ (\A h \in Harts : ~Busy(h)) => ~gui_context

CtxIInv == Shape /\ CommandsInProgress /\ OnlyCommand

(* At boot no command is in progress and KERNEL_CTX is None. *)
LEMMA ContextInit == Init => CtxIInv
<1> SUFFICES ASSUME Init PROVE CtxIInv
  BY Zenon
<1>1. Shape
  <2>1. line \in Seq([by : Services, elf : BOOLEAN, redirect : BOOLEAN])
    BY DEF Init
  <2> QED
    BY <2>1, Zenon DEF Init, Shape, Labels, NoCtx, None
<1>2. CommandsInProgress
  BY Zenon DEF Init, CommandsInProgress, Busy, InCommand, InContext, InGui
<1>3. OnlyCommand
  BY Zenon DEF Init, OnlyCommand, Busy
<1> QED
  BY <1>1, <1>2, <1>3, Zenon DEF CtxIInv

(* Every step keeps the invariant: the steps before execute_elf establish what
   Alone says of the next place, the exit path hands KERNEL_CTX back before the
   command ends, and entering a second command sets overlap. *)
LEMMA ContextStep == CtxIInv /\ [Next]_vars => CtxIInv'
<1> SUFFICES ASSUME Shape, CommandsInProgress, OnlyCommand, [Next]_vars
             PROVE  Shape' /\ CommandsInProgress' /\ OnlyCommand'
  BY Zenon DEF CtxIInv
<1> USE DEF Goto, hart_vars, flag_vars, history, None
<1>1. ASSUME NEW h \in Harts, Pick(h)
      PROVE  Shape' /\ CommandsInProgress' /\ OnlyCommand'
  <2>1. Shape'
    BY <1>1, Zenon DEF Pick, Shape, Labels, NoCtx
  <2>2. CommandsInProgress'
    BY <1>1, Zenon DEF Pick, Shape, CommandsInProgress, Busy, InCommand, InContext, InGui
  <2>3. OnlyCommand'
    BY <1>1 DEF Pick, Shape, CommandsInProgress, OnlyCommand, Alone, Busy,
         InCommand, InContext, InGui, NoCtx
  <2> QED
    BY <2>1, <2>2, <2>3, Zenon
<1>2. ASSUME NEW h \in Harts, gui_cmd_service(h)
      PROVE  Shape' /\ CommandsInProgress' /\ OnlyCommand'
  <2>1. Shape'
    BY <1>2, Zenon DEF gui_cmd_service, Return, Shape, Labels, NoCtx
  <2>2. CommandsInProgress'
    BY <1>2, Zenon DEF gui_cmd_service, Return, Shape, CommandsInProgress, Busy, InCommand,
         InContext, InGui
  <2>3. OnlyCommand'
    BY <1>2 DEF gui_cmd_service, Return, Shape, CommandsInProgress, OnlyCommand, Alone,
         Busy,
         InCommand, InContext, InGui, NoCtx
  <2> QED
    BY <2>1, <2>2, <2>3, Zenon
<1>3. ASSUME NEW h \in Harts, shell_tick_ends(h)
      PROVE  Shape' /\ CommandsInProgress' /\ OnlyCommand'
  <2>1. Shape'
    BY <1>3, Zenon DEF shell_tick_ends, Return, Shape, Labels, NoCtx
  <2>2. CommandsInProgress'
    BY <1>3, Zenon DEF shell_tick_ends, Return, Shape, CommandsInProgress, Busy, InCommand,
         InContext, InGui
  <2>3. OnlyCommand'
    BY <1>3 DEF shell_tick_ends, Return, Shape, CommandsInProgress, OnlyCommand, Alone,
         Busy,
         InCommand, InContext, InGui, NoCtx
  <2> QED
    BY <2>1, <2>2, <2>3, Zenon
<1>4. ASSUME NEW h \in Harts, gpuid_tick_ends(h)
      PROVE  Shape' /\ CommandsInProgress' /\ OnlyCommand'
  <2>1. Shape'
    BY <1>4, Zenon DEF gpuid_tick_ends, Return, Shape, Labels, NoCtx
  <2>2. CommandsInProgress'
    BY <1>4, Zenon DEF gpuid_tick_ends, Return, Shape, CommandsInProgress, Busy, InCommand,
         InContext, InGui
  <2>3. OnlyCommand'
    BY <1>4 DEF gpuid_tick_ends, Return, Shape, CommandsInProgress, OnlyCommand, Alone,
         Busy,
         InCommand, InContext, InGui, NoCtx
  <2> QED
    BY <2>1, <2>2, <2>3, Zenon
<1>5. ASSUME NEW h \in Harts, execute_command_returns(h)
      PROVE  Shape' /\ CommandsInProgress' /\ OnlyCommand'
  <2>1. Shape'
    BY <1>5, Zenon DEF execute_command_returns, Shape, Labels, NoCtx
  <2>2. CommandsInProgress'
    BY <1>5, Zenon DEF execute_command_returns, Shape, CommandsInProgress, Busy, InCommand,
         InContext, InGui
  <2>3. OnlyCommand'
    BY <1>5 DEF execute_command_returns, Shape, CommandsInProgress, OnlyCommand, Alone,
         Busy,
         InCommand, InContext, InGui, NoCtx
  <2> QED
    BY <2>1, <2>2, <2>3, Zenon
<1>6. ASSUME NEW h \in Harts, handle_line_after(h)
      PROVE  Shape' /\ CommandsInProgress' /\ OnlyCommand'
  <2>1. Shape'
    BY <1>6, Zenon DEF handle_line_after, Shape, Labels, NoCtx
  <2>2. CommandsInProgress'
    BY <1>6, Zenon DEF handle_line_after, Shape, CommandsInProgress, Busy, InCommand,
         InContext, InGui
  <2>3. OnlyCommand'
    <3> SUFFICES ASSUME ~overlap PROVE OnlyCommand'
      BY <1>6, Zenon DEF handle_line_after, OnlyCommand
    <3>1. Busy(h) /\ Alone(h)
      BY <1>6, Zenon DEF handle_line_after, CommandsInProgress, OnlyCommand, InCommand,
           InContext, InGui
    <3>2. \A g \in Harts : ~Busy(g)'
      BY <1>6, <3>1, Zenon DEF handle_line_after, Shape, Alone, Busy
    <3>3. ~gui_context'
      BY <1>6, <3>1, Zenon DEF handle_line_after, Alone, InGui
    <3> QED
      BY <3>2, <3>3, Zenon DEF OnlyCommand
  <2> QED
    BY <2>1, <2>2, <2>3, Zenon
<1>7. ASSUME NEW h \in Harts, terminal_after(h)
      PROVE  Shape' /\ CommandsInProgress' /\ OnlyCommand'
  <2>1. Shape'
    BY <1>7, Zenon DEF terminal_after, Shape, Labels, NoCtx
  <2>2. CommandsInProgress'
    BY <1>7, Zenon DEF terminal_after, Shape, CommandsInProgress, Busy, InCommand, InContext,
         InGui
  <2>3. OnlyCommand'
    BY <1>7 DEF terminal_after, Shape, CommandsInProgress, OnlyCommand, Alone, Busy,
         InCommand, InContext, InGui, NoCtx
  <2> QED
    BY <2>1, <2>2, <2>3, Zenon
<1>8. ASSUME NEW h \in Harts, read_gui_context(h)
      PROVE  Shape' /\ CommandsInProgress' /\ OnlyCommand'
  <2>1. Shape'
    BY <1>8, Zenon DEF read_gui_context, Shape, Labels, NoCtx
  <2>2. CommandsInProgress'
    BY <1>8, Zenon DEF read_gui_context, Shape, CommandsInProgress, Busy, InCommand,
         InContext, InGui
  <2>3. OnlyCommand'
    BY <1>8 DEF read_gui_context, Shape, CommandsInProgress, OnlyCommand, Alone, Busy,
         InCommand, InContext, InGui, NoCtx
  <2> QED
    BY <2>1, <2>2, <2>3, Zenon
<1>9. ASSUME NEW h \in Harts, execute_elf(h)
      PROVE  Shape' /\ CommandsInProgress' /\ OnlyCommand'
  <2>1. Shape'
    BY <1>9, Zenon DEF execute_elf, Shape, Labels, NoCtx
  <2>2. CommandsInProgress'
    BY <1>9, Zenon DEF execute_elf, Shape, CommandsInProgress, Busy, InCommand, InContext, InGui
  <2>3. OnlyCommand'
    BY <1>9 DEF execute_elf, Shape, CommandsInProgress, OnlyCommand, Alone, Busy,
         InCommand, InContext, InGui, NoCtx
  <2> QED
    BY <2>1, <2>2, <2>3, Zenon
<1>10. ASSUME NEW h \in Harts, has_exited(h)
      PROVE  Shape' /\ CommandsInProgress' /\ OnlyCommand'
  <2>1. Shape'
    BY <1>10, Zenon DEF has_exited, Shape, Labels, NoCtx
  <2>2. CommandsInProgress'
    BY <1>10, Zenon DEF has_exited, Shape, CommandsInProgress, Busy, InCommand, InContext, InGui
  <2>3. OnlyCommand'
    BY <1>10 DEF has_exited, Shape, CommandsInProgress, OnlyCommand, Alone, Busy,
         InCommand, InContext, InGui, NoCtx
  <2> QED
    BY <2>1, <2>2, <2>3, Zenon
<1>11. ASSUME NEW h \in Harts, restore_gui(h)
      PROVE  Shape' /\ CommandsInProgress' /\ OnlyCommand'
  <2>1. Shape'
    BY <1>11, Zenon DEF restore_gui, Shape, Labels, NoCtx
  <2>2. CommandsInProgress'
    BY <1>11, Zenon DEF restore_gui, Shape, CommandsInProgress, Busy, InCommand, InContext, InGui
  <2>3. OnlyCommand'
    <3> SUFFICES ASSUME ~overlap PROVE OnlyCommand'
      BY <1>11, Zenon DEF restore_gui, OnlyCommand
    <3>1. Busy(h) /\ Alone(h)
      BY <1>11, Zenon DEF restore_gui, CommandsInProgress, OnlyCommand, InCommand, InContext,
           InGui
    <3>2. Busy(h)' /\ \A g \in Harts : Busy(g)' => g = h
      BY <1>11, <3>1, Zenon DEF restore_gui, Alone, Busy
    <3>3. Alone(h)'
      BY <1>11, <3>1, <3>2, Zenon DEF restore_gui, Shape, Alone, Busy, InContext, InGui, NoCtx
    <3> QED
      BY <3>2, <3>3, Zenon DEF OnlyCommand
  <2> QED
    BY <2>1, <2>2, <2>3, Zenon
<1>12. ASSUME NEW h \in Harts, signal_completion(h)
      PROVE  Shape' /\ CommandsInProgress' /\ OnlyCommand'
  <2>1. Shape'
    BY <1>12, Zenon DEF signal_completion, Shape, Labels, NoCtx
  <2>2. CommandsInProgress'
    BY <1>12 DEF signal_completion, Shape, CommandsInProgress, Busy, InCommand,
         InContext, InGui
  <2>3. OnlyCommand'
    <3> SUFFICES ASSUME ~overlap PROVE OnlyCommand'
      BY <1>12, Zenon DEF signal_completion, OnlyCommand
    <3>1. Busy(h) /\ Alone(h)
      BY <1>12, Zenon DEF signal_completion, CommandsInProgress, OnlyCommand, InCommand,
           InContext, InGui
    <3>2. Busy(h)' /\ \A g \in Harts : Busy(g)' => g = h
      BY <1>12, <3>1, Zenon DEF signal_completion, Alone, Busy
    <3>3. Alone(h)'
      BY <1>12, <3>1, <3>2, Zenon DEF signal_completion, Shape, Alone, Busy, InContext, InGui,
           NoCtx
    <3> QED
      BY <3>2, <3>3, Zenon DEF OnlyCommand
  <2> QED
    BY <2>1, <2>2, <2>3, Zenon
<1>13. ASSUME NEW h \in Harts, restore_gui_clear(h)
      PROVE  Shape' /\ CommandsInProgress' /\ OnlyCommand'
  <2>1. Shape'
    BY <1>13, Zenon DEF restore_gui_clear, EnterHartLoop, Shape, Labels, NoCtx
  <2>2. CommandsInProgress'
    BY <1>13 DEF restore_gui_clear, EnterHartLoop, Shape, CommandsInProgress, Busy,
         InCommand, InContext, InGui
  <2>3. OnlyCommand'
    <3> SUFFICES ASSUME ~overlap PROVE OnlyCommand'
      BY <1>13, Zenon DEF restore_gui_clear, EnterHartLoop, OnlyCommand
    <3>1. Busy(h) /\ Alone(h)
      BY <1>13, Zenon DEF restore_gui_clear, EnterHartLoop, CommandsInProgress, OnlyCommand,
           InCommand, InContext, InGui
    <3>2. \A g \in Harts : ~Busy(g)'
      BY <1>13, <3>1, Zenon DEF restore_gui_clear, EnterHartLoop, Shape, Alone, Busy
    <3>3. ~gui_context'
      BY <1>13, <3>1, Zenon DEF restore_gui_clear, EnterHartLoop, Alone, InGui
    <3> QED
      BY <3>2, <3>3, Zenon DEF OnlyCommand
  <2> QED
    BY <2>1, <2>2, <2>3, Zenon
<1>14. ASSUME NEW h \in Harts, restore_shell(h)
      PROVE  Shape' /\ CommandsInProgress' /\ OnlyCommand'
  <2>1. Shape'
    BY <1>14, Zenon DEF restore_shell, Shape, Labels, NoCtx
  <2>2. CommandsInProgress'
    BY <1>14 DEF restore_shell, Shape, CommandsInProgress, Busy, InCommand, InContext,
         InGui
  <2>3. OnlyCommand'
    <3> SUFFICES ASSUME ~overlap PROVE OnlyCommand'
      BY <1>14, Zenon DEF restore_shell, OnlyCommand
    <3>1. Busy(h) /\ Alone(h)
      BY <1>14, Zenon DEF restore_shell, CommandsInProgress, OnlyCommand, InCommand,
           InContext, InGui
    <3>2. Busy(h)' /\ \A g \in Harts : Busy(g)' => g = h
      BY <1>14, <3>1, Zenon DEF restore_shell, Alone, Busy
    <3>3. Alone(h)'
      BY <1>14, <3>1, <3>2, Zenon DEF restore_shell, Shape, CommandsInProgress, Alone, Busy, InContext,
           InGui, NoCtx
    <3> QED
      BY <3>2, <3>3, Zenon DEF OnlyCommand
  <2> QED
    BY <2>1, <2>2, <2>3, Zenon
<1>15. ASSUME NEW h \in Harts, restore_shell_requeue(h)
      PROVE  Shape' /\ CommandsInProgress' /\ OnlyCommand'
  <2>1. Shape'
    BY <1>15, Zenon DEF restore_shell_requeue, EnterHartLoop, Shape, Labels, NoCtx
  <2>2. CommandsInProgress'
    BY <1>15, Zenon DEF restore_shell_requeue, EnterHartLoop, Shape, CommandsInProgress, Busy,
         InCommand, InContext, InGui
  <2>3. OnlyCommand'
    <3> SUFFICES ASSUME ~overlap PROVE OnlyCommand'
      BY <1>15, Zenon DEF restore_shell_requeue, EnterHartLoop, OnlyCommand
    <3>1. Busy(h) /\ Alone(h)
      BY <1>15, Zenon DEF restore_shell_requeue, EnterHartLoop, CommandsInProgress,
           OnlyCommand, InCommand, InContext, InGui
    <3>2. \A g \in Harts : ~Busy(g)'
      BY <1>15, <3>1, Zenon DEF restore_shell_requeue, EnterHartLoop, Shape, Alone, Busy
    <3>3. ~gui_context'
      BY <1>15, <3>1, Zenon DEF restore_shell_requeue, EnterHartLoop, Alone, InGui
    <3> QED
      BY <3>2, <3>3, Zenon DEF OnlyCommand
  <2> QED
    BY <2>1, <2>2, <2>3, Zenon
<1>16. ASSUME NEW h \in Harts, handle_line(h)
      PROVE  Shape' /\ CommandsInProgress' /\ OnlyCommand'
  <2>0. /\ at' = [at EXCEPT ![h] = "line"]
        /\ cmd' = [cmd EXCEPT ![h] = Entered + 1] /\ Entered + 1 \in Nat \ {0}
        /\ overlap' = (overlap \/ \E g \in Harts \ {h} : Busy(g))
    <3>1. Entered + 1 \in Nat \ {0}
      BY DEF Shape, Entered
    <3> QED
      BY <1>16, <3>1, Zenon DEF handle_line, Begin
  <2>1. Shape'
    <3>1. PICK l \in [by : Services, elf : BOOLEAN, redirect : BOOLEAN] : Begin(h, l)
      BY <1>16, Zenon DEF handle_line, Services
    <3>2. line' \in Seq([by : Services, elf : BOOLEAN, redirect : BOOLEAN])
      BY <3>1 DEF Begin, Shape
    <3>3. Entered + 1 \in Nat /\ Entered + 1 # None
      BY DEF Shape, Entered
    <3>4. at' \in [Harts -> Labels] /\ cmd' \in [Harts -> Nat] /\ overlap' \in BOOLEAN
      BY <3>1, <3>3, Zenon DEF Begin, Shape, Labels
    <3> QED
      BY <1>16, <3>2, <3>4, Zenon DEF handle_line, Shape
  <2>2. CommandsInProgress'
    BY <1>16, <2>0, Zenon DEF handle_line, Shape, CommandsInProgress, Busy, InCommand,
         InContext, InGui
  <2>3. OnlyCommand'
    <3> SUFFICES ASSUME ~overlap' PROVE OnlyCommand'
      BY Zenon DEF OnlyCommand
    <3>1. ~overlap /\ \A g \in Harts : ~Busy(g)
      BY <1>16, <2>0, Zenon DEF handle_line, CommandsInProgress, InCommand, InContext, InGui
    <3>2. Busy(h)' /\ \A g \in Harts : Busy(g)' => g = h
      BY <2>0, <3>1, Zenon DEF Busy, Shape
    <3>3. gui_context' = (run'[h] = "gpuid")
      BY <1>16, <3>1, Zenon DEF handle_line, OnlyCommand, Shape
    <3>4. Alone(h)'
      BY <2>0, <3>2, <3>3 DEF Shape, Alone, InContext, InGui
    <3> QED
      BY <3>2, <3>4, Zenon DEF OnlyCommand
  <2> QED
    BY <2>1, <2>2, <2>3, Zenon
<1>17. ASSUME NEW h \in Harts, terminal_execute_command(h)
      PROVE  Shape' /\ CommandsInProgress' /\ OnlyCommand'
  <2>0. /\ at' = [at EXCEPT ![h] = "line"]
        /\ cmd' = [cmd EXCEPT ![h] = Entered + 1] /\ Entered + 1 \in Nat \ {0}
        /\ overlap' = (overlap \/ \E g \in Harts \ {h} : Busy(g))
    <3>1. Entered + 1 \in Nat \ {0}
      BY DEF Shape, Entered
    <3> QED
      BY <1>17, <3>1, Zenon DEF terminal_execute_command, Begin
  <2>1. Shape'
    <3>1. PICK l \in [by : Services, elf : BOOLEAN, redirect : BOOLEAN] : Begin(h, l)
      BY <1>17, Zenon DEF terminal_execute_command, Services
    <3>2. line' \in Seq([by : Services, elf : BOOLEAN, redirect : BOOLEAN])
      BY <3>1 DEF Begin, Shape
    <3>3. Entered + 1 \in Nat /\ Entered + 1 # None
      BY DEF Shape, Entered
    <3>4. at' \in [Harts -> Labels] /\ cmd' \in [Harts -> Nat] /\ overlap' \in BOOLEAN
      BY <3>1, <3>3, Zenon DEF Begin, Shape, Labels
    <3> QED
      BY <1>17, <3>2, <3>4, Zenon DEF terminal_execute_command, Shape
  <2>2. CommandsInProgress'
    BY <1>17, <2>0 DEF terminal_execute_command, Shape, CommandsInProgress, Busy,
         InCommand, InContext, InGui
  <2>3. OnlyCommand'
    <3> SUFFICES ASSUME ~overlap' PROVE OnlyCommand'
      BY Zenon DEF OnlyCommand
    <3>1. ~overlap /\ \A g \in Harts : ~Busy(g)
      BY <1>17, <2>0, Zenon DEF terminal_execute_command, CommandsInProgress, InCommand,
           InContext, InGui
    <3>2. Busy(h)' /\ \A g \in Harts : Busy(g)' => g = h
      BY <2>0, <3>1, Zenon DEF Busy, Shape
    <3>3. gui_context' = (run'[h] = "gpuid")
      BY <1>17, <3>1, Zenon DEF terminal_execute_command, OnlyCommand
    <3>4. Alone(h)'
      BY <2>0, <3>2, <3>3, Zenon DEF Shape, Alone, InContext, InGui
    <3> QED
      BY <3>2, <3>4, Zenon DEF OnlyCommand
  <2> QED
    BY <2>1, <2>2, <2>3, Zenon
<1>18. ASSUME NEW h \in Harts, sys_print(h)
      PROVE  Shape' /\ CommandsInProgress' /\ OnlyCommand'
  <2>1. Shape'
    BY <1>18, Zenon DEF sys_print, Shape, Labels, NoCtx
  <2>2. CommandsInProgress'
    BY <1>18, Zenon DEF sys_print, Shape, CommandsInProgress, Busy, InCommand, InContext, InGui
  <2>3. OnlyCommand'
    BY <1>18 DEF sys_print, Shape, CommandsInProgress, OnlyCommand, Alone, Busy,
         InCommand, InContext, InGui, NoCtx
  <2> QED
    BY <2>1, <2>2, <2>3, Zenon
<1>19. ASSUME NEW h \in Harts, sys_exit(h)
      PROVE  Shape' /\ CommandsInProgress' /\ OnlyCommand'
  <2>1. Shape'
    BY <1>19, Zenon DEF sys_exit, signal_exit, Shape, Labels, NoCtx
  <2>2. CommandsInProgress'
    BY <1>19, Zenon DEF sys_exit, signal_exit, Shape, CommandsInProgress, Busy, InCommand,
         InContext, InGui
  <2>3. OnlyCommand'
    BY <1>19 DEF sys_exit, signal_exit, Shape, CommandsInProgress, OnlyCommand, Alone,
         Busy,
         InCommand, InContext, InGui, NoCtx
  <2> QED
    BY <2>1, <2>2, <2>3, Zenon
<1>20. CASE UNCHANGED vars
  BY <1>20 DEF vars, Shape, CommandsInProgress, OnlyCommand, Alone, Busy
<1> QED
  BY <1>1, <1>2, <1>3, <1>4, <1>5, <1>6, <1>7, <1>8, <1>9, <1>10, <1>11, <1>12, <1>13,
       <1>14, <1>15, <1>16, <1>17, <1>18, <1>19, <1>20, Zenon DEF Next, Kernel, User

(* KERNEL_CTX belongs to the program on the hart, for any number of harts and
   commands: as long as no two commands were in progress at once, a program in
   U-mode and the exit path of restore_kernel_context find the context of that
   very program, in the mode of the service that started it. *)
THEOREM ExecContext == Spec => []ContextIsMine
<1>1. CtxIInv => ContextIsMine
  <2> SUFFICES ASSUME CtxIInv, ~overlap, NEW h \in Harts, at[h] \in InContext
               PROVE  kctx.cmd = cmd[h] /\ kctx.gui = (run[h] = "gpuid")
    BY Zenon DEF ContextIsMine, InContext
  <2>1. Busy(h)
    BY Zenon DEF CtxIInv, CommandsInProgress, InCommand
  <2> QED
    BY <2>1, Zenon DEF CtxIInv, OnlyCommand, Alone
<1> QED
  BY <1>1, ContextInit, ContextStep, PTL DEF Spec

(***************************************************************************)
(* Where services are, and what becomes of output                          *)
(***************************************************************************)

(* A run queue holds services that are pinned to its hart, and a hart outside
   the loop runs one that is. *)
Home(rq) ==
    /\ rq \in [Harts -> Seq(Services)]
    /\ \A h \in Harts : \A i \in DOMAIN rq[h] : affinity[rq[h][i]] = h
AtHome ==
    /\ affinity \in [Services -> Harts]
    /\ Home(runq)
    /\ \A h \in Harts :
          /\ run[h] = "idle" <=> at[h] = "loop"
          /\ run[h] # "idle" => run[h] \in Services /\ affinity[run[h]] = h

(* The service is in its queue, once, or on its hart. *)
InPlace(p) ==
    IF run[affinity[p]] = p THEN NoneIn(runq[affinity[p]], p) ELSE OnceIn(runq[affinity[p]], p)
InPlaces == ~overlap => InPlace("shelld") /\ InPlace("gpuid")

(* Commands and lines: a hart executes a command of the service it runs, a program
   if it is past the lookup, and only what was entered has printed. *)
InProgram == InContext \cup {"install", "lost", "requeue"}
OfLines ==
    /\ \A h \in Harts : Busy(h) =>
          /\ cmd[h] \in 1 .. Entered
          /\ line[cmd[h]].by = run[h]
          /\ at[h] \in InProgram => line[cmd[h]].elf
    /\ wrote \subseteq 1 .. Entered /\ console \subseteq 1 .. Entered
    /\ file \subseteq 1 .. Entered /\ capture.buf \subseteq 1 .. Entered
    /\ capture = [on |-> capture.on, buf |-> capture.buf]
    /\ capture.on \in BOOLEAN /\ leaked \in BOOLEAN /\ term_running \in BOOLEAN
    /\ ~leaked => \A c \in 1 .. Entered :
          ~ (line[c].by = "shelld" /\ line[c].elf /\ line[c].redirect)

(* A command whose output is being captured, and will be taken from the capture: one
   of the terminal, or one of the shell that is no program and redirected. *)
InTerminal(h) == Busy(h) /\ run[h] = "gpuid" /\ at[h] \in InGui
Redirected(h) ==
    Busy(h) /\ run[h] = "shelld" /\ line[cmd[h]].redirect /\ at[h] \in {"line", "after"}

(* Unless commands overlapped, the command in progress is the last one, and the
   capture has what it printed and nothing else. *)
Captured ==
    ~overlap => \A h \in Harts :
        /\ Busy(h) => cmd[h] = Entered
        /\ InTerminal(h) \/ Redirected(h) =>
              capture.on /\ capture.buf = {cmd[h]} \cap wrote

(* The terminal waits while its command runs; then it has the output, or the
   result has it and the terminal still waits. *)
InWindow ==
    ~overlap =>
        /\ \A h \in Harts : Busy(h) /\ run[h] = "gpuid" => term_running
        /\ term_running /\ (\A h \in Harts : ~InTerminal(h)) => result = LastGui \cap wrote
        /\ ~term_running => terminal = LastGui \cap wrote

(* Unless commands overlapped or a redirected program left the capture on, somebody
   will end the capture, and nothing redirected is on the console. *)
OnConsole ==
    ~overlap /\ ~leaked =>
        /\ capture.on => \E h \in Harts : InTerminal(h) \/ Redirected(h)
        /\ \A c \in console : ~ (line[c].by = "shelld" /\ line[c].redirect)

(* requeue adds one entry of the service to the queue of its hart. *)
LEMMA Requeued ==
    ASSUME affinity \in [Services -> Harts], NEW rq, Home(rq), NEW p \in Services
    PROVE  /\ Home(RequeueOn(rq, p))
           /\ NoneIn(rq[affinity[p]], p) => OnceIn(RequeueOn(rq, p)[affinity[p]], p)
           /\ \A x \in Services \ {p} :
                 /\ NoneIn(rq[affinity[x]], x) => NoneIn(RequeueOn(rq, p)[affinity[x]], x)
                 /\ OnceIn(rq[affinity[x]], x) => OnceIn(RequeueOn(rq, p)[affinity[x]], x)
  <1> DEFINE a == affinity[p]
             q == Enqueue(rq[a], p)
             r == [rq EXCEPT ![a] = q]
  <1>1. a \in Harts /\ rq[a] \in Seq(Services)
    BY Zenon DEF Home
  <1>2. /\ q \in Seq(Services)
        /\ \A k \in DOMAIN q : q[k] = p \/ \E l \in DOMAIN rq[a] : q[k] = rq[a][l]
        /\ NoneIn(rq[a], p) => OnceIn(q, p)
        /\ \A x : x # p /\ NoneIn(rq[a], x) => NoneIn(q, x)
        /\ \A x : x # p /\ OnceIn(rq[a], x) => OnceIn(q, x)
    BY <1>1, Enqueued
  <1>r. RequeueOn(rq, p) = r
    BY Zenon DEF RequeueOn
  <1> HIDE DEF q
  <1>3. r \in [Harts -> Seq(Services)] /\ r[a] = q /\ \A h \in Harts : h # a => r[h] = rq[h]
    BY <1>1, <1>2, Zenon DEF Home
  <1> HIDE DEF r
  <1>4. ASSUME NEW h \in Harts, NEW i \in DOMAIN r[h]
        PROVE  affinity[r[h][i]] = h
    <2>1. CASE h = a
      <3>1. q[i] = p \/ \E l \in DOMAIN rq[a] : q[i] = rq[a][l]
        BY <1>2, <1>3, <1>4, <2>1, Zenon
      <3> QED
        BY <1>1, <1>3, <2>1, <3>1 DEF Home
    <2>2. CASE h # a
      BY <1>3, <1>4, <2>2 DEF Home
    <2> QED
      BY <2>1, <2>2, Zenon
  <1>5. ASSUME NEW x \in Services \ {p}
        PROVE  /\ NoneIn(rq[affinity[x]], x) => NoneIn(r[affinity[x]], x)
               /\ OnceIn(rq[affinity[x]], x) => OnceIn(r[affinity[x]], x)
    <2>1. CASE affinity[x] = a
      BY <1>2, <1>3, <2>1, Zenon
    <2>2. CASE affinity[x] # a
      <3>1. r[affinity[x]] = rq[affinity[x]]
        BY <1>3, <2>2, Zenon
      <3> QED
        BY <3>1, Zenon
    <2> QED
      BY <2>1, <2>2, Zenon
  <1> QED
    BY <1>r, <1>2, <1>3, <1>4, <1>5, Zenon DEF Home

(* A service that is picked moves from its queue to its hart. *)
LEMMA PickKeeps ==
    ASSUME Shape, AtHome, NEW h \in Harts, Pick(h)
    PROVE  AtHome' /\ \A x \in Services : InPlace(x) => InPlace(x)'
  <1> DEFINE q == runq[h]
  <1>1. q \in Seq(Services) /\ q # <<>> /\ \A i \in DOMAIN q : affinity[q[i]] = h
    BY Zenon DEF AtHome, Home, Pick
  <1>2. /\ Head(q) \in Services /\ Tail(q) \in Seq(Services)
        /\ \E l \in DOMAIN q : Head(q) = q[l]
        /\ \A k \in DOMAIN Tail(q) : \E l \in DOMAIN q : Tail(q)[k] = q[l]
        /\ OnceIn(q, Head(q)) => NoneIn(Tail(q), Head(q))
        /\ \A x : x # Head(q) /\ OnceIn(q, x) => OnceIn(Tail(q), x)
    BY <1>1, Dequeued
  <1>3. affinity[Head(q)] = h
    BY <1>1, <1>2, Zenon
  <1>4. /\ runq' = [runq EXCEPT ![h] = Tail(q)]
        /\ run' = [run EXCEPT ![h] = Head(q)]
        /\ at' = [at EXCEPT ![h] = "tick"] /\ affinity' = affinity
    BY Zenon DEF Pick, Goto
  <1>5. /\ runq'[h] = Tail(q) /\ \A g \in Harts : g # h => runq'[g] = runq[g]
        /\ run'[h] = Head(q) /\ \A g \in Harts : g # h => run'[g] = run[g]
        /\ at'[h] = "tick" /\ \A g \in Harts : g # h => at'[g] = at[g]
        /\ run[h] = "idle"
    BY <1>4, Zenon DEF AtHome, Home, Shape, Pick
  <1> HIDE DEF q
  <1>6. Home(runq)'
    <2>1. runq' \in [Harts -> Seq(Services)]
      BY <1>2, <1>4, Zenon DEF AtHome, Home
    <2>2. ASSUME NEW g \in Harts, NEW i \in DOMAIN runq'[g]
          PROVE  affinity[runq'[g][i]] = g
      <3>1. CASE g = h
        <4>1. PICK l \in DOMAIN q : runq'[h][i] = q[l]
          BY <1>2, <1>5, <2>2, <3>1, ZenonT(30)
        <4> QED
          BY <1>1, <3>1, <4>1, Zenon
      <3>2. CASE g # h
        BY <1>5, <2>2, <3>2 DEF AtHome, Home
      <3> QED
        BY <3>1, <3>2, Zenon
    <2> QED
      BY <1>4, <2>1, <2>2, Zenon DEF Home
  <1>7. AtHome'
    <2>1. Head(q) # "idle"
      BY <1>2, Zenon DEF Services
    <2> QED
      BY <1>2, <1>3, <1>4, <1>5, <1>6, <2>1 DEF AtHome
  <1>8. ASSUME NEW x \in Services, InPlace(x)
        PROVE  InPlace(x)'
    <2>1. affinity[x] \in Harts /\ x # "idle"
      BY Zenon DEF AtHome, Services
    <2>2. CASE affinity[x] # h
      BY <1>4, <1>5, <1>8, <2>1, <2>2 DEF InPlace
    <2>3. CASE affinity[x] = h
      <3>1. OnceIn(q, x)
        BY <1>5, <1>8, <2>1, <2>3, Zenon DEF InPlace, q
      <3>2. affinity'[x] = h /\ runq'[h] = Tail(q) /\ run'[h] = Head(q)
        BY <1>4, <1>5, <2>3, Zenon
      <3>3. CASE x = Head(q)
        BY <1>2, <3>1, <3>2, <3>3, Zenon DEF InPlace
      <3>4. CASE x # Head(q)
        BY <1>2, <3>1, <3>2, <3>4, Zenon DEF InPlace
      <3> QED
        BY <3>3, <3>4, Zenon
    <2> QED
      BY <2>2, <2>3, Zenon
  <1> QED
    BY <1>7, <1>8, Zenon

(* A hart goes back to the loop and queues a service; its own is back in its queue. *)
LEMMA LoopKeeps ==
    ASSUME Shape, AtHome, NEW h \in Harts, at[h] # "loop", NEW rq, Home(rq), runq' = rq,
           run' = [run EXCEPT ![h] = "idle"], at' = [at EXCEPT ![h] = "loop"],
           affinity' = affinity
    PROVE  /\ AtHome'
           /\ \A x \in Services : x # run[h] /\ InPlace(x)
                 /\ (NoneIn(runq[affinity[x]], x) => NoneIn(rq[affinity[x]], x))
                 /\ (OnceIn(runq[affinity[x]], x) => OnceIn(rq[affinity[x]], x))
                 => InPlace(x)'
           /\ \A x \in Services : x = run[h] /\ InPlace(x)
                 /\ (NoneIn(runq[affinity[x]], x) => OnceIn(rq[affinity[x]], x))
                 => InPlace(x)'
  <1>1. /\ run'[h] = "idle" /\ \A g \in Harts : g # h => run'[g] = run[g]
        /\ at'[h] = "loop" /\ \A g \in Harts : g # h => at'[g] = at[g]
    BY Zenon DEF Shape
  <1>2. Home(runq)'
    BY Zenon DEF Home
  <1>3. AtHome'
    BY <1>1, <1>2 DEF AtHome
  <1>4. ASSUME NEW x \in Services
        PROVE  affinity[x] \in Harts /\ x # "idle" /\ affinity'[x] = affinity[x]
    BY Zenon DEF AtHome, Services
  <1>5. ASSUME NEW x \in Services, x # run[h]
        PROVE  run'[affinity[x]] = x <=> run[affinity[x]] = x
    BY <1>1, <1>4, <1>5, Zenon
  <1>6. ASSUME NEW x \in Services, x = run[h]
        PROVE  run[affinity[x]] = x /\ run'[affinity[x]] # x
    BY <1>1, <1>4, <1>6, Zenon DEF AtHome
  <1> QED
    BY <1>3, <1>4, <1>5, <1>6, Zenon DEF InPlace

(* Every step keeps the services in place: a tick that returns and the exit path queue the
   service that the hart ran. *)
LEMMA HomeStep ==
    ASSUME CtxIInv, AtHome, [Next]_vars
    PROVE  AtHome' /\ (InPlaces => InPlaces')
  <1> USE DEF Goto, hart_vars, flag_vars, history, None
  <1>0. Shape /\ CommandsInProgress /\ OnlyCommand /\ affinity \in [Services -> Harts] /\ Home(runq)
    BY Zenon DEF CtxIInv, AtHome
  <1>z. {"shelld", "gpuid", "gui_cmd"} \subseteq Services
    BY Zenon DEF Services
  <1>s. ASSUME runq' = runq, run' = run, affinity' = affinity,
               \A h \in Harts : at'[h] = "loop" <=> at[h] = "loop", overlap => overlap'
        PROVE  AtHome' /\ (InPlaces => InPlaces')
    <2>1. AtHome'
      BY <1>s, Zenon DEF AtHome, Home
    <2> QED
      BY <1>s, <2>1, Zenon DEF InPlaces, InPlace
  <1>1. ASSUME NEW h \in Harts, Pick(h)
        PROVE  AtHome' /\ (InPlaces => InPlaces')
    <2>1. overlap' = overlap
      BY <1>1, Zenon DEF Pick
    <2> QED
      BY <1>0, <1>1, <1>z, <2>1, PickKeeps, Zenon DEF InPlaces
  <1>2. ASSUME NEW h \in Harts, gui_cmd_service(h) \/ shell_tick_ends(h) \/ gpuid_tick_ends(h)
        PROVE  AtHome' /\ (InPlaces => InPlaces')
    <2> DEFINE rq == RequeueOn(runq, run[h])
    <2>1. /\ runq' = rq /\ run' = [run EXCEPT ![h] = "idle"] /\ at[h] # "loop"
          /\ at' = [at EXCEPT ![h] = "loop"] /\ affinity' = affinity
          /\ overlap' = overlap /\ run[h] \in Services
      BY <1>2, Zenon DEF gui_cmd_service, shell_tick_ends, gpuid_tick_ends, Return, Services
    <2>2. /\ Home(rq)
          /\ NoneIn(runq[affinity[run[h]]], run[h]) => OnceIn(rq[affinity[run[h]]], run[h])
          /\ \A x \in Services \ {run[h]} :
                /\ NoneIn(runq[affinity[x]], x) => NoneIn(rq[affinity[x]], x)
                /\ OnceIn(runq[affinity[x]], x) => OnceIn(rq[affinity[x]], x)
      BY <1>0, <2>1, Requeued, Zenon
    <2> HIDE DEF rq
    <2>3. AtHome' /\ \A x \in Services : InPlace(x) => InPlace(x)'
      BY <1>0, <2>1, <2>2, LoopKeeps, Zenon
    <2> QED
      BY <1>z, <2>1, <2>3, Zenon DEF InPlaces
  <1>3. ASSUME NEW h \in Harts,
               \/ execute_command_returns(h) \/ handle_line_after(h) \/ terminal_after(h)
               \/ read_gui_context(h) \/ execute_elf(h) \/ has_exited(h)
        PROVE  AtHome' /\ (InPlaces => InPlaces')
    <2>1. /\ runq' = runq /\ run' = run /\ affinity' = affinity /\ overlap' = overlap
      BY <1>3, Zenon DEF execute_command_returns, handle_line_after, terminal_after,
           read_gui_context, execute_elf, has_exited
    <2>2. \E l : at' = [at EXCEPT ![h] = l] /\ l # "loop" /\ at[h] # "loop"
      BY <1>3, Zenon DEF execute_command_returns, handle_line_after, terminal_after,
           read_gui_context, execute_elf, has_exited
    <2> QED
      BY <1>0, <1>s, <2>1, <2>2, Zenon DEF Shape
  <1>4. ASSUME NEW h \in Harts,
               \/ restore_gui(h) \/ signal_completion(h) \/ restore_shell(h)
               \/ sys_print(h) \/ sys_exit(h)
        PROVE  AtHome' /\ (InPlaces => InPlaces')
    <2>1. /\ runq' = runq /\ run' = run /\ affinity' = affinity /\ overlap' = overlap
      BY <1>4, Zenon DEF restore_gui, signal_completion, restore_shell, sys_print, sys_exit
    <2>2. \E l : at' = [at EXCEPT ![h] = l] /\ l # "loop" /\ at[h] # "loop"
      BY <1>4, Zenon DEF restore_gui, signal_completion, restore_shell, sys_print, sys_exit
    <2> QED
      BY <1>0, <1>s, <2>1, <2>2, Zenon DEF Shape
  <1>5. ASSUME NEW h \in Harts, handle_line(h) \/ terminal_execute_command(h)
        PROVE  AtHome' /\ (InPlaces => InPlaces')
    <2>1. /\ runq' = runq /\ run' = run /\ affinity' = affinity
          /\ at' = [at EXCEPT ![h] = "line"] /\ at[h] = "tick" /\ (overlap => overlap')
      BY <1>5, Zenon DEF handle_line, terminal_execute_command, Begin
    <2> QED
      BY <1>0, <1>s, <2>1, Zenon DEF Shape
  <1>6. ASSUME NEW h \in Harts, restore_shell_requeue(h)
        PROVE  AtHome' /\ (InPlaces => InPlaces')
    <2> DEFINE rq == RequeueOn(runq, "shelld")
    <2>1. /\ runq' = rq /\ run' = [run EXCEPT ![h] = "idle"] /\ at[h] # "loop"
          /\ at' = [at EXCEPT ![h] = "loop"] /\ affinity' = affinity /\ overlap' = overlap
      BY <1>6, Zenon DEF restore_shell_requeue, requeue_shell, EnterHartLoop
    <2>2. /\ Home(rq)
          /\ NoneIn(runq[affinity["shelld"]], "shelld") => OnceIn(rq[affinity["shelld"]], "shelld")
          /\ \A x \in Services \ {"shelld"} :
                /\ NoneIn(runq[affinity[x]], x) => NoneIn(rq[affinity[x]], x)
                /\ OnceIn(runq[affinity[x]], x) => OnceIn(rq[affinity[x]], x)
      BY <1>0, <1>z, Requeued, Zenon
    <2>3. ~overlap => run[h] = "shelld"
      BY <1>0, <1>6, Zenon DEF restore_shell_requeue, CommandsInProgress, InCommand, OnlyCommand, Alone
    <2> HIDE DEF rq
    <2>4. /\ AtHome'
          /\ ~overlap => \A x \in {"shelld", "gpuid"} : InPlace(x) => InPlace(x)'
      BY <1>0, <1>z, <2>1, <2>2, <2>3, LoopKeeps, Zenon
    <2> QED
      BY <2>1, <2>4, Zenon DEF InPlaces
  <1>7. ASSUME NEW h \in Harts, restore_gui_clear(h)
        PROVE  AtHome' /\ (InPlaces => InPlaces')
    <2> DEFINE mid == RequeueOn(runq, "gpuid")
               rq == RequeueOn(mid, "gui_cmd")
    <2>1. /\ runq' = rq /\ run' = [run EXCEPT ![h] = "idle"] /\ at[h] # "loop"
          /\ at' = [at EXCEPT ![h] = "loop"] /\ affinity' = affinity /\ overlap' = overlap
      BY <1>7, Zenon DEF restore_gui_clear, requeue_gui, EnterHartLoop
    <2>2. /\ Home(mid)
          /\ NoneIn(runq[affinity["gpuid"]], "gpuid") => OnceIn(mid[affinity["gpuid"]], "gpuid")
          /\ \A x \in Services \ {"gpuid"} :
                /\ NoneIn(runq[affinity[x]], x) => NoneIn(mid[affinity[x]], x)
                /\ OnceIn(runq[affinity[x]], x) => OnceIn(mid[affinity[x]], x)
      BY <1>0, <1>z, Requeued, Zenon
    <2> HIDE DEF mid
    <2>3. /\ Home(rq)
          /\ \A x \in Services \ {"gui_cmd"} :
                /\ NoneIn(mid[affinity[x]], x) => NoneIn(rq[affinity[x]], x)
                /\ OnceIn(mid[affinity[x]], x) => OnceIn(rq[affinity[x]], x)
      BY <1>0, <1>z, <2>2, Requeued, Zenon
    <2> HIDE DEF rq
    <2>4. ~overlap => run[h] = "gpuid"
      BY <1>0, <1>7, Zenon DEF restore_gui_clear, CommandsInProgress, InCommand, InContext, OnlyCommand,
           Alone
    <2>5. /\ AtHome'
          /\ ~overlap => \A x \in {"shelld", "gpuid"} : InPlace(x) => InPlace(x)'
      BY <1>0, <1>z, <2>1, <2>2, <2>3, <2>4, LoopKeeps, Zenon
    <2> QED
      BY <2>1, <2>5, Zenon DEF InPlaces
  <1>8. CASE UNCHANGED vars
    BY <1>s, <1>8, Zenon DEF vars
  <1> QED
    BY <1>1, <1>2, <1>3, <1>4, <1>5, <1>6, <1>7, <1>8, Zenon DEF Next, Kernel, User

(* Boot queues each service once. *)
LEMMA HomeInit == Init => AtHome /\ InPlaces
  <1> SUFFICES ASSUME Init PROVE AtHome /\ InPlaces
    BY Zenon
  <1> DEFINE q0 == [h \in Harts |-> <<>>]
             q1 == RequeueOn(q0, "shelld")
             q2 == RequeueOn(q1, "gpuid")
             None0(q, x) == NoneIn(q[affinity[x]], x)
             Once0(q, x) == OnceIn(q[affinity[x]], x)
  <1>1. affinity \in [Services -> Harts] /\ runq = RequeueOn(q2, "gui_cmd")
    BY ExecAssumption, Zenon DEF Init
  <1>2. "shelld" \in Services /\ "gpuid" \in Services /\ "gui_cmd" \in Services
    BY Zenon DEF Services
  <1>3. Home(q0)
    BY DEF Home
  <1>4. \A x \in Services : None0(q0, x)
    BY <1>1 DEF NoneIn
  <1> HIDE DEF q0
  <1>5. Home(q1) /\ Once0(q1, "shelld") /\ None0(q1, "gpuid")
    BY <1>1, <1>2, <1>3, <1>4, Requeued, Zenon
  <1> HIDE DEF q1
  <1>6. Home(q2) /\ Once0(q2, "shelld") /\ Once0(q2, "gpuid")
    BY <1>1, <1>2, <1>5, Requeued, Zenon
  <1> HIDE DEF q2
  <1>7. Home(runq) /\ Once0(runq, "shelld") /\ Once0(runq, "gpuid")
    BY <1>1, <1>2, <1>6, Requeued, Zenon
  <1>8. AtHome
    BY <1>1, <1>7, Zenon DEF Init, AtHome
  <1>9. affinity["shelld"] \in Harts /\ affinity["gpuid"] \in Harts
    BY <1>1, <1>2, Zenon
  <1> QED
    BY <1>7, <1>8, <1>9, Zenon DEF Init, InPlaces, InPlace

(* No program takes a service away and none is queued twice, for any number of harts and
   commands and any placement: the exit path of restore_kernel_context queues exactly the
   service whose frame the program took, as long as no two commands were in progress at
   once. *)
THEOREM ExecServices == Spec => []ServicesKept
<1>1. Init => CtxIInv /\ AtHome /\ InPlaces
  BY ContextInit, HomeInit, Zenon
<1>2. CtxIInv /\ AtHome /\ InPlaces /\ [Next]_vars => CtxIInv' /\ AtHome' /\ InPlaces'
  BY ContextStep, HomeStep, Zenon
<1>3. CtxIInv /\ AtHome /\ InPlaces => ServicesKept
  <2> SUFFICES ASSUME AtHome, NEW p \in Services, InPlace(p)
               PROVE  Once(p)
    BY Zenon DEF InPlaces, ServicesKept, Services
  <2> DEFINE a == affinity[p]
  <2>1. a \in Harts /\ p # "idle" /\ \A h \in Harts : run[h] = p => h = a
    BY Zenon DEF AtHome, Services
  <2>2. CASE run[a] = p
    <3>1. Queued(p) = {}
      BY <2>2, Zenon DEF InPlace, NoneIn, Queued
    <3>2. Runners(p) = {a}
      BY <2>1, <2>2, Zenon DEF Runners
    <3> QED
      BY <3>1, <3>2, Zenon DEF Once
  <2>3. CASE run[a] # p
    <3>1. PICK i \in DOMAIN runq[a] : runq[a][i] = p /\ \A j \in DOMAIN runq[a] : runq[a][j] = p => j = i
      BY <2>3, Zenon DEF InPlace, OnceIn
    <3>2. Queued(p) = {i}
      BY <3>1, Zenon DEF Queued
    <3>3. Runners(p) = {}
      BY <2>1, <2>3, Zenon DEF Runners
    <3> QED
      BY <3>2, <3>3, Zenon DEF Once
  <2> QED
    BY <2>2, <2>3, Zenon
<1> QED
  BY <1>1, <1>2, <1>3, PTL DEF Spec

(* A line that is entered comes after the others and changes none of them. *)
LEMMA LineEntered ==
    ASSUME Shape, NEW l \in [by : Services, elf : BOOLEAN, redirect : BOOLEAN],
           line' = Append(line, l)
    PROVE  /\ Entered \in Nat /\ Entered' = Entered + 1
           /\ line'[Entered + 1] = l
           /\ \A c \in 1 .. Entered : line'[c] = line[c]
  BY DEF Shape, Entered

(* What out_str does to the places where output goes. *)
LEMMA OutStr ==
    ASSUME OfLines, NEW c, out_str(c)
    PROVE  /\ wrote' = wrote \cup {c} /\ capture'.on = capture.on
           /\ capture' = [on |-> capture'.on, buf |-> capture'.buf]
           /\ capture.on => capture'.buf = capture.buf \cup {c} /\ console' = console
           /\ ~capture.on => capture'.buf = capture.buf /\ console' = console \cup {c}
  BY Zenon DEF OfLines, out_str

(* Every step keeps what is known of lines, commands and who printed. *)
LEMMA LinesStep ==
    ASSUME CtxIInv, AtHome, OfLines, [Next]_vars
    PROVE  OfLines'
  <1> USE DEF Goto, hart_vars, flag_vars, out_vars, history, None
  <1>0. Shape /\ CommandsInProgress
    BY Zenon DEF CtxIInv
  <1>i. \A h \in Harts : Busy(h) <=> at[h] \in InCommand
    BY <1>0, Zenon DEF CommandsInProgress
  <1>o. UNCHANGED <<console, file, wrote, capture>> /\ term_running' \in BOOLEAN
        /\ line' = line
        => /\ wrote' \subseteq 1 .. Entered' /\ console' \subseteq 1 .. Entered'
           /\ file' \subseteq 1 .. Entered' /\ capture'.buf \subseteq 1 .. Entered'
           /\ capture' = [on |-> capture'.on, buf |-> capture'.buf]
           /\ capture'.on \in BOOLEAN /\ term_running' \in BOOLEAN
    BY Zenon DEF OfLines, Entered
  <1>1. ASSUME NEW h \in Harts,
               Pick(h) \/ gui_cmd_service(h) \/ shell_tick_ends(h) \/ gpuid_tick_ends(h)
        PROVE  OfLines'
    <2>1. /\ UNCHANGED <<cmd, line, wrote, console, file, capture, leaked>>
          /\ term_running' \in BOOLEAN
          /\ \A g \in Harts \ {h} : run'[g] = run[g] /\ at'[g] = at[g]
          /\ at[h] \in {"loop", "tick"}
      BY <1>0, <1>1, Zenon DEF Pick, gui_cmd_service, shell_tick_ends, gpuid_tick_ends, Return,
           check_gui_command_completion, Shape, OfLines
    <2>2. ~Busy(h)
      BY <1>i, <2>1, Zenon DEF InCommand, InContext, InGui
    <2>3. \A g \in Harts : Busy(g)' => g # h /\ Busy(g)
      BY <2>1, <2>2, Zenon DEF Busy
    <2> QED
      BY <1>o, <2>1, <2>3, Zenon DEF OfLines, Entered
  <1>2. ASSUME NEW h \in Harts,
               read_gui_context(h) \/ execute_elf(h) \/ has_exited(h) \/ restore_gui(h)
               \/ restore_shell(h) \/ sys_exit(h)
        PROVE  OfLines'
    <2>1. /\ UNCHANGED <<run, cmd, line, wrote, console, file, capture, leaked, term_running>>
          /\ \A g \in Harts \ {h} : at'[g] = at[g]
          /\ (at[h] = "line" /\ line[cmd[h]].elf) \/ at[h] \in InProgram
      BY <1>0, <1>2, Zenon DEF read_gui_context, execute_elf, has_exited, restore_gui, restore_shell,
           sys_exit, Shape, InProgram, InContext
    <2>2. Busy(h)
      BY <1>i, <2>1, Zenon DEF InCommand, InContext, InGui, InProgram
    <2>3. line[cmd[h]].elf
      BY <2>1, <2>2, Zenon DEF OfLines
    <2>4. \A g \in Harts : Busy(g)' = Busy(g)
      BY <2>1, Zenon DEF Busy
    <2> QED
      BY <1>o, <2>1, <2>3, <2>4, Zenon DEF OfLines, Entered
  <1>3. ASSUME NEW h \in Harts, execute_command_returns(h) \/ sys_print(h)
        PROVE  OfLines'
    <2>1. /\ UNCHANGED <<run, cmd, line, file, leaked, term_running>> /\ out_str(cmd[h])
          /\ \A g \in Harts \ {h} : at'[g] = at[g]
          /\ (at[h] = "line" /\ at'[h] = "after") \/ at[h] = "user"
      BY <1>0, <1>3, Zenon DEF execute_command_returns, sys_print, Shape
    <2>2. Busy(h)
      BY <1>i, <2>1, Zenon DEF InCommand, InContext, InGui
    <2>3. at'[h] \in InProgram => line[cmd[h]].elf
      BY <2>1, <2>2, Zenon DEF OfLines, InProgram, InContext
    <2>4. \A g \in Harts : Busy(g)' = Busy(g)
      BY <2>1, Zenon DEF Busy
    <2>5. /\ wrote' \subseteq 1 .. Entered /\ console' \subseteq 1 .. Entered
          /\ capture'.buf \subseteq 1 .. Entered /\ capture'.on \in BOOLEAN
          /\ capture' = [on |-> capture'.on, buf |-> capture'.buf]
      BY <2>1, <2>2, OutStr DEF OfLines
    <2> QED
      BY <2>1, <2>3, <2>4, <2>5, Zenon DEF OfLines, Entered
  <1>4. ASSUME NEW h \in Harts,
               handle_line_after(h) \/ terminal_after(h) \/ signal_completion(h)
               \/ restore_gui_clear(h) \/ restore_shell_requeue(h)
        PROVE  OfLines'
    <2>1. /\ UNCHANGED <<line, wrote, console, leaked>> /\ term_running' \in BOOLEAN
          /\ file' \subseteq file \cup capture.buf
          /\ capture'.buf = capture.buf /\ capture'.on \in BOOLEAN
          /\ capture' = [on |-> capture'.on, buf |-> capture'.buf]
      BY <1>4, Zenon DEF handle_line_after, terminal_after, signal_completion, restore_gui_clear,
           restore_shell_requeue, OfLines
    <2>2. \A g \in Harts \ {h} : at'[g] = at[g] /\ run'[g] = run[g] /\ cmd'[g] = cmd[g]
      BY <1>0, <1>4, Zenon DEF handle_line_after, terminal_after, signal_completion, restore_gui_clear,
           restore_shell_requeue, EnterHartLoop, Shape
    <2>3. \/ cmd'[h] = 0
          \/ cmd'[h] = cmd[h] /\ run'[h] = run[h] /\ at[h] = "complete"
      BY <1>0, <1>4, Zenon DEF handle_line_after, terminal_after, signal_completion, restore_gui_clear,
           restore_shell_requeue, EnterHartLoop, Shape
    <2>4. \A g \in Harts : Busy(g)' =>
             /\ Busy(g) /\ cmd'[g] = cmd[g] /\ run'[g] = run[g]
             /\ at'[g] \in InProgram => at[g] \in InProgram
      BY <2>2, <2>3, Zenon DEF Busy, InProgram, InContext
    <2> QED
      BY <2>1, <2>4, Zenon DEF OfLines, Entered
  <1>5. ASSUME NEW h \in Harts, handle_line(h) \/ terminal_execute_command(h)
        PROVE  OfLines'
    <2>1. PICK l \in [by : Services, elf : BOOLEAN, redirect : BOOLEAN] :
             /\ Begin(h, l) /\ l.by = run[h] /\ (capture' = capture \/ output_capture_start)
             /\ leaked' = (leaked \/ (l.by = "shelld" /\ l.elf /\ l.redirect))
             /\ UNCHANGED <<run, wrote, console, file>> /\ term_running' \in BOOLEAN
      BY <1>5, Zenon DEF handle_line, terminal_execute_command, Services, OfLines
    <2>2. /\ Entered \in Nat /\ Entered' = Entered + 1
          /\ line'[Entered + 1] = l
          /\ \A c \in 1 .. Entered : line'[c] = line[c]
      BY <1>0, <2>1, LineEntered, Zenon DEF Begin
    <2>3. /\ cmd'[h] = Entered + 1 /\ at'[h] = "line"
          /\ \A g \in Harts \ {h} : at'[g] = at[g] /\ cmd'[g] = cmd[g]
      BY <1>0, <2>1, Zenon DEF Begin, Shape
    <2>4. ASSUME NEW g \in Harts, Busy(g)'
          PROVE  /\ cmd'[g] \in 1 .. Entered'
                 /\ line'[cmd'[g]].by = run'[g]
                 /\ at'[g] \in InProgram => line'[cmd'[g]].elf
      <3>1. CASE g = h
        BY <2>1, <2>2, <2>3, <3>1 DEF InProgram, InContext
      <3>2. CASE g # h
        <4>1. Busy(g) /\ cmd'[g] = cmd[g] /\ at'[g] = at[g] /\ run'[g] = run[g]
          BY <2>1, <2>3, <2>4, <3>2, Zenon DEF Busy
        <4>2. cmd[g] \in 1 .. Entered /\ line'[cmd[g]] = line[cmd[g]]
          BY <2>2, <4>1, Zenon DEF OfLines
        <4> QED
          BY <2>2, <4>1, <4>2 DEF OfLines
      <3> QED
        BY <3>1, <3>2, Zenon
    <2>5. /\ capture'.buf \subseteq 1 .. Entered /\ capture'.on \in BOOLEAN
          /\ capture' = [on |-> capture'.on, buf |-> capture'.buf]
      <3>1. CASE capture' = capture
        BY <3>1, Zenon DEF OfLines
      <3>2. CASE capture' = [on |-> TRUE, buf |-> {}]
        BY <3>2, Zenon
      <3> QED
        BY <2>1, <3>1, <3>2, Zenon DEF output_capture_start
    <2>6. ~leaked' => \A c \in 1 .. Entered' :
             ~ (line'[c].by = "shelld" /\ line'[c].elf /\ line'[c].redirect)
      BY <2>1, <2>2 DEF OfLines
    <2>7. leaked' \in BOOLEAN
      BY <2>1, Zenon DEF OfLines
    <2> QED
      BY <2>1, <2>2, <2>4, <2>5, <2>6, <2>7 DEF OfLines
  <1>6. CASE UNCHANGED vars
    BY <1>6, Zenon DEF vars, OfLines, Entered, Busy
  <1> QED
    BY <1>1, <1>2, <1>3, <1>4, <1>5, <1>6, Zenon DEF Next, Kernel, User

(* Unless commands overlapped, only one hart is busy; and only one runs gpuid. *)
LEMMA OnlyBusy ==
    ASSUME CtxIInv, ~overlap, NEW g \in Harts, NEW h \in Harts, Busy(g), Busy(h)
    PROVE  g = h
  BY Zenon DEF CtxIInv, OnlyCommand, Alone

LEMMA OneGpuid ==
    ASSUME AtHome, NEW g \in Harts, NEW h \in Harts, run[g] = "gpuid", run[h] = "gpuid"
    PROVE  g = h
  BY DEF AtHome

(* The last command of the terminal, when the last of all is one, and when another
   one of the shell is entered. *)
LEMMA LastIsGui ==
    ASSUME Shape, Entered >= 1, line[Entered].by = "gpuid"
    PROVE  LastGui = {Entered}
  <1>1. Entered \in Nat
    BY DEF Shape, Entered
  <1> QED
    BY <1>1 DEF LastGui

LEMMA LastStaysBy ==
    ASSUME Entered \in Nat, Entered' = Entered + 1, line'[Entered + 1].by = "shelld",
           \A c \in 1 .. Entered : line'[c] = line[c]
    PROVE  LastGui' = LastGui
  <1>2. ASSUME NEW c \in LastGui
        PROVE  c \in LastGui'
    <2>1. /\ c \in 1 .. Entered /\ line[c].by = "gpuid"
          /\ \A d \in c + 1 .. Entered : line[d].by # "gpuid"
      BY <1>2, Zenon DEF LastGui
    <2>2. c \in 1 .. Entered' /\ line'[c].by = "gpuid"
      BY <2>1
    <2>3. ASSUME NEW d \in c + 1 .. Entered'
          PROVE  line'[d].by # "gpuid"
      <3>1. CASE d = Entered + 1
        BY <3>1, Zenon
      <3>2. CASE d # Entered + 1
        <4>1. d \in 1 .. Entered /\ d \in c + 1 .. Entered
          BY <2>1, <3>2
        <4> QED
          BY <2>1, <4>1, Zenon
      <3> QED
        BY <3>1, <3>2, Zenon
    <2> QED
      BY <2>2, <2>3, Zenon DEF LastGui
  <1>3. ASSUME NEW c \in LastGui'
        PROVE  c \in LastGui
    <2>1. /\ c \in 1 .. Entered' /\ line'[c].by = "gpuid"
          /\ \A d \in c + 1 .. Entered' : line'[d].by # "gpuid"
      BY <1>3, Zenon DEF LastGui
    <2>2. c \in 1 .. Entered
      BY <2>1
    <2>3. ASSUME NEW d \in c + 1 .. Entered
          PROVE  line[d].by # "gpuid"
      <3>1. d \in 1 .. Entered /\ d \in c + 1 .. Entered'
        BY <2>2
      <3> QED
        BY <2>1, <3>1, Zenon
    <2> QED
      BY <2>1, <2>2, <2>3, Zenon DEF LastGui
  <1> QED
    BY <1>2, <1>3, Zenon

LEMMA LastStays ==
    ASSUME Shape, NEW l \in [by : Services, elf : BOOLEAN, redirect : BOOLEAN],
           line' = Append(line, l), l.by = "shelld"
    PROVE  LastGui' = LastGui
  <1>1. /\ Entered \in Nat /\ Entered' = Entered + 1
        /\ line'[Entered + 1] = l
        /\ \A c \in 1 .. Entered : line'[c] = line[c]
    BY LineEntered, Zenon
  <1> QED
    BY <1>1, LastStaysBy, Zenon

(* Where output is, while no commands overlapped. *)
OutInv == Captured /\ InWindow /\ OnConsole /\ ShellOutputArrives

(* A step that touches no output and no flag of the terminal, and after which the
   captured command is the one of before, keeps all of it. *)
LEMMA Unaffected ==
    ASSUME OutInv, ~overlap,
           UNCHANGED <<line, wrote, console, file, capture, leaked, terminal, result,
                       term_running>>,
           \A g \in Harts : Busy(g)' => Busy(g) /\ cmd'[g] = cmd[g] /\ run'[g] = run[g],
           \A g \in Harts : InTerminal(g)' <=> InTerminal(g),
           \A g \in Harts : Redirected(g)' => Redirected(g),
           ~leaked => \A g \in Harts : Redirected(g) => Redirected(g)'
    PROVE  OutInv'
  <1>0. Entered' = Entered /\ LastGui' = LastGui
    BY Zenon DEF Entered, LastGui
  <1>1. Captured'
    <2>1. ASSUME NEW g \in Harts, InTerminal(g)' \/ Redirected(g)'
          PROVE  capture.on /\ capture.buf = {cmd'[g]} \cap wrote
      <3>1. InTerminal(g) \/ Redirected(g)
        BY <2>1, Zenon
      <3>2. cmd'[g] = cmd[g]
        BY <2>1, Zenon DEF InTerminal, Redirected
      <3> QED
        BY <3>1, <3>2, Zenon DEF OutInv, Captured
    <2> QED
      BY <1>0, <2>1, Zenon DEF OutInv, Captured
  <1>2. InWindow'
    BY <1>0, Zenon DEF OutInv, InWindow
  <1>3. OnConsole'
    BY Zenon DEF OutInv, OnConsole
  <1>4. ShellOutputArrives'
    BY Zenon DEF OutInv, ShellOutputArrives
  <1> QED
    BY <1>1, <1>2, <1>3, <1>4, Zenon DEF OutInv

(* hart_loop's own steps run no command; the end of a gpuid tick hands the result to
   the terminal. *)
LEMMA OutputLoop ==
    ASSUME CtxIInv, AtHome, OfLines, OutInv, ~overlap, NEW h \in Harts,
           Pick(h) \/ gui_cmd_service(h) \/ shell_tick_ends(h) \/ gpuid_tick_ends(h)
    PROVE  OutInv'
  <1> USE DEF Goto, hart_vars, flag_vars, out_vars, history, None
  <1>0. Shape /\ CommandsInProgress
    BY Zenon DEF CtxIInv
  <1>1. /\ UNCHANGED <<cmd, line, wrote, console, file, capture, leaked>>
        /\ \A g \in Harts \ {h} : run'[g] = run[g] /\ at'[g] = at[g]
        /\ at[h] \in {"loop", "tick"}
    BY <1>0, Zenon DEF Pick, gui_cmd_service, shell_tick_ends, gpuid_tick_ends, Return, Shape
  <1>2. ~Busy(h)
    BY <1>0, <1>1, Zenon DEF CommandsInProgress, InCommand, InContext, InGui
  <1>3. \A g \in Harts : /\ Busy(g)' => Busy(g) /\ cmd'[g] = cmd[g] /\ run'[g] = run[g]
                         /\ InTerminal(g)' <=> InTerminal(g)
                         /\ Redirected(g)' <=> Redirected(g)
    BY <1>1, <1>2, Zenon DEF Busy, InTerminal, Redirected
  <1>4. CASE UNCHANGED <<terminal, result, term_running>>
    BY <1>1, <1>3, <1>4, Unaffected, Zenon
  <1>5. CASE ~ UNCHANGED <<terminal, result, term_running>>
    <2>1. /\ run[h] = "gpuid" /\ term_running /\ ~term_running' /\ terminal' = result
      BY <1>5, Zenon DEF Pick, gui_cmd_service, shell_tick_ends, gpuid_tick_ends,
           check_gui_command_completion
    <2>2. \A g \in Harts : ~ (Busy(g) /\ run[g] = "gpuid")
      BY <1>2, <2>1, OneGpuid, Zenon
    <2>3. Entered' = Entered /\ LastGui' = LastGui
      BY <1>1, Zenon DEF Entered, LastGui
    <2>4. result = LastGui \cap wrote
      BY <2>1, <2>2, Zenon DEF OutInv, InWindow, InTerminal
    <2>5. Captured'
      BY <1>1, <1>3, <2>3, SMTT(30), ZenonT(30) DEF OutInv, Captured
    <2>6. InWindow'
      BY <1>1, <1>3, <2>1, <2>2, <2>3, <2>4 DEF InWindow
    <2>7. OnConsole'
      BY <1>1, <1>3, Zenon DEF OutInv, OnConsole, Pick, gui_cmd_service, shell_tick_ends,
           gpuid_tick_ends
    <2>8. ShellOutputArrives'
      BY <1>1, Zenon DEF OutInv, ShellOutputArrives
    <2> QED
      BY <2>5, <2>6, <2>7, <2>8 DEF OutInv
  <1> QED
    BY <1>4, <1>5, Zenon

(* The steps of a program that print nothing: the one of the terminal stays the one
   whose output is captured until it has signalled its completion. *)
LEMMA OutputMoves ==
    ASSUME CtxIInv, OfLines, OutInv, ~overlap, NEW h \in Harts,
           \/ read_gui_context(h) \/ execute_elf(h) \/ has_exited(h) \/ restore_gui(h)
           \/ restore_shell(h) \/ sys_exit(h)
    PROVE  OutInv'
  <1> USE DEF Goto, hart_vars, flag_vars, out_vars, history, None
  <1>0. Shape /\ CommandsInProgress
    BY Zenon DEF CtxIInv
  <1>1. /\ UNCHANGED <<run, cmd, line, wrote, console, file, capture, leaked, terminal,
                       result, term_running>>
        /\ \A g \in Harts \ {h} : at'[g] = at[g]
        /\ (at[h] = "line" /\ line[cmd[h]].elf) \/ at[h] \in InProgram
        /\ at'[h] \notin {"line", "after"}
    BY <1>0 DEF read_gui_context, execute_elf, has_exited, restore_gui, restore_shell,
         sys_exit, Shape, InProgram, InContext
  <1>2. Busy(h)
    BY <1>0, <1>1, Zenon DEF CommandsInProgress, InCommand, InContext, InGui, InProgram
  <1>3. Alone(h)
    BY <1>2, Zenon DEF CtxIInv, OnlyCommand
  <1>4. run[h] = "gpuid" => (at[h] \in InGui <=> at'[h] \in InGui)
    <2>1. CASE read_gui_context(h) \/ execute_elf(h) \/ restore_gui(h) \/ sys_exit(h)
      BY <1>0, <2>1, Zenon DEF read_gui_context, execute_elf, restore_gui, sys_exit, Shape, InGui
    <2>2. CASE has_exited(h)
      BY <1>0, <1>3, <2>2, Zenon DEF has_exited, Shape, InGui, Alone
    <2>3. CASE restore_shell(h)
      BY <1>3, <2>3, Zenon DEF restore_shell, Alone, InContext
    <2> QED
      BY <2>1, <2>2, <2>3
  <1>5. \A g \in Harts : /\ Busy(g)' => Busy(g) /\ cmd'[g] = cmd[g] /\ run'[g] = run[g]
                         /\ InTerminal(g)' <=> InTerminal(g)
    BY <1>1, <1>4, Zenon DEF Busy, InTerminal
  <1>6. \A g \in Harts : Redirected(g)' => Redirected(g)
    BY <1>1, Zenon DEF Busy, Redirected
  <1>7. ASSUME ~leaked, NEW g \in Harts, Redirected(g)
        PROVE  Redirected(g)'
    <2>1. line[cmd[h]].elf /\ cmd[h] \in 1 .. Entered /\ line[cmd[h]].by = run[h]
      BY <1>1, <1>2, Zenon DEF OfLines
    <2>2. ~ Redirected(h)
      BY <1>7, <2>1, Zenon DEF OfLines, Redirected
    <2> QED
      BY <1>1, <1>7, <2>2, Zenon DEF Busy, Redirected
  <1> QED
    BY <1>1, <1>5, <1>6, <1>7, Unaffected

(* A command prints: into the capture if it is its own, else onto the console. *)
LEMMA OutputPrints ==
    ASSUME CtxIInv, OfLines, OutInv, ~overlap, NEW h \in Harts,
           execute_command_returns(h) \/ sys_print(h)
    PROVE  OutInv'
  <1> USE DEF Goto, hart_vars, flag_vars, out_vars, history, None
  <1> DEFINE c == cmd[h]
  <1>0. Shape /\ CommandsInProgress
    BY Zenon DEF CtxIInv
  <1>1. /\ UNCHANGED <<run, cmd, line, file, terminal, result, term_running>>
        /\ out_str(cmd[h]) /\ leaked' = leaked /\ overlap' = overlap
        /\ \A g \in Harts \ {h} : at'[g] = at[g]
        /\ \/ at[h] = "line" /\ at'[h] = "after"
           \/ at[h] = "user" /\ at'[h] = "check"
    <2>1. CASE execute_command_returns(h)
      BY <1>0, <2>1, Zenon DEF execute_command_returns, Shape
    <2>2. CASE sys_print(h)
      BY <1>0, <2>2, Zenon DEF sys_print, Shape
    <2> QED
      BY <2>1, <2>2, Zenon
  <1>2. Busy(h)
    BY <1>0, <1>1, Zenon DEF CommandsInProgress, InCommand, InContext, InGui
  <1>3. \A g \in Harts : Busy(g) => g = h
    BY <1>2, OnlyBusy, Zenon
  <1>4. /\ wrote' = wrote \cup {c} /\ capture'.on = capture.on
        /\ capture.on => capture'.buf = capture.buf \cup {c} /\ console' = console
        /\ ~capture.on => capture'.buf = capture.buf /\ console' = console \cup {c}
    BY <1>1, OutStr, Zenon
  <1>5. /\ c \in 1 .. Entered /\ line[c].by = run[h]
        /\ at[h] = "user" => line[c].elf
    BY <1>1, <1>2, Zenon DEF OfLines, InProgram, InContext
  <1>6. Entered' = Entered /\ LastGui' = LastGui
    BY <1>1, Zenon DEF Entered, LastGui
  <1>7. \A g \in Harts : /\ Busy(g)' <=> Busy(g)
                         /\ InTerminal(g)' <=> InTerminal(g)
                         /\ Redirected(g)' <=> Redirected(g)
    BY <1>1 DEF Busy, InTerminal, Redirected, InGui
  <1>8. run[h] = "gpuid" => InTerminal(h)
    BY <1>1, <1>2, Zenon DEF InTerminal, InGui
  <1>9. ~leaked /\ line[c].by = "shelld" /\ line[c].redirect => Redirected(h)
    BY <1>1, <1>2, <1>5, SMTT(30), ZenonT(30) DEF Redirected, OfLines
  <1> HIDE DEF c
  <1>10. Captured'
    <2>1. ASSUME NEW g \in Harts, InTerminal(g)' \/ Redirected(g)'
          PROVE  capture'.on /\ capture'.buf = {cmd'[g]} \cap wrote'
      <3>1. InTerminal(g) \/ Redirected(g)
        BY <1>7, <2>1, Zenon
      <3>2. g = h /\ cmd'[g] = c
        BY <1>1, <1>3, <3>1 DEF InTerminal, Redirected, c
      <3>3. capture.on /\ capture.buf = {c} \cap wrote
        BY <3>1, <3>2, ZenonT(30) DEF OutInv, Captured, c
      <3> QED
        BY <1>4, <3>2, <3>3, Zenon
    <2> QED
      BY <1>1, <1>6, <1>7, <2>1, Zenon DEF OutInv, Captured
  <1>11. InWindow'
    <2>1. line[c].by # "gpuid" => LastGui \cap wrote' = LastGui \cap wrote
      BY <1>4, Zenon DEF LastGui
    <2>2. run[h] = "gpuid" => term_running
      BY <1>2, Zenon DEF OutInv, InWindow
    <2> QED
      BY <1>1, <1>5, <1>6, <1>7, <1>8, <2>1, <2>2, SMTT(30), ZenonT(30) DEF OutInv, InWindow
  <1>12. OnConsole'
    <2>1. ASSUME ~leaked
          PROVE  \A d \in console' : ~ (line[d].by = "shelld" /\ line[d].redirect)
      BY <1>4, <1>9, <2>1 DEF OutInv, OnConsole, Captured
    <2> QED
      BY <1>1, <1>4, <1>7, <2>1, SMTT(30), ZenonT(30) DEF OutInv, OnConsole
  <1>13. ShellOutputArrives'
    <2>1. SUFFICES ASSUME ~leaked, NEW d \in wrote', line[d].by = "shelld"
                   PROVE  IF ~line[d].redirect THEN d \in console'
                          ELSE d \in file \ console' \/ (capture'.on /\ d \in capture'.buf)
      BY <1>1, Zenon DEF OutInv, ShellOutputArrives
    <2>2. line[d].redirect => d \notin console'
      BY <1>1, <1>12, <2>1 DEF OnConsole
    <2>3. CASE d \in wrote
      BY <1>4, <2>1, <2>2, <2>3 DEF OutInv, ShellOutputArrives
    <2>4. CASE d = c /\ ~capture.on
      BY <1>4, <2>1, <2>2, <2>4
    <2>5. CASE d = c /\ capture.on
      <3>1. Redirected(h)
        BY <1>3, <1>5, <2>1, <2>5 DEF OutInv, OnConsole, InTerminal, Redirected
      <3>2. line[d].redirect
        BY <2>5, <3>1, Zenon DEF Redirected, c
      <3> QED
        BY <1>4, <2>5, <3>2
    <2> QED
      BY <1>4, <2>3, <2>4, <2>5
  <1> QED
    BY <1>10, <1>11, <1>12, <1>13 DEF OutInv

(* A command ends, or a program signals that it is about to: the shell's goes from the
   capture to its file, the terminal's to the window or to the result. *)
LEMMA OutputShellEnds ==
    ASSUME CtxIInv, OfLines, OutInv, ~overlap, NEW h \in Harts, handle_line_after(h)
    PROVE  OutInv'
  <1> USE DEF Goto, hart_vars, flag_vars, out_vars, history, None
  <1>0. Shape /\ CommandsInProgress
    BY Zenon DEF CtxIInv
  <1>1. /\ UNCHANGED <<run, line, console, wrote, terminal, result, term_running>>
        /\ leaked' = leaked /\ overlap' = overlap
        /\ at[h] = "after" /\ run[h] = "shelld" /\ cmd'[h] = 0
        /\ \A g \in Harts \ {h} : cmd'[g] = cmd[g]
    BY <1>0, Zenon DEF handle_line_after, Shape
  <1>2. Busy(h)
    BY <1>0, <1>1, Zenon DEF CommandsInProgress, InCommand, InContext, InGui
  <1>3. \A g \in Harts : Busy(g) => g = h
    BY <1>2, OnlyBusy, Zenon
  <1>4. \A g \in Harts : ~Busy(g)' /\ ~InTerminal(g) /\ ~InTerminal(g)'
    BY <1>1, <1>3, Zenon DEF Busy, InTerminal
  <1>5. Entered' = Entered /\ LastGui' = LastGui
    BY <1>1, Zenon DEF Entered, LastGui
  <1>6. CASE line[cmd[h]].redirect
    <2>1. capture'.on = FALSE /\ file' = file \cup capture.buf
      BY <1>6, Zenon DEF handle_line_after, OfLines
    <2>2. Redirected(h)
      BY <1>1, <1>2, <1>6, Zenon DEF Redirected
    <2>3. capture.buf \subseteq {cmd[h]} /\ line[cmd[h]].by = "shelld"
      BY <1>1, <1>2, <2>2, ZenonT(30) DEF OutInv, Captured, OfLines
    <2>4. Captured' /\ InWindow' /\ OnConsole'
      BY <1>1, <1>4, <1>5, <2>1, SMTT(30), ZenonT(30) DEF OutInv, Captured, InWindow, OnConsole, Redirected, InTerminal
    <2>5. ShellOutputArrives'
      BY <1>1, <1>6, <2>1, <2>3 DEF OutInv, ShellOutputArrives, OnConsole
    <2> QED
      BY <2>4, <2>5, Zenon DEF OutInv
  <1>7. CASE ~line[cmd[h]].redirect
    <2>1. UNCHANGED <<capture, file>>
      BY <1>7, Zenon DEF handle_line_after
    <2>2. \A g \in Harts : ~Redirected(g) /\ ~Redirected(g)'
      BY <1>3, <1>4, <1>7 DEF Redirected
    <2> QED
      BY <1>1, <1>4, <2>1, <2>2, Unaffected
  <1> QED
    BY <1>6, <1>7, Zenon

LEMMA OutputTerminalEnds ==
    ASSUME CtxIInv, OfLines, OutInv, ~overlap, NEW h \in Harts,
           terminal_after(h) \/ signal_completion(h)
    PROVE  OutInv'
  <1> USE DEF Goto, hart_vars, flag_vars, out_vars, history, None
  <1>0. Shape /\ CommandsInProgress
    BY Zenon DEF CtxIInv
  <1>1. /\ UNCHANGED <<run, line, console, file, wrote>>
        /\ leaked' = leaked /\ overlap' = overlap /\ capture'.on = FALSE
        /\ \A g \in Harts \ {h} : cmd'[g] = cmd[g]
    BY <1>0, Zenon DEF terminal_after, signal_completion, Shape, OfLines
  <1>2. \/ /\ at[h] = "after" /\ run[h] = "gpuid" /\ cmd'[h] = 0
           /\ terminal' = capture.buf /\ term_running' = FALSE
        \/ /\ at[h] = "complete" /\ at'[h] = "gui_clear" /\ cmd'[h] = cmd[h]
           /\ result' = capture.buf /\ term_running' = term_running
    BY <1>0, Zenon DEF terminal_after, signal_completion, store_result, Shape
  <1>3. Busy(h)
    BY <1>0, <1>2, Zenon DEF CommandsInProgress, InCommand, InContext, InGui
  <1>4. InTerminal(h)
    BY <1>2, <1>3 DEF CtxIInv, OnlyCommand, Alone, InTerminal, InGui
  <1>5. \A g \in Harts : Busy(g) => g = h
    BY <1>3, OnlyBusy, Zenon
  <1>6. \A g \in Harts : ~InTerminal(g)' /\ ~Redirected(g)'
    BY <1>1, <1>2, <1>4, <1>5 DEF Busy, InTerminal, Redirected, InGui
  <1>7. Entered' = Entered /\ LastGui' = LastGui
    BY <1>1, Zenon DEF Entered, LastGui
  <1>8. line[cmd[h]].by = "gpuid" /\ cmd[h] = Entered /\ Entered >= 1
        /\ capture.buf = {cmd[h]} \cap wrote
    BY <1>0, <1>3, <1>4 DEF OutInv, Captured, OfLines, InTerminal, Shape
  <1>9. capture.buf = LastGui \cap wrote
    BY <1>0, <1>8, LastIsGui, Zenon
  <1>10. Captured'
    BY <1>1, <1>2, <1>5, <1>6, <1>7, <1>8, ZenonT(30) DEF Captured, Busy
  <1>11. InWindow'
    <2>1. \A g \in Harts : Busy(g)' /\ run'[g] = "gpuid" => term_running'
      <3>1. CASE at[h] = "after" /\ cmd'[h] = 0
        BY <1>1, <1>5, <3>1, Zenon DEF Busy
      <3>2. CASE at[h] = "complete" /\ term_running' = term_running /\ cmd'[h] = cmd[h]
        <4>1. term_running
          BY <1>3, <1>4, Zenon DEF OutInv, InWindow, InTerminal
        <4> QED
          BY <3>2, <4>1, Zenon
      <3> QED
        BY <1>2, <3>1, <3>2, Zenon
    <2>2. term_running' => result' = LastGui' \cap wrote'
      BY <1>1, <1>2, <1>7, <1>9, Zenon
    <2>3. ~term_running' => terminal' = LastGui' \cap wrote'
      <3>1. term_running
        BY <1>3, <1>4, Zenon DEF OutInv, InWindow, InTerminal
      <3> QED
        BY <1>1, <1>2, <1>7, <1>9, <3>1, Zenon
    <2> QED
      BY <2>1, <2>2, <2>3, Zenon DEF InWindow
  <1>12. OnConsole'
    BY <1>1, Zenon DEF OutInv, OnConsole
  <1>13. ShellOutputArrives'
    BY <1>1, <1>8, Zenon DEF OutInv, ShellOutputArrives
  <1> QED
    BY <1>10, <1>11, <1>12, <1>13, Zenon DEF OutInv

LEMMA OutputLeaves ==
    ASSUME CtxIInv, OutInv, ~overlap, NEW h \in Harts,
           restore_gui_clear(h) \/ restore_shell_requeue(h)
    PROVE  OutInv'
  <1> USE DEF Goto, hart_vars, flag_vars, out_vars, history, None
  <1>0. Shape /\ CommandsInProgress
    BY Zenon DEF CtxIInv
  <1>1. /\ UNCHANGED <<line, wrote, console, file, capture, leaked, terminal, result,
                       term_running>>
        /\ at[h] \in {"gui_clear", "requeue"} /\ cmd'[h] = 0
        /\ \A g \in Harts \ {h} : cmd'[g] = cmd[g] /\ run'[g] = run[g] /\ at'[g] = at[g]
    BY <1>0, ZenonT(30) DEF restore_gui_clear, restore_shell_requeue, EnterHartLoop, Shape
  <1>2. \A g \in Harts : /\ Busy(g)' => Busy(g) /\ cmd'[g] = cmd[g] /\ run'[g] = run[g]
                         /\ InTerminal(g)' <=> InTerminal(g)
                         /\ Redirected(g)' <=> Redirected(g)
    BY <1>1 DEF Busy, InTerminal, Redirected, InGui
  <1> QED
    BY <1>1, <1>2, Unaffected, Zenon

(* A command is entered while none runs: the capture is off, and starts empty for it
   when it is one that captures. *)
LEMMA OutputBegins ==
    ASSUME CtxIInv, OfLines, OutInv, NEW h \in Harts, ~overlap',
           handle_line(h) \/ terminal_execute_command(h)
    PROVE  OutInv'
  <1> USE DEF Goto, hart_vars, flag_vars, out_vars, history, None
  <1>0. Shape /\ CommandsInProgress
    BY Zenon DEF CtxIInv
  <1>1. PICK l \in [by : Services, elf : BOOLEAN, redirect : BOOLEAN] :
           /\ Begin(h, l) /\ l.by = run[h] /\ at[h] = "tick"
           /\ \/ /\ l.by = "shelld" /\ UNCHANGED term_running
                 /\ IF l.redirect THEN output_capture_start ELSE UNCHANGED capture
              \/ l.by = "gpuid" /\ term_running' = TRUE /\ output_capture_start
           /\ leaked' = (leaked \/ (l.by = "shelld" /\ l.elf /\ l.redirect))
           /\ UNCHANGED <<run, wrote, console, file, result>>
           /\ l.by = "shelld" => terminal' = terminal
    <2>1. CASE handle_line(h)
      <3>1. PICK elf, redirect \in BOOLEAN :
               /\ Begin(h, [by |-> "shelld", elf |-> elf, redirect |-> redirect])
               /\ IF redirect THEN output_capture_start ELSE UNCHANGED capture
               /\ leaked' = (leaked \/ (elf /\ redirect))
        BY <2>1, Zenon DEF handle_line
      <3>2. [by |-> "shelld", elf |-> elf, redirect |-> redirect]
            \in [by : Services, elf : BOOLEAN, redirect : BOOLEAN]
        BY Zenon DEF Services
      <3>3. /\ at[h] = "tick" /\ run[h] = "shelld" /\ UNCHANGED <<term_running, terminal>>
            /\ UNCHANGED <<run, wrote, console, file, result>>
        BY <2>1, Zenon DEF handle_line
      <3> QED
        BY <3>1, <3>2, <3>3, Zenon
    <2>2. CASE terminal_execute_command(h)
      <3>1. PICK elf \in BOOLEAN :
               Begin(h, [by |-> "gpuid", elf |-> elf, redirect |-> FALSE])
        BY <2>2, Zenon DEF terminal_execute_command
      <3>2. [by |-> "gpuid", elf |-> elf, redirect |-> FALSE]
            \in [by : Services, elf : BOOLEAN, redirect : BOOLEAN]
        BY Zenon DEF Services
      <3>3. /\ at[h] = "tick" /\ run[h] = "gpuid" /\ term_running' = TRUE /\ leaked' = leaked
            /\ output_capture_start /\ UNCHANGED <<run, wrote, console, file, result>>
        BY <2>2, Zenon DEF terminal_execute_command
      <3>4. leaked \in BOOLEAN
        BY Zenon DEF OfLines
      <3> QED
        BY <3>1, <3>2, <3>3, <3>4, Zenon
    <2> QED
      BY <2>1, <2>2, Zenon
  <1>2. /\ Entered \in Nat /\ Entered' = Entered + 1
        /\ line'[Entered + 1] = l
        /\ \A c \in 1 .. Entered : line'[c] = line[c]
    BY <1>0, <1>1, LineEntered, Zenon DEF Begin
  <1>3. /\ cmd'[h] = Entered + 1 /\ at'[h] = "line" /\ ~overlap
        /\ \A g \in Harts \ {h} : cmd'[g] = cmd[g] /\ ~Busy(g)
    BY <1>0, <1>1, Zenon DEF Begin, Shape
  <1>4. \A g \in Harts : ~Busy(g) /\ ~InTerminal(g) /\ ~Redirected(g)
    BY <1>0, <1>1, <1>3, Zenon DEF CommandsInProgress, InCommand, InContext, InGui, InTerminal,
         Redirected
  <1>5. \A g \in Harts : Busy(g)' => g = h
    BY <1>3, Zenon DEF Busy
  <1>6. Busy(h)'
    BY <1>2, <1>3 DEF Busy
  <1>7. /\ InTerminal(h)' <=> l.by = "gpuid"
        /\ Redirected(h)' <=> l.by = "shelld" /\ l.redirect
    BY <1>1, <1>2, <1>3, <1>6, Zenon DEF InTerminal, Redirected, InGui
  <1>8. wrote' \subseteq 1 .. Entered /\ console' \subseteq 1 .. Entered
        /\ file' \subseteq 1 .. Entered
    BY <1>1, Zenon DEF OfLines
  <1>9. Captured'
    <2>1. ASSUME NEW g \in Harts, InTerminal(g)' \/ Redirected(g)'
          PROVE  capture'.on /\ capture'.buf = {cmd'[g]} \cap wrote'
      <3>1. g = h
        BY <1>5, <2>1, ZenonT(30) DEF InTerminal, Redirected
      <3>2. output_capture_start
        BY <1>1, <1>7, <2>1, <3>1
      <3>3. {Entered + 1} \cap wrote' = {}
        BY <1>2, <1>8, SMTT(30), ZenonT(30)
      <3> QED
        BY <1>3, <3>1, <3>2, <3>3, Zenon DEF output_capture_start
    <2> QED
      BY <1>2, <1>3, <1>5, <2>1, Zenon DEF Captured
  <1>10. InWindow'
    <2>1. CASE l.by = "gpuid"
      BY <1>1, <1>7, <2>1, ZenonT(30) DEF InWindow
    <2>2. CASE l.by = "shelld"
      <3>1. LastGui' = LastGui
        BY <1>0, <1>1, <2>2, LastStays, Zenon DEF Begin
      <3>2. \A g \in Harts : Busy(g)' => run'[g] # "gpuid"
        BY <1>1, <1>5, <2>2, Zenon
      <3> QED
        BY <1>1, <1>3, <1>4, <2>2, <3>1, <3>2 DEF OutInv, InWindow
    <2> QED
      BY <1>1, <2>1, <2>2
  <1>11. ~leaked' => ~leaked /\ ~capture.on
    BY <1>1, <1>3, <1>4, Zenon DEF OutInv, OnConsole
  <1>12. OnConsole'
    <2>1. ASSUME ~leaked', capture'.on
          PROVE  InTerminal(h)' \/ Redirected(h)'
      BY <1>1, <1>7, <1>11, <2>1, ZenonT(30)
    <2>2. ASSUME ~leaked', NEW c \in console'
          PROVE  ~ (line'[c].by = "shelld" /\ line'[c].redirect)
      <3>1. line'[c] = line[c] /\ c \in console
        BY <1>1, <1>2, <1>8, Zenon
      <3> QED
        BY <1>3, <1>11, <2>2, <3>1 DEF OutInv, OnConsole
    <2> QED
      BY <2>1, <2>2, Zenon DEF OnConsole
  <1>13. ShellOutputArrives'
    <2>1. ASSUME ~leaked', NEW c \in file'
          PROVE  line'[c].by = "shelld" /\ line'[c].redirect
      <3>1. line'[c] = line[c] /\ c \in file
        BY <1>1, <1>2, <1>8, ZenonT(30)
      <3> QED
        BY <1>3, <1>11, <2>1, <3>1 DEF OutInv, ShellOutputArrives
    <2>2. ASSUME ~leaked', NEW c \in wrote', line'[c].by = "shelld"
          PROVE  IF ~line'[c].redirect THEN c \in console' ELSE c \in file' \ console'
      <3>1. line'[c] = line[c] /\ c \in wrote
        BY <1>1, <1>2, <1>8, Zenon
      <3> QED
        BY <1>1, <1>3, <1>11, <2>2, <3>1 DEF OutInv, ShellOutputArrives
    <2> QED
      BY <2>1, <2>2, Zenon DEF ShellOutputArrives
  <1> QED
    BY <1>9, <1>10, <1>12, <1>13, Zenon DEF OutInv

(* All of it, for every step. *)
LEMMA OutputStep ==
    ASSUME CtxIInv, AtHome, OfLines, OutInv, [Next]_vars
    PROVE  OutInv'
  <1>1. CASE overlap'
    BY <1>1, Zenon DEF OutInv, Captured, InWindow, OnConsole, ShellOutputArrives
  <1>2. CASE ~overlap'
    <2>1. CASE UNCHANGED vars
      <3>1. /\ UNCHANGED <<line, wrote, console, file, capture, leaked, terminal, result,
                           term_running>>
            /\ UNCHANGED <<at, run, cmd, overlap>>
        BY <2>1, Zenon DEF vars, hart_vars, flag_vars, out_vars, history
      <3>2. \A g \in Harts : /\ Busy(g)' => Busy(g) /\ cmd'[g] = cmd[g] /\ run'[g] = run[g]
                             /\ InTerminal(g)' <=> InTerminal(g)
                             /\ Redirected(g)' <=> Redirected(g)
        BY <3>1, Zenon DEF Busy, InTerminal, Redirected
      <3> QED
        BY <1>2, <3>1, <3>2, Unaffected, Zenon
    <2>2. ASSUME NEW h \in Harts, Kernel(h) \/ User(h) \/ sys_exit(h)
          PROVE  OutInv'
      <3>1. CASE handle_line(h) \/ terminal_execute_command(h)
        BY <1>2, <3>1, OutputBegins, Zenon
      <3>2. CASE ~ (handle_line(h) \/ terminal_execute_command(h))
        <4>1. ~overlap
          BY <1>2, <2>2, <3>2, Zenon DEF Kernel, User, Pick, gui_cmd_service, shell_tick_ends,
               gpuid_tick_ends, execute_command_returns, handle_line_after, terminal_after,
               read_gui_context, execute_elf, has_exited, restore_gui, signal_completion,
               restore_gui_clear, restore_shell, restore_shell_requeue, sys_print, sys_exit,
               history
        <4> QED
          BY <2>2, <3>2, <4>1, OutputLoop, OutputMoves, OutputPrints, OutputShellEnds,
             OutputTerminalEnds, OutputLeaves, SMTT(30), ZenonT(30) DEF Kernel, User
      <3> QED
        BY <3>1, <3>2, Zenon
    <2> QED
      BY <2>1, <2>2, Zenon DEF Next
  <1> QED
    BY <1>1, <1>2, Zenon

LEMMA OutputInit == Init => OfLines /\ OutInv
  <1> SUFFICES ASSUME Init
               PROVE  OfLines /\ OutInv
    BY Zenon
  <1>1. Entered = 0 /\ \A h \in Harts : ~Busy(h)
    BY Zenon DEF Init, Entered, Busy
  <1>2. LastGui = {}
    BY <1>1 DEF LastGui
  <1>3. capture = [on |-> FALSE, buf |-> {}] /\ leaked = FALSE /\ term_running = FALSE
        /\ wrote = {} /\ console = {} /\ file = {}
    BY Zenon DEF Init
  <1>5. OfLines
    <2>1. capture.on = FALSE /\ capture.buf = {}
      BY <1>3, Zenon
    <2>2. capture = [on |-> capture.on, buf |-> capture.buf]
      BY <1>3, Zenon
    <2>3. 1 .. Entered = {}
      BY <1>1
    <2> QED
      BY <1>1, <1>3, <2>1, <2>2, <2>3, Zenon DEF OfLines
  <1>4. Captured /\ InWindow /\ OnConsole /\ ShellOutputArrives
    BY <1>1, <1>2, Zenon DEF Init, Captured, InWindow, OnConsole, ShellOutputArrives, InTerminal,
         Redirected
  <1> QED
    BY <1>4, <1>5, Zenon DEF OutInv

(* The inductive invariant of the output. *)
LEMMA ExecOutput == Spec => [](CtxIInv /\ AtHome /\ OfLines /\ OutInv)
  <1>1. Init => CtxIInv /\ AtHome /\ OfLines /\ OutInv
    BY ContextInit, HomeInit, OutputInit, Zenon
  <1>2. CtxIInv /\ AtHome /\ OfLines /\ OutInv /\ [Next]_vars
        => (CtxIInv /\ AtHome /\ OfLines /\ OutInv)'
    BY ContextStep, HomeStep, LinesStep, OutputStep, Zenon
  <1> QED
    BY <1>1, <1>2, PTL DEF Spec

(* The terminal shows exactly what its last command printed whenever it is not waiting
   (terminal_execute_command, signal_completion, check_gui_command_completion), for any
   number of harts, pinning of the services and number of commands; unless commands
   overlapped. *)
THEOREM ExecTerminal == Spec => []TerminalShowsLastCommand
  <1>1. OutInv => TerminalShowsLastCommand
    BY Zenon DEF OutInv, InWindow, TerminalShowsLastCommand
  <1> QED
    BY <1>1, ExecOutput, PTL

(* What a shell command prints reaches the console, or its file when it is redirected,
   and nothing else reaches the file (handle_line, out_str); unless commands overlapped
   or a program was started with its output redirected. *)
THEOREM ExecShellOutput == Spec => []ShellOutputArrives
  <1>1. OutInv => ShellOutputArrives
    BY Zenon DEF OutInv
  <1> QED
    BY <1>1, ExecOutput, PTL

=============================================================================
