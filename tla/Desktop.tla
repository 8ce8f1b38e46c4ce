------------------------------ MODULE Desktop ------------------------------
(***************************************************************************)
(* The graphical desktop: the touch and keyboard driver (d1_touch.rs), the *)
(* gpuid service that drains its events (gpuid.rs), the main screen with   *)
(* its two windows (main_screen.rs), the back and the front buffer         *)
(* (d1_display.rs), and the requests through which gpuid reaches the       *)
(* devices when it does not run on hart 0 (display_proxy.rs).              *)
(*                                                                         *)
(* A command entered into the terminal window runs inside the handler of   *)
(* the event that entered it.  A native program takes gpuid's hart and     *)
(* never returns to the handler; a WASM program keeps the handler waiting  *)
(* and handles further events itself, nested, from its host calls.         *)
(*                                                                         *)
(* A buffer is abstracted to what its window area shows.  What a program   *)
(* prints is abstracted to a sequence of tokens.                           *)
(***************************************************************************)
EXTENDS Integers, Sequences

CONSTANTS
    RING,                   \* slots of the driver's event ring
    TERMINAL_INPUT_MAX,
    Sessions,               \* [direct, inputs]: where gpuid runs, what the user does
    Program,                \* first character of a command -> "elf", "wasm", "builtin"
    Letters,                \* key code -> character, for the keys that have one
    MAX_PRINTS,             \* bound: tokens a program prints
    MAX_LATE                \* bound: requests given up and not yet handled

(* What a user does at the device: the keyboard has no key with the code of a touch. *)
KeyCodes == STRING \ {"BTN_TOUCH"}
Inputs ==
    [kind : {"char", "key"}, code : KeyCodes]
    \cup [kind : {"touch"}, x : Nat, y : Nat]

ASSUME DesktopAssumption ==
    /\ RING \in Nat \ {0}
    /\ \A s \in Sessions : s.inputs \in Seq(Inputs)

VARIABLES
    dev,        \* input device registers: [chars, keys, int, down, x, y]
    todo,       \* the inputs the user has yet to make
    touch,      \* TOUCH_STATE: [pressed, last_x, last_y, events]
    cursor,     \* CURSOR_X, CURSOR_Y
    ui,         \* main_screen: [open, selected, input, output, running, cancel],
                \* and clicked, history: selected was last set by a click
    cmd,        \* [running, name, captured, result]: GUI_CMD_*, OUTPUT_CAPTURE
    screen,     \* back buffer
    front,      \* front buffer
    backing,    \* WINDOW_BACKING_STORE, valid or not
    tick,       \* where gpuid's hart is
    had_input,  \* local of gpuid_service: an event was handled in this tick
    direct,     \* gpuid runs on hart 0
    late,       \* requests gpuid gave up that hart 0 has yet to handle
    click,      \* history: the last press handled, where it was made and taken
    lost        \* history: a request handled late took an event with it

device_vars == <<dev, todo>>
ui_vars == <<ui, cmd, screen, front, backing>>
vars == <<dev, todo, touch, cursor, ui_vars, tick, had_input, direct, late, click, lost>>

SCREEN_WIDTH == 1024
SCREEN_HEIGHT == 768

----------------------------------------------------------------------------
(* Events *)

Nowhere == [x |-> -1, y |-> -1]
Event(type, code, value, made) ==
    [type |-> type, code |-> code, value |-> value, made |-> made]
Syn == Event("SYN", "", 0, Nowhere)

(* push_event for each of es: what finds the ring full is dropped. *)
PushAll(s, es) ==
    LET room == RING - 1 - Len(s.events) IN
    [s EXCEPT !.events = @ \o SubSeq(es, 1, IF Len(es) < room THEN Len(es) ELSE room)]

WithSyns(es) ==
    [i \in 1 .. 2 * Len(es) |-> IF i % 2 = 1 THEN es[(i + 1) \div 2] ELSE Syn]

(* The three parts of poll: characters, keys, then the touch position. *)
poll_chars(s) ==
    PushAll(s, WithSyns([i \in DOMAIN dev.chars |-> Event("CHAR", dev.chars[i], 1, Nowhere)]))

poll_keys(s) ==
    PushAll(s, WithSyns([i \in DOMAIN dev.keys |->
                            Event("KEY", dev.keys[i].code, dev.keys[i].value, Nowhere)]))

Place == [x |-> dev.x, y |-> dev.y]
Moved(s) ==
    LET new == ~s.pressed IN
       (IF dev.x # s.last_x \/ new THEN <<Event("ABS", "X", dev.x, Place)>> ELSE <<>>)
    \o (IF dev.y # s.last_y \/ new THEN <<Event("ABS", "Y", dev.y, Place)>> ELSE <<>>)

(* Fault: the press is queued before the position it was made at. *)
poll_touch_press_first(s) ==
    IF ~dev.int THEN s
    ELSE IF dev.down
    THEN PushAll([s EXCEPT !.pressed = TRUE, !.last_x = dev.x, !.last_y = dev.y],
                 (IF s.pressed THEN <<>> ELSE <<Event("KEY", "BTN_TOUCH", 1, Place)>>)
                 \o Moved(s) \o <<Syn>>)
    ELSE IF s.pressed
    THEN PushAll([s EXCEPT !.pressed = FALSE],
                 <<Event("KEY", "BTN_TOUCH", 0, Nowhere), Syn>>)
    ELSE s

poll_touch(s) ==
    IF ~dev.int THEN s
    ELSE IF dev.down
    THEN PushAll([s EXCEPT !.pressed = TRUE, !.last_x = dev.x, !.last_y = dev.y],
                 Moved(s)
                 \o (IF s.pressed THEN <<>> ELSE <<Event("KEY", "BTN_TOUCH", 1, Place)>>)
                 \o <<Syn>>)
    ELSE IF s.pressed
    THEN PushAll([s EXCEPT !.pressed = FALSE],
                 <<Event("KEY", "BTN_TOUCH", 0, Nowhere), Syn>>)
    ELSE s

d1_touch_poll ==
    /\ touch' = poll_touch(poll_keys(poll_chars(touch)))
    /\ dev' = [dev EXCEPT !.chars = <<>>, !.keys = <<>>, !.int = FALSE]

pop_event == touch' = [touch EXCEPT !.events = Tail(@)]

----------------------------------------------------------------------------
(* The user at the input device *)

Present(input) ==
    CASE input.kind = "char" -> dev' = [dev EXCEPT !.chars = Append(@, input.code)]
      [] input.kind = "key" ->
            dev' = [dev EXCEPT !.keys = @ \o
                       <<[code |-> input.code, value |-> 1], [code |-> input.code, value |-> 0]>>]
      [] input.kind = "touch" ->
            dev' = [dev EXCEPT !.int = TRUE, !.down = TRUE, !.x = input.x, !.y = input.y]

user_acts ==
    /\ todo # <<>>
    /\ Present(Head(todo))
    /\ todo' = Tail(todo)
    /\ UNCHANGED <<touch, cursor, ui_vars, tick, had_input, direct, late, click, lost>>

user_lifts ==
    /\ dev.down
    /\ dev' = [dev EXCEPT !.int = TRUE, !.down = FALSE]
    /\ UNCHANGED <<todo, touch, cursor, ui_vars, tick, had_input, direct, late, click, lost>>

----------------------------------------------------------------------------
(* Drawing.  spoiled: part of the terminal was drawn while it was not open, *)
(* or the screen was cleared, since the main screen was drawn.              *)

NONE == "none"
NETWORK == "network"
TERMINAL == "terminal"
Blank == <<"blank">>

Plain(area, s) ==
    [area |-> area, input |-> Blank, output |-> Blank, button |-> "blank",
     highlight |-> s.highlight, spoiled |-> s.spoiled]
Button(u) == IF u.running THEN "Cancel" ELSE "Run"
Spoils(s, u) == s.spoiled \/ u.open # TERMINAL

draw_main_screen_content(selected) ==
    Plain("main", [highlight |-> selected, spoiled |-> FALSE])
update_main_screen_buttons(s, selected) == [s EXCEPT !.highlight = selected]
draw_network_window(s) == Plain(NETWORK, s)
draw_terminal_window(s, u) ==
    [area |-> TERMINAL, input |-> u.input, output |-> u.output, button |-> Button(u),
     highlight |-> s.highlight, spoiled |-> Spoils(s, u)]
draw_terminal_input_only(s, u) ==
    [s EXCEPT !.input = u.input, !.spoiled = Spoils(s, u)]
draw_terminal_output_only(s, u) ==
    [s EXCEPT !.output = u.output, !.spoiled = Spoils(s, u)]
draw_terminal_button_only(s, u) ==
    [s EXCEPT !.button = Button(u), !.spoiled = Spoils(s, u)]

(* The numbers are drawn at fixed places, whatever is there. *)
draw_stats(s) == IF s.area = "main" THEN s ELSE [s EXCEPT !.area = "stats"]

save_window_backing == backing' = [valid |-> TRUE, content |-> screen]
restore_window_backing ==
    IF backing.valid
    THEN /\ screen' = [backing.content EXCEPT !.spoiled = screen.spoiled]
         /\ backing' = [backing EXCEPT !.valid = FALSE]
    ELSE UNCHANGED <<screen, backing>>

----------------------------------------------------------------------------
(* Commands *)

Blanks(c) == c # " "
CommandName == Head(SelectSeq(ui.input, Blanks))
CanExecute ==
    /\ SelectSeq(ui.input, Blanks) # <<>>
    /\ ~cmd.running

(* The button is drawn and flushed, then the input is cleared and drawn. *)
Started == [ui EXCEPT !.running = TRUE, !.input = <<>>]
StartButton == draw_terminal_button_only(screen, Started)
StartScreen == draw_terminal_input_only(StartButton, Started)

(* A command ended: its output and the Run button are drawn and flushed. *)
Complete(u, s, text) ==
    /\ ui' = [u EXCEPT !.output = text, !.running = FALSE]
    /\ screen' = draw_terminal_button_only(draw_terminal_output_only(s, ui'), ui')
    /\ front' = screen'

terminal_execute_command ==
    IF ~CanExecute
    THEN UNCHANGED <<ui, cmd, screen, front, tick>>
    ELSE \/ /\ Program[CommandName] = "builtin"
            /\ Complete(Started, StartScreen, <<CommandName>>)
            /\ UNCHANGED <<cmd, tick>>
         \/ /\ Program[CommandName] \in {"elf", "wasm"}
            /\ ui' = Started
            /\ screen' = StartScreen
            /\ front' = StartButton
            /\ cmd' = [cmd EXCEPT !.running = TRUE, !.name = CommandName, !.captured = <<>>]
            /\ tick' = Program[CommandName]

(* u: the terminal state so far. *)
request_cancel(u) ==
    IF u.running
    THEN /\ ui' = [u EXCEPT !.cancel = TRUE, !.output = Append(@, "^C")]
         /\ screen' = draw_terminal_window(screen, ui')
    ELSE ui' = u /\ UNCHANGED screen

----------------------------------------------------------------------------
(* handle_main_screen_input, by kind of event *)

hit_test_main_screen_button(x, y) ==
    IF y \notin 500 .. 531 THEN NONE
    ELSE IF x \in 30 .. 139 THEN NETWORK
    ELSE IF x \in 150 .. 259 THEN TERMINAL
    ELSE NONE
hit_test_terminal_send_button(x, y) == x \in 767 .. 846 /\ y \in 189 .. 216
hit_test_close(x, y) ==
    LET c == IF ui.open = TERMINAL THEN [x |-> 174, y |-> 144] ELSE [x |-> 272, y |-> 190]
    IN  (x - c.x) * (x - c.x) + (y - c.y) * (y - c.y) < 12 * 12

OpenState(u, w) ==
    IF w = TERMINAL THEN [u EXCEPT !.open = w, !.input = <<>>, !.output = <<>>]
    ELSE [u EXCEPT !.open = w]
draw_child_window(w) ==
    /\ save_window_backing
    /\ screen' = IF w = TERMINAL THEN draw_terminal_window(screen, ui')
                 ELSE draw_network_window(screen)

close_window ==
    /\ ui' = [ui EXCEPT !.open = NONE, !.input = <<>>, !.output = <<>>]
    /\ restore_window_backing

set_cursor_pos(x, y) ==
    cursor' = [x |-> IF x < SCREEN_WIDTH THEN x ELSE SCREEN_WIDTH - 1,
               y |-> IF y < SCREEN_HEIGHT THEN y ELSE SCREEN_HEIGHT - 1]

pointer_moved(e) ==
    /\ e.type = "ABS"
    /\ IF e.code = "X" THEN set_cursor_pos(e.value, cursor.y)
       ELSE set_cursor_pos(cursor.x, e.value)
    /\ UNCHANGED <<ui_vars, tick, click>>

handle_terminal_char(ch) ==
    /\ IF ch = "^C" THEN request_cancel([ui EXCEPT !.input = <<>>])
       ELSE IF Len(ui.input) < TERMINAL_INPUT_MAX - 1
       THEN /\ ui' = [ui EXCEPT !.input = Append(@, ch)]
            /\ screen' = draw_terminal_input_only(screen, ui')
       ELSE UNCHANGED <<ui, screen>>
    /\ UNCHANGED <<cmd, front, backing, tick>>

char_typed(e) ==
    /\ e.type = "CHAR"
    /\ IF ui.open = TERMINAL THEN handle_terminal_char(e.code)
       ELSE UNCHANGED <<ui_vars, tick>>
    /\ UNCHANGED <<cursor, click>>

window_clicked ==
    \/ /\ hit_test_close(cursor.x, cursor.y)
       /\ close_window
       /\ UNCHANGED <<cmd, front, tick>>
    \/ /\ ~hit_test_close(cursor.x, cursor.y)
       /\ ui.open = TERMINAL /\ hit_test_terminal_send_button(cursor.x, cursor.y)
       /\ IF ui.running THEN request_cancel(ui) /\ UNCHANGED <<cmd, front, tick>>
          ELSE terminal_execute_command
       /\ UNCHANGED backing
    \/ /\ ~hit_test_close(cursor.x, cursor.y)
       /\ ~(ui.open = TERMINAL /\ hit_test_terminal_send_button(cursor.x, cursor.y))
       /\ UNCHANGED <<ui_vars, tick>>

main_screen_clicked ==
    LET w == hit_test_main_screen_button(cursor.x, cursor.y) IN
    IF w = NONE THEN UNCHANGED <<ui_vars, tick>>
    ELSE /\ ui' = [OpenState(ui, w) EXCEPT !.selected = w, !.clicked = TRUE]
         /\ draw_child_window(w)
         /\ UNCHANGED <<cmd, front, tick>>

touch_pressed(e) ==
    /\ e.type = "KEY" /\ e.code = "BTN_TOUCH" /\ e.value = 1
    /\ click' = [made |-> e.made, taken |-> cursor]
    /\ IF ui.open = NONE THEN main_screen_clicked ELSE window_clicked
    /\ UNCHANGED cursor

key_code_to_ascii(code) == IF code \in DOMAIN Letters THEN <<Letters[code]>> ELSE <<>>

handle_terminal_input(code) ==
    \/ /\ code = "ENTER"
       /\ terminal_execute_command
       /\ UNCHANGED backing
    \/ /\ code = "BACKSPACE"
       /\ IF ui.input # <<>>
          THEN /\ ui' = [ui EXCEPT !.input = SubSeq(@, 1, Len(@) - 1)]
               /\ screen' = draw_terminal_input_only(screen, ui')
          ELSE UNCHANGED <<ui, screen>>
       /\ UNCHANGED <<cmd, front, backing, tick>>

key_in_window(code) ==
    \/ /\ code = "ESC"
       /\ IF ui.running THEN request_cancel(ui) /\ UNCHANGED backing ELSE close_window
       /\ UNCHANGED <<cmd, front, tick>>
    \/ /\ ui.open = TERMINAL /\ handle_terminal_input(code)
    \/ /\ ui.open = TERMINAL /\ key_code_to_ascii(code) # <<>>
       /\ handle_terminal_char(Head(key_code_to_ascii(code)))
    \/ /\ code # "ESC"
       /\ ui.open = TERMINAL => /\ code \notin {"ENTER", "BACKSPACE"}
                               /\ key_code_to_ascii(code) = <<>>
       /\ UNCHANGED <<ui_vars, tick>>

key_on_main_screen(code) ==
    \/ \E w \in {NETWORK, TERMINAL} :
          /\ code = (IF w = NETWORK THEN "LEFT" ELSE "RIGHT")
          /\ IF ui.selected # w
             THEN /\ ui' = [ui EXCEPT !.selected = w, !.clicked = FALSE]
                  /\ screen' = update_main_screen_buttons(screen, w)
             ELSE UNCHANGED <<ui, screen>>
          /\ UNCHANGED <<cmd, front, backing, tick>>
    \/ /\ code = "ENTER"
       /\ ui' = OpenState(ui, ui.selected)
       /\ draw_child_window(ui.selected)
       /\ UNCHANGED <<cmd, front, tick>>
    \/ /\ code \notin {"LEFT", "RIGHT", "ENTER"}
       /\ UNCHANGED <<ui_vars, tick>>

key_pressed(e) ==
    /\ e.type = "KEY" /\ e.code # "BTN_TOUCH" /\ e.value = 1
    /\ IF ui.open = NONE THEN key_on_main_screen(e.code) ELSE key_in_window(e.code)
    /\ UNCHANGED <<cursor, click>>

nothing_to_do(e) ==
    /\ e.type = "SYN" \/ (e.type = "KEY" /\ e.value = 0)
    /\ UNCHANGED <<cursor, ui_vars, tick, click>>

handle_main_screen_input(e) ==
    \/ pointer_moved(e) \/ char_typed(e) \/ touch_pressed(e)
    \/ key_pressed(e) \/ nothing_to_do(e)

----------------------------------------------------------------------------
(* display_proxy: from another hart each device access is a request that   *)
(* hart 0 answers in time, after the ones given up before, or handles late *)

Served == late = <<>> /\ UNCHANGED late
GivenUp(op) ==
    /\ ~direct /\ Len(late) < MAX_LATE
    /\ late' = Append(late, op)

clear_display ==
    /\ screen' = Plain("black", [highlight |-> NONE, spoiled |-> TRUE])
    /\ front' = screen'
flush == front' = screen

proxy_clear_display ==
    \/ Served /\ clear_display
    \/ GivenUp("DisplayClear") /\ UNCHANGED <<screen, front>>
proxy_flush ==
    \/ Served /\ flush
    \/ GivenUp("DisplayFlush") /\ UNCHANGED front
touch_poll ==
    \/ Served /\ d1_touch_poll
    \/ GivenUp("TouchPoll") /\ UNCHANGED <<touch, dev>>

(* touch_next_event: an event, or none there or none in time. *)
SomeEvent == Served /\ touch.events # <<>> /\ pop_event
NoEvent ==
    /\ \/ Served /\ touch.events = <<>>
       \/ GivenUp("TouchNextEvent")
    /\ UNCHANGED touch

handle_late_request ==
    /\ late # <<>>
    /\ late' = Tail(late)
    /\ \/ /\ Head(late) = "TouchPoll"
          /\ d1_touch_poll
          /\ UNCHANGED <<screen, front, lost>>
       \/ /\ Head(late) = "TouchNextEvent"
          /\ IF touch.events = <<>> THEN UNCHANGED <<touch, lost>>
             ELSE pop_event /\ lost' = TRUE
          /\ UNCHANGED <<dev, screen, front>>
       \/ /\ Head(late) = "DisplayFlush"
          /\ flush
          /\ UNCHANGED <<dev, touch, screen, lost>>
       \/ /\ Head(late) = "DisplayClear"
          /\ clear_display
          /\ UNCHANGED <<dev, touch, lost>>
    /\ UNCHANGED <<todo, cursor, ui, cmd, backing, tick, had_input, direct, click>>

----------------------------------------------------------------------------
(* gpuid_service *)

Ready == tick \in {"idle", "requeued"}

boot_clears ==
    /\ tick = "boot"
    /\ proxy_clear_display
    /\ tick' = "setup"
    /\ UNCHANGED <<device_vars, touch, cursor, ui, cmd, backing, had_input, direct,
                   click, lost>>

setup_main_screen ==
    /\ tick = "setup"
    /\ ui' = [ui EXCEPT !.selected = NETWORK]
    /\ screen' = draw_main_screen_content(NETWORK)
    /\ tick' = "flush"
    /\ UNCHANGED <<device_vars, touch, cursor, cmd, front, backing, had_input, direct,
                   late, click, lost>>

tick_starts ==
    /\ Ready
    /\ touch_poll
    /\ tick' = "events"
    /\ had_input' = FALSE
    /\ UNCHANGED <<todo, cursor, ui_vars, direct, click, lost>>

tick_handles_event ==
    /\ tick = "events"
    /\ SomeEvent
    /\ handle_main_screen_input(Head(touch.events))
    /\ had_input' = TRUE
    /\ UNCHANGED <<device_vars, direct, lost>>

(* Fault: completion is noticed only while the window is open. *)
check_completion_if_open ==
    IF ui.running /\ cmd.result # <<>> /\ ui.open = TERMINAL
    THEN /\ Complete(ui, screen, Head(cmd.result))
         /\ cmd' = [cmd EXCEPT !.result = <<>>]
    ELSE UNCHANGED <<ui, cmd, screen, front>>

check_gui_command_completion ==
    IF ui.running /\ cmd.result # <<>>
    THEN /\ Complete(ui, screen, Head(cmd.result))
         /\ cmd' = [cmd EXCEPT !.result = <<>>]
    ELSE UNCHANGED <<ui, cmd, screen, front>>

tick_drained ==
    /\ tick = "events"
    /\ NoEvent
    /\ check_gui_command_completion
    /\ tick' = "stats"
    /\ UNCHANGED <<device_vars, cursor, backing, had_input, direct, click, lost>>

(* Fault: the numbers are refreshed under an open window. *)
StatsAnyTime ==
    /\ tick = "stats"
    /\ screen' = IF ~had_input THEN draw_stats(screen) ELSE screen
    /\ tick' = "flush"
    /\ UNCHANGED <<device_vars, touch, cursor, ui, cmd, front, backing, had_input,
                   direct, late, click, lost>>

(* At most every two seconds: taken as due at each tick. *)
update_main_screen_hardware_stats ==
    /\ tick = "stats"
    /\ screen' = IF ~had_input /\ ui.open = NONE THEN draw_stats(screen) ELSE screen
    /\ tick' = "flush"
    /\ UNCHANGED <<device_vars, touch, cursor, ui, cmd, front, backing, had_input,
                   direct, late, click, lost>>

(* FRAME_DIRTY is set by whatever draws: the buffers differ only then. *)
tick_flushes ==
    /\ tick = "flush"
    /\ \/ screen = front /\ UNCHANGED <<front, late>>
       \/ screen # front /\ proxy_flush
    /\ tick' = "idle"
    /\ UNCHANGED <<device_vars, touch, cursor, ui, cmd, screen, backing, had_input,
                   direct, click, lost>>

----------------------------------------------------------------------------
(* Programs started from the terminal window *)

program_prints ==
    /\ tick \in {"elf", "wasm"} /\ Len(cmd.captured) < MAX_PRINTS
    /\ cmd' = [cmd EXCEPT !.captured = Append(@, cmd.name)]
    /\ UNCHANGED <<device_vars, touch, cursor, ui, screen, front, backing, tick,
                   had_input, direct, late, click, lost>>

(* A program ends by itself, or because it read, and cleared, the request  *)
(* to cancel it.                                                           *)
should_cancel(u) == [u EXCEPT !.cancel = FALSE]
sys_should_cancel == {ui, should_cancel(ui)}
wasm_should_cancel == {ui, should_cancel(ui)}

elf_exits ==
    /\ tick = "elf"
    /\ ui' \in sys_should_cancel
    /\ cmd' = [cmd EXCEPT !.running = FALSE, !.result = <<cmd.captured>>]
    /\ tick' = "requeued"
    /\ UNCHANGED <<device_vars, touch, cursor, screen, front, backing, had_input,
                   direct, late, click, lost>>

wasm_returns ==
    /\ tick = "wasm"
    /\ \E u \in wasm_should_cancel : Complete(u, screen, cmd.captured)
    /\ cmd' = [cmd EXCEPT !.running = FALSE]
    /\ tick' = "events"
    /\ UNCHANGED <<device_vars, touch, cursor, backing, had_input, direct, late,
                   click, lost>>

wasm_polls ==
    /\ tick = "wasm"
    /\ d1_touch_poll
    /\ UNCHANGED <<todo, cursor, ui_vars, tick, had_input, direct, late, click, lost>>

wasm_handles_event ==
    /\ tick = "wasm" /\ touch.events # <<>>
    /\ pop_event
    /\ handle_main_screen_input(Head(touch.events))
    /\ UNCHANGED <<device_vars, had_input, direct, late, lost>>

(* A q typed since the poll is taken from the device directly. *)
wasm_sees_q ==
    /\ tick = "wasm" /\ dev.chars # <<>> /\ Head(dev.chars) = "q"
    /\ dev' = [dev EXCEPT !.chars = Tail(@)]
    /\ request_cancel(ui)
    /\ UNCHANGED <<todo, touch, cursor, cmd, front, backing, tick, had_input, direct,
                   late, click, lost>>

refresh_terminal_output ==
    /\ tick = "wasm" /\ ui.open = TERMINAL
    /\ ui' = [ui EXCEPT !.output = cmd.captured]
    /\ screen' = draw_terminal_output_only(screen, ui')
    /\ UNCHANGED <<device_vars, touch, cursor, cmd, front, backing, tick, had_input,
                   direct, late, click, lost>>

----------------------------------------------------------------------------
Init ==
    /\ dev = [chars |-> <<>>, keys |-> <<>>, int |-> FALSE, down |-> FALSE,
              x |-> 0, y |-> 0]
    /\ \E s \in Sessions : todo = s.inputs /\ direct = s.direct
    /\ touch = [pressed |-> FALSE, last_x |-> -1, last_y |-> -1, events |-> <<>>]
    /\ cursor = [x |-> 512, y |-> 384]
    /\ ui = [open |-> NONE, selected |-> NETWORK, input |-> <<>>, output |-> <<>>,
             running |-> FALSE, cancel |-> FALSE, clicked |-> FALSE]
    /\ cmd = [running |-> FALSE, name |-> "", captured |-> <<>>, result |-> <<>>]
    /\ screen = Plain("console", [highlight |-> NONE, spoiled |-> FALSE])
    /\ front = screen
    /\ backing = [valid |-> FALSE, content |-> screen]
    /\ tick = "boot" /\ had_input = FALSE
    /\ late = <<>>
    /\ click = [made |-> Nowhere, taken |-> Nowhere] /\ lost = FALSE

User == user_acts \/ user_lifts
Gpuid ==
    \/ boot_clears \/ setup_main_screen \/ tick_starts \/ tick_handles_event
    \/ tick_drained \/ update_main_screen_hardware_stats \/ tick_flushes
Programs ==
    \/ program_prints \/ elf_exits \/ wasm_returns
    \/ wasm_polls \/ wasm_handles_event \/ wasm_sees_q \/ refresh_terminal_output

Next == User \/ Gpuid \/ Programs \/ handle_late_request

(* Harts keep running and programs end. *)
Fairness ==
    /\ WF_vars(Gpuid) /\ WF_vars(handle_late_request)
    /\ WF_vars(elf_exits) /\ WF_vars(wasm_returns)

Spec == Init /\ [][Next]_vars /\ Fairness

----------------------------------------------------------------------------
(* A press is taken where the finger was: the driver queues the position  *)
(* before the press and no later position comes between (d1_touch.rs:244), *)
(* whatever was dropped from a full ring and however late the events are  *)
(* drained.  The exception is an event that a request given up by gpuid    *)
(* took out of the ring after all.                                         *)
OnScreen(p) == [x |-> IF p.x < SCREEN_WIDTH THEN p.x ELSE SCREEN_WIDTH - 1,
                y |-> IF p.y < SCREEN_HEIGHT THEN p.y ELSE SCREEN_HEIGHT - 1]
ClickLands == ~lost => click.taken = OnScreen(click.made)

(* The window area shows what is open, with the terminal's input, output   *)
(* and Run or Cancel button up to date although each is redrawn on its own *)
(* and the main screen only comes back from the backing store; on the main *)
(* screen the selected button is highlighted, unless a click selected it;  *)
(* between two ticks the display shows all that.  Exceptions: a terminal   *)
(* part drawn while the terminal is closed, a clear that hart 0 carried    *)
(* out late, and the text that Ctrl+C clears without redrawing.            *)
Shown ==
    CASE ui.open = NONE ->
            /\ screen.area = "main"
            /\ ui.clicked \/ screen.highlight = ui.selected
      [] ui.open = NETWORK -> screen.area = NETWORK
      [] ui.open = TERMINAL ->
            /\ screen.area = TERMINAL
            /\ ui.input # <<>> => screen.input = ui.input
            /\ screen.output = ui.output
            /\ screen.button = Button(ui)
WindowIsShown ==
    /\ tick \notin {"boot", "setup"} /\ ~screen.spoiled => Shown
    /\ tick = "idle" /\ late = <<>> => front = screen

(* A command entered into the terminal window is over at some point, and   *)
(* the button says so, even if its window was closed or reopened meanwhile *)
(* (check_gui_command_completion, terminal_execute_command).               *)
TerminalReturns == []<>(~ui.running)

============================================================================
