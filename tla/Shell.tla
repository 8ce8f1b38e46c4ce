-------------------------------- MODULE Shell --------------------------------
(***************************************************************************)
(* The line editor of the serial shell (kernel/src/services/shelld.rs):    *)
(* SHELL_STATE, the bytes it is changed by, and the terminal it writes to. *)
(* A word stands for the bytes of a word typed in one go: the buffer and   *)
(* the history hold words, and erasing takes one back.  Module Files has   *)
(* the steps that call the file system: Enter, Tab and tail -f.            *)
(***************************************************************************)
EXTENDS Integers, Sequences, SequencesExt, FiniteSetsExt

CONSTANTS
    BUFFER_SIZE,    \* words a line holds: a command and a name
    HISTORY_SIZE,   \* lines the history holds
    Keys,           \* keys of the terminal: the bytes each one sends
    Follow,         \* the word "tail -f "
    Space           \* what completing a command adds

ASSUME ShellAssumption == BUFFER_SIZE \in 1 .. 2 /\ HISTORY_SIZE \in Nat \ {0}

VARIABLES
    sh,             \* ShellState, and shown: what the terminal has after the prompt
    tail,           \* TAIL_FOLLOW_STATE, and printed: what it has printed of the file
    rx,             \* bytes the UART has received
    keys            \* bound: keys still to be pressed

shellvars == <<sh, tail, rx, keys>>

ShellState ==
    [buffer |-> << >>, history |-> [i \in 0 .. HISTORY_SIZE - 1 |-> << >>],
     history_count |-> 0, history_pos |-> 0, browsing |-> FALSE,
     last_newline |-> "", esc_state |-> 0, tail_follow_mode |-> FALSE, shown |-> << >>]

TailFollowState == [active |-> FALSE, path |-> << >>, last_size |-> 0, printed |-> << >>]

-----------------------------------------------------------------------------
(* Editing.  The buffer and the terminal change together, one echo for each word. *)

Echo(s, words) == [s EXCEPT !.buffer = @ \o words, !.shown = @ \o words]

(* clear_input_line: one "back, space, back" for each byte of the buffer. *)
clear_input_line(s) ==
    [s EXCEPT !.shown = SubSeq(@, 1, Max({0, Len(@) - Len(s.buffer)})), !.buffer = << >>]

print_prompt(s) == [s EXCEPT !.shown = << >>]

(* Entries are looked up from the newest; history_pos is the one the next Up shows. *)
HistoryEntry(s, back) == s.history[(s.history_count - back) % HISTORY_SIZE]

handle_history_up(s) ==
    LET max_pos == Min({s.history_count, HISTORY_SIZE})
        pos == IF s.browsing THEN s.history_pos ELSE 0
        next == IF pos + 1 < max_pos THEN pos + 1 ELSE pos
    IN  IF s.history_pos >= max_pos THEN s
        ELSE [Echo(clear_input_line(s), HistoryEntry(s, pos + 1)) EXCEPT !.browsing = TRUE,
                                                                  !.history_pos = next]

handle_history_down(s) ==
    LET pos == Max({0, s.history_pos - 1})
        cleared == [clear_input_line(s) EXCEPT !.history_pos = pos]
    IN  CASE ~ s.browsing -> s
          [] s.browsing /\ pos = 0 -> [cleared EXCEPT !.browsing = FALSE]
          [] s.browsing /\ pos > 0 -> Echo(cleared, HistoryEntry(s, pos))

(* A byte that ends an escape sequence. *)
arrow(s, b) ==
    CASE b = "A" -> handle_history_up(s)
      [] b = "B" -> handle_history_down(s)
      [] OTHER -> s

(* Any other byte; Enter and Tab have more to do. *)
insert(s, b) ==
    CASE b = "ESC" -> [s EXCEPT !.esc_state = 1]
      [] b = "BS" -> IF s.buffer = << >> THEN s
                     ELSE [s EXCEPT !.buffer = Front(@),
                                    !.shown = SubSeq(@, 1, Max({0, Len(@) - 1}))]
      [] OTHER -> LET t == [s EXCEPT !.last_newline = ""]
                  IN  IF Len(s.buffer) < BUFFER_SIZE THEN Echo(t, <<b>>) ELSE t

(* Ctrl+C and q end tail -f, which ignores the rest.  Nothing sets COMMAND_RUNNING, so a
   Ctrl+C at the prompt finds no command to cancel. *)
process_input_byte(s, b) ==
    CASE s.tail_follow_mode ->
            IF b \in {"^C", "q"} THEN print_prompt([s EXCEPT !.tail_follow_mode = FALSE]) ELSE s
      [] ~ s.tail_follow_mode /\ b = "^C" -> s
      [] ~ s.tail_follow_mode /\ b # "^C" ->
            CASE s.esc_state = 1 /\ b = "[" -> [s EXCEPT !.esc_state = 2]
              [] s.esc_state = 2 -> arrow([s EXCEPT !.esc_state = 0], b)
              [] OTHER -> insert([s EXCEPT !.esc_state = 0], b)

(* The second byte of a CR LF pair is dropped. *)
SecondNewline(s, b) == {s.last_newline, b} = {"CR", "LF"}

-----------------------------------------------------------------------------
(* Enter *)

(* The line is remembered and the terminal goes to a new line. *)
Remember(s) ==
    LET t == [s EXCEPT !.shown = << >>]
    IN  IF s.buffer = << >> THEN t
        ELSE [t EXCEPT !.history[s.history_count % HISTORY_SIZE] = s.buffer, !.history_count = @ + 1]

(* parse_tail_follow_command: the file to follow, if the line has one. *)
parse_tail_follow_command(line) ==
    IF Len(line) = 2 /\ line[1] = Follow /\ line[2] # Space
    THEN <<IF line[2] = Follow THEN "tail" ELSE line[2]>>
    ELSE << >>

(* The word that names the program of any other line; two words are one unknown name. *)
CommandWord(line) ==
    CASE Len(line) = 1 -> line[1]
      [] Len(line) = 2 /\ line[2] = Space -> line[1]
      [] OTHER -> ""

(* What handle_enter does after a command that returns. *)
handle_enter_reset(s) ==
    [print_prompt(s) EXCEPT !.buffer = << >>, !.browsing = FALSE, !.history_pos = 0]

(* Fault: the line of a native program stays in the buffer. *)
clear_buffer_not(s) == print_prompt(s)

(* What is done after a native program, which does not return. *)
clear_buffer(s) == [print_prompt(s) EXCEPT !.buffer = << >>]

-----------------------------------------------------------------------------
(* Tab.  A command in full gets a space; after a space, the name that is alone in the
   directory is added, and several are listed before the line is written again.  A name in
   full is completed by nothing. *)
handle_tab_completion(s, commands, children) ==
    LET word == Last(s.buffer)
        Add(w) == IF Len(s.buffer) < BUFFER_SIZE THEN Echo(s, <<w>>) ELSE s
    IN  CASE word \in {Follow, Space} /\ Cardinality(children) = 1 -> Add(CHOOSE c \in children : TRUE)
          [] word \in {Follow, Space} /\ Cardinality(children) > 1 -> [s EXCEPT !.shown = s.buffer]
          [] Len(s.buffer) = 1 /\ word \in commands \ {Follow} -> Add(Space)
          [] OTHER -> s

-----------------------------------------------------------------------------
(* tail -f *)

start(path, content) ==
    [active |-> TRUE, path |-> path, last_size |-> Len(content), printed |-> content]

(* Fault: what was printed is printed again. *)
check_tail_follow_from_start(t, content) ==
    IF Len(content) > t.last_size
    THEN [t EXCEPT !.last_size = Len(content), !.printed = @ \o content]
    ELSE [t EXCEPT !.last_size = Len(content)]

(* What the file has gained is printed; a shorter file is only taken note of. *)
check_tail_follow(t, content) ==
    IF Len(content) > t.last_size
    THEN [t EXCEPT !.last_size = Len(content),
                   !.printed = @ \o SubSeq(content, t.last_size + 1, Len(content))]
    ELSE [t EXCEPT !.last_size = Len(content)]

=============================================================================
