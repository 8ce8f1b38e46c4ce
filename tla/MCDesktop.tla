----------------------------- MODULE MCDesktop -----------------------------
(* Small instances of Desktop: users who open a window, enter commands,  *)
(* cancel or close while they run, and go on.                             *)
EXTENDS Desktop, TLC

Char(c) == [kind |-> "char", code |-> c]
Key(c) == [kind |-> "key", code |-> c]
Touch(px, py) == [kind |-> "touch", x |-> px, y |-> py]

TerminalButton == Touch(200, 510)
NetworkButton == Touch(80, 510)
CloseTerminal == Touch(174, 144)
CloseNetwork == Touch(272, 190)
RunButton == Touch(800, 200)
OffScreen == Touch(2000, 200)

OnHart0 == {
    <<TerminalButton, Char("e"), Key("ENTER"), RunButton, Char("n"), Key("ENTER")>>,
    <<Key("RIGHT"), Key("ENTER"), Char("e"), Key("ENTER"), CloseTerminal, NetworkButton>>,
    <<TerminalButton, Key("KEY_W"), RunButton, Char("^C"), CloseTerminal, Key("ENTER")>>,
    <<TerminalButton, Char("w"), Key("ENTER"), CloseTerminal, TerminalButton, Char("q")>>,
    <<NetworkButton, CloseNetwork, OffScreen, TerminalButton, Char("n"), RunButton>>,
    <<TerminalButton, Char("n"), Char("^C"), Char("n"), Key("BACKSPACE"), Key("ESC")>>,
    <<Key("ENTER"), Key("KEY_W"), Key("ESC"), Key("LEFT"), Char("n"), Key("ENTER")>> }

Elsewhere == {
    <<TerminalButton, Char("n"), RunButton>>,
    <<Key("RIGHT"), Key("ENTER"), Char("e"), Key("ENTER")>> }

MCSessions ==
    [direct : {TRUE}, inputs : OnHart0] \cup [direct : {FALSE}, inputs : Elsewhere]

(* The driver reads the device only when polled: the user's acts are taken *)
(* between two ticks or while a program runs, not in the middle of a tick. *)
MCNext ==
    \/ User /\ tick \in {"idle", "elf", "wasm"}
    \/ Gpuid \/ Programs \/ handle_late_request

MCSpec == Init /\ [][MCNext]_vars /\ Fairness

MCProgram == ("e" :> "elf") @@ ("w" :> "wasm") @@ ("n" :> "builtin") @@ ("q" :> "builtin")
MCLetters == "KEY_W" :> "w"
============================================================================
