------------------------------- MODULE MCNet -------------------------------
(* A native and a WASM process, and two hosts. *)
EXTENDS Net

MCProcs == {"native", "wasm"}
MCWasm == {"wasm"}
Command(p, prog, h) == [proc |-> p, prog |-> prog, host |-> h]
MCCommands ==
    {Command("native", "wget", "a"), Command("native", "nslookup", "a"),
     Command("wasm", "telnet", "a"), Command("wasm", "ping", "b")}
MCNoFrame == Frame("none", NoHost, 0)
============================================================================
