------------------------------- MODULE MCFiles -------------------------------
(* A disk with a directory and a package, a shared directory with a file of two messages,
   and one command line for each program and kind of path. *)
EXTENDS Files

MCHostFiles == (<<"f">> :> <<"a", "b">>)
MCHostDirs == {<< >>}
MCSfsFiles == (<<"d", "f">> :> <<"x", "y", "z">>) @@ (<<"d", "g">> :> <<"x">>)

Abs(names) == [abs |-> TRUE, names |-> names]
Rel(names) == [abs |-> FALSE, names |-> names]
Native(prog, args, flag) ==
    [prog |-> prog, abi |-> "native", args |-> args, flag |-> flag, call |-> NoCall]
Wasm(op, path, data) ==
    [prog |-> "wasm", abi |-> "wasm", args |-> << >>, flag |-> FALSE,
     call |-> [op |-> op, path |-> path, data |-> data]]

Path1 == <<"mnt", "disk1", "f">>
cat(a) == Native("cat", <<a>>, FALSE)
ls(path) == Native("ls", <<Abs(path)>>, FALSE)
cd(a) == Native("cd", <<a>>, FALSE)
rm(flag) == Native("rm", <<Abs(<<"d", "f">>)>>, flag)
pkg(sub) == Native(sub, <<Rel(<<"p">>)>>, FALSE)

MCKeys ==
    {<<"ls">>, <<"tail -f ">>, <<"q">>, <<"CR", "LF">>, <<"BS">>, <<"TAB">>, <<"^C">>,
     <<"ESC", "[", "A">>, <<"ESC", "[", "B">>}
MCShellCommands == ("ls" :> ls(<< >>)) @@ ("tail -f " :> Native("tail", << >>, FALSE))

(* What is entered at hart 0 and at hart 1, and at the serial line. *)
At0And1(a, b) == [input |-> (0 :> a) @@ (1 :> b), typed |-> << >>, keys |-> 0]
Editing(typed) == [input |-> (0 :> << >>) @@ (1 :> << >>), typed |-> typed, keys |-> 4]
Following ==
    [input |-> (0 :> <<Wasm("write", <<"q">>, <<"x">>), Wasm("write", <<"q">>, <<"x", "y">>)>>)
               @@ (1 :> << >>),
     typed |-> <<"tail -f ", "TAB", "q", "CR">>, keys |-> 1]
MCSessions ==
    {Editing(<< >>), Editing(<<"q", "CR", "ls", "CR">>), Following,
     At0And1(<<cd(Abs(<<"d">>)), cat(Rel(<<"f">>))>>, <<cd(Abs(Disk1))>>),
     At0And1(<<cat(Abs(Path1))>>, <<Wasm("write", Path1, <<"c", "d">>)>>),
     At0And1(<< >>, <<Wasm("write", <<"mnt", "disk1", "n">>, <<"c">>)>>),
     At0And1(<<Native("nano", <<Abs(Path1)>>, FALSE)>>, <<Native("nano", <<Abs(Path1)>>, FALSE)>>),
     At0And1(<<Native("grep", <<Abs(<<"d", "g">>), Abs(<<"d", "f">>)>>, FALSE)>>,
             <<Native("tail", <<Abs(<<"d", "f">>)>>, FALSE), ls(Disk1)>>),
     At0And1(<<ls(<< >>)>>, <<Native("mkdir", <<Abs(<<"d", "e">>)>>, TRUE), ls(<<"d">>)>>),
     At0And1(<<Native("mkdir", <<Rel(<<"e">>)>>, FALSE), ls(<< >>)>>,
             <<cd(Abs(<<"d">>)), cd(Rel(<<"..">>))>>),
     At0And1(<<pkg("pkg install"), pkg("pkg remove")>>, <<cd(Abs(<<"d">>)), rm(TRUE)>>),
     At0And1(<<pkg("pkg install"), pkg("pkg list")>>, <<pkg("pkg install"), pkg("pkg info")>>),
     At0And1(<<rm(TRUE)>>, <<cd(Abs(<<"d">>))>>),
     At0And1(<<Wasm("read", <<"d", "f">>, << >>), Wasm("remove", <<"d", "f">>, << >>)>>,
             <<Wasm("stat", <<"d">>, << >>), Wasm("is_dir", <<"d">>, << >>),
               Wasm("list", << >>, << >>), rm(FALSE)>>)}

=============================================================================
