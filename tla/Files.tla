-------------------------------- MODULE Files --------------------------------
(***************************************************************************)
(* Programs and the files they use.  Native programs (mkfs/src/bin) and    *)
(* WASM programs run on harts and make system calls (kernel/src/syscall.rs *)
(* and wasm.rs).  File calls go through cpu/fs_proxy.rs: hart 0 performs   *)
(* them under VFS_STATE, the others ask hart 0 and wait, with a timeout.   *)
(* The VFS (fs/vfs.rs) sends a path to the root file system, a flat table  *)
(* of full paths behind FS_STATE, or to the 9P mount (module P9).  Some    *)
(* calls take FS_STATE on the hart that makes them.                        *)
(* A path is a sequence of names.  FS_STATE is held for a single step by   *)
(* writers, so only its readers are recorded; BLK_DEV is always taken      *)
(* right after FS_STATE and is not.                                        *)
(***************************************************************************)
EXTENDS P9, Shell

CONSTANTS
    NumHarts,
    SfsFiles,       \* files of the disk at boot: path -> contents
    SFS_ENTRIES,    \* directory entries the disk has room for
    READ_BUF,       \* chunks a program's read buffer holds
    LIST_BUF,       \* entries a program's list buffer holds
    LS_ENTRIES,     \* entries ls has room for
    Sessions,       \* what happens: command lines, [prog, abi, args, flag, call], entered at
                    \* each hart, bytes the serial line has received, and keys to be pressed
    ShellHart,      \* the hart shelld is pinned to
    ShellCommands   \* words of the shell that are native programs: word -> command line

Harts == 0 .. NumHarts - 1
NoHart == NumHarts
Disk1 == <<"mnt", "disk1">>

ASSUME FilesAssumption ==
    /\ NumHarts \in Nat \ {0}
    /\ {READ_BUF, LIST_BUF, LS_ENTRIES, MAX_LATE} \subseteq Nat
    /\ WRITE_CHUNKS \in Nat \ {0}
    /\ Cardinality(DOMAIN SfsFiles) <= SFS_ENTRIES
    /\ ShellHart \in Harts

VARIABLES
    disk,           \* FS_STATE and BLK_DEV are Some
    sfs,            \* files of the disk: path -> contents
    pending,        \* entry that is in the block cache and not on the disk, or <<>>
    mounts,         \* Vfs.mounts: [path, fs], in order
    booted,         \* init_storage has returned
    cwd,            \* CWD_STATE
    vfs_lock,       \* hart that has VFS_STATE, or NoHart
    fs_readers,     \* harts that have FS_STATE for reading
    ctx,            \* per hart: the file operation it performs, or NoCtx
    queue,          \* requests other harts have put to hart 0
    proc,           \* per hart: the program, its call and its locals
    input           \* per hart: command lines still to run

typing == <<input, shellvars>>
vars == <<p9vars, disk, sfs, pending, mounts, booted, cwd, vfs_lock, fs_readers, ctx, queue, proc, typing>>

NoCtx == [st |-> "none", op |-> "none", for |-> NoHart]
NoCall == [st |-> "none", op |-> "none"]
NoProc == [cmd |-> [prog |-> "none"], pc |-> "exited", path |-> << >>, todo |-> << >>,
           call |-> NoCall, ret |-> Failed, out |-> << >>, was |-> {}]

Init ==
    /\ create_driver
    /\ disk \in BOOLEAN
    /\ sfs = IF disk THEN SfsFiles ELSE << >>
    /\ pending = << >>
    /\ mounts = << >> /\ booted = FALSE
    /\ cwd = << >>
    /\ vfs_lock = NoHart /\ fs_readers = {}
    /\ ctx = [h \in Harts |-> NoCtx] /\ queue = << >>
    /\ proc = [h \in Harts |-> NoProc]
    /\ \E s \in Sessions : input = s.input /\ rx = s.typed /\ keys = s.keys
    /\ sh = ShellState /\ tail = TailFollowState

-----------------------------------------------------------------------------
(* Paths. *)

Under(p, d) == IsPrefix(d, p) /\ p # d

(* Vfs::mount: longest paths first. *)
mount(ms, path, fs) ==
    SortSeq(Append(ms, [path |-> path, fs |-> fs]), LAMBDA a, b : Len(a.path) > Len(b.path))

(* resolve_mut: the first mount the path is at or under; the root mount is given the path
   as it is, another one the rest of it. *)
Mounted(path) == SelectSeq(mounts, LAMBDA m : IsPrefix(m.path, path))
resolve_mut(path) ==
    LET m == Head(Mounted(path))
    IN  [fs |-> m.fs, path |-> SubSeq(path, Len(m.path) + 1, Len(path))]

(* resolve_path: joined to the working directory, without "." and "..". *)
resolve_path(abs, arg) ==
    LET push(acc, n) == CASE n = "." -> acc
                          [] n = ".." -> IF acc = << >> THEN acc ELSE Front(acc)
                          [] OTHER -> Append(acc, n)
    IN  FoldLeft(push, << >>, IF abs THEN arg ELSE cwd \o arg)

(* What the programs do themselves: joined and nothing more. *)
Join(abs, arg) == IF abs THEN arg ELSE cwd \o arg

(* Listings look at the cache, lookups of a file at the disk; a directory of the root file
   system is a prefix of something listed. *)
Listed == DOMAIN sfs \cup ({pending} \ {<< >>})
SfsDir(path) == \E p \in Listed : Under(p, path)
SfsExists(path) == path = << >> \/ path \in DOMAIN sfs \/ SfsDir(path)
SfsFull == Cardinality(DOMAIN sfs) >= SFS_ENTRIES

(* An entry of a listing: a full path or a bare name, with a final slash or without. *)
Entry(name, full, slash) == [name |-> name, full |-> full, slash |-> slash]

(* Vfs::list_dir adds the first component of every mount under the directory, as a full
   path in a listing of the root and as a bare name in any other. *)
MountEntries(dir) ==
    LET under == {m \in Range(mounts) : Under(m.path, dir)}
    IN  {Entry(<<m.path[Len(dir) + 1]>>, dir = << >>, TRUE) : m \in under}

Listing(dir, entries) ==
    entries \o SetToSeq(MountEntries(dir) \ Range(entries))

(* Vfs::exists answers for mount points and what leads to them. *)
IsMountPath(path) == \E m \in Range(mounts) : IsPrefix(path, m.path)

-----------------------------------------------------------------------------
(* What a call returns to the program: syscall.rs cuts what does not fit the buffer, wasm.rs
   cuts a file and refuses a listing. *)

Cut(s, n) == SubSeq(s, 1, Min({n, Len(s)}))
write_bytes(r, n) == [r EXCEPT !.data = Cut(@, n)]

sys_fs_read(r) == IF r.ok THEN write_bytes(r, READ_BUF) ELSE Failed
sys_fs_list_dir(r) == write_bytes(Done(r.data), LIST_BUF)
wasm_fs_read(r) == IF r.ok THEN Done(Cut(r.data, READ_BUF)) ELSE Failed
wasm_fs_list_dir(r) == IF Len(r.data) > LIST_BUF THEN Failed ELSE Done(r.data)

Returned(abi, op, r) ==
    CASE abi = "kernel" -> r
      [] abi # "kernel" /\ op = "read" -> IF abi = "native" THEN sys_fs_read(r) ELSE wasm_fs_read(r)
      [] abi # "kernel" /\ op = "list" -> IF abi = "native" THEN sys_fs_list_dir(r) ELSE wasm_fs_list_dir(r)
      [] OTHER -> r

(* Program h has the result r of its call, given with the files of that moment. *)
Result(h, r) ==
    LET p == proc[h]
    IN  [proc EXCEPT ![h] = [p EXCEPT !.call = NoCall, !.ret = Returned(p.cmd.abi, p.call.op, r),
                                      !.was = IF r.ok THEN Listed ELSE {}]]

(* sys_fs_is_dir looks for its path in a listing of the root. *)
IsDirIn(path, entries) == \E e \in Range(entries) : e.full /\ IsPrefix(path, e.name)
                                                    /\ (e.slash \/ e.name # path)

Answered(h, r) ==
    IF proc[h].call.op = "is_dir"
    THEN /\ proc' = Result(h, [ok |-> IsDirIn(proc[h].call.path, r.data), data |-> << >>])
         /\ fs_readers' = fs_readers \ {h}
    ELSE proc' = Result(h, r) /\ UNCHANGED fs_readers

-----------------------------------------------------------------------------
(* Boot. *)

p9start == [Start("init", << >>, << >>) EXCEPT !.st = "version"]

(* The device is found and init begins. *)
probe ==
    /\ ~ booted /\ job = NoJob
    /\ Begin(p9start)
    /\ UNCHANGED <<p9rest, disk, sfs, pending, mounts, booted, cwd, vfs_lock, fs_readers, ctx, queue,
                   proc, typing>>

(* init_vfs: the root if there is a disk, /mnt/disk1 if the driver could attach. *)
init_vfs ==
    /\ ~ booted
    /\ job # NoJob => job.st = "done"
    /\ LET root == IF disk THEN mount(<< >>, << >>, "sfs") ELSE << >>
       IN  mounts' = IF job # NoJob /\ job.ret.ok THEN mount(root, Disk1, "p9") ELSE root
    /\ booted' = TRUE
    /\ End
    /\ UNCHANGED <<p9rest, disk, sfs, pending, cwd, vfs_lock, fs_readers, ctx, queue, proc, typing>>

-----------------------------------------------------------------------------
(* File operations on the hart that performs them.  ctx.for is the hart whose program asked, or
   NoHart if it gave up. *)

Proxied == {"read", "write", "list", "exists"}
files_only == <<disk, mounts, booted, cwd, typing>>

(* What the proxy asks for: sys_fs_is_dir wants a listing of the root. *)
Operation(c) == IF c.op = "is_dir" THEN [c EXCEPT !.op = "list", !.path = << >>] ELSE c
Ctx(st, c, h) == [st |-> st, op |-> c.op, path |-> c.path, data |-> c.data, for |-> h]

(* The operation of hart h is over; its caller has r unless it gave up waiting. *)
Finish(h, r) ==
    LET t == ctx[h].for
    IN  /\ ctx' = [ctx EXCEPT ![h] = NoCtx]
        /\ vfs_lock' = IF vfs_lock = h THEN NoHart ELSE vfs_lock
        /\ IF t # NoHart THEN Answered(t, r) ELSE UNCHANGED <<proc, fs_readers>>

(* Hart 0 calls the proxy: it performs the operation itself. *)
fs_direct ==
    /\ ctx[0] = NoCtx
    /\ proc[0].call.st = "new"
    /\ proc[0].call.op \in Proxied \/ 0 \in fs_readers
    /\ ctx' = [ctx EXCEPT ![0] = Ctx("vfs", Operation(proc[0].call), 0)]
    /\ UNCHANGED <<p9vars, files_only, sfs, pending, vfs_lock, fs_readers, queue, proc>>

(* Another hart puts a request to hart 0 and waits. *)
request_io_blocking(h) ==
    /\ h # 0
    /\ proc[h].call.st = "new"
    /\ proc[h].call.op \in Proxied \/ h \in fs_readers
    /\ proc' = [proc EXCEPT ![h].call.st = "asked"]
    /\ queue' = Append(queue, Ctx("queued", Operation(proc[h].call), h))
    /\ UNCHANGED <<p9vars, files_only, sfs, pending, vfs_lock, fs_readers, ctx>>

(* A request nobody waits for any more. *)
GivenUp(c, h) == IF c.for = h THEN [c EXCEPT !.for = NoHart] ELSE c

(* Fault: only a request still in the queue is given up. *)
request_timeout_queued(h) ==
    /\ \E i \in DOMAIN queue : queue[i].for = h
    /\ Answered(h, Failed)
    /\ queue' = [i \in DOMAIN queue |-> GivenUp(queue[i], h)]
    /\ UNCHANGED <<p9vars, files_only, sfs, pending, vfs_lock, ctx>>

(* IO_TIMEOUT_MS has passed; the request stays and will be carried out. *)
request_timeout(h) ==
    /\ proc[h].call.st = "asked"
    /\ Answered(h, Failed)
    /\ queue' = [i \in DOMAIN queue |-> GivenUp(queue[i], h)]
    /\ ctx' = [ctx EXCEPT ![0] = GivenUp(@, h)]
    /\ UNCHANGED <<p9vars, files_only, sfs, pending, vfs_lock>>

(* Hart 0 takes a request in its loop, when it runs no program.  Only paths below /mnt go
   through the VFS to be read, and none to be looked up. *)
handle_block_request ==
    /\ ctx[0] = NoCtx /\ proc[0].pc = "exited" /\ queue # << >>
    /\ LET q == Head(queue)
           direct == \/ q.op = "read" /\ ~ Under(q.path, <<"mnt">>)
                     \/ q.op = "exists"
       IN  ctx' = [ctx EXCEPT ![0] = [q EXCEPT !.st = IF direct THEN "fs" ELSE "vfs"]]
    /\ queue' = Tail(queue)
    /\ UNCHANGED <<p9vars, files_only, sfs, pending, vfs_lock, fs_readers, proc>>

(* The lock is free and the path resolved: to nothing, to the root file system, or to the
   9P driver, where the operation begins. *)
ToFileSystem(h, none) ==
    /\ ctx[h].st = "vfs" /\ vfs_lock = NoHart
    /\ CASE Mounted(ctx[h].path) = << >> ->
              Finish(h, none) /\ UNCHANGED p9vars
         [] Mounted(ctx[h].path) # << >> /\ resolve_mut(ctx[h].path).fs = "sfs" ->
              /\ ctx' = [ctx EXCEPT ![h].st = "fs"]
              /\ vfs_lock' = h
              /\ UNCHANGED <<p9vars, fs_readers, proc>>
         [] OTHER ->
              /\ Begin(Start(IF ctx[h].op = "cwd_set" THEN "exists" ELSE ctx[h].op,
                             resolve_mut(ctx[h].path).path, ctx[h].data))
              /\ ctx' = [ctx EXCEPT ![h].st = "p9"]
              /\ vfs_lock' = h
              /\ UNCHANGED <<p9rest, fs_readers, proc>>
    /\ UNCHANGED <<files_only, sfs, pending, queue>>

vfs_read_file(h) == ctx[h].op = "read" /\ ToFileSystem(h, Failed)
vfs_write_file(h) == ctx[h].op = "write" /\ ToFileSystem(h, Failed)
vfs_list_dir(h) == ctx[h].op = "list" /\ ToFileSystem(h, Done(Listing(ctx[h].path, << >>)))

(* Mount points are answered for without a file system. *)
vfs_exists(h) ==
    /\ ctx[h].op = "exists"
    /\ IF IsMountPath(ctx[h].path)
       THEN /\ ctx[h].st = "vfs" /\ vfs_lock = NoHart
            /\ Finish(h, Done(<< >>))
            /\ UNCHANGED <<p9vars, files_only, sfs, pending, queue>>
       ELSE ToFileSystem(h, Failed)

(* Hart 0 itself tries to lock for 5 s before it gives up writing. *)
write_lock_timeout ==
    /\ ctx[0].st = "vfs" /\ ctx[0].op = "write" /\ ctx[0].for = 0 /\ vfs_lock # NoHart
    /\ Finish(0, Failed)
    /\ UNCHANGED <<p9vars, files_only, sfs, pending, queue>>

(* The 9P operation is over. *)
p9_return(h) ==
    /\ ctx[h].st = "p9" /\ job.st = "done"
    /\ ctx[h].op # "cwd_set"
    /\ End
    /\ Finish(h, IF ctx[h].op # "list" THEN job.ret
                 ELSE Done(Listing(ctx[h].path,
                                   [i \in DOMAIN job.ret.data |->
                                        Entry(<<job.ret.data[i]>>, FALSE, FALSE)])))
    /\ UNCHANGED <<p9rest, files_only, sfs, pending, queue>>

(* FS_STATE is free for writing. *)
FsFree == fs_readers = {}
FsReady(h, op) == ctx[h].st = "fs" /\ ctx[h].op = op /\ FsFree

sfs_read_file(h) ==
    /\ FsReady(h, "read")
    /\ Finish(h, IF ctx[h].path \in DOMAIN sfs THEN Done(sfs[ctx[h].path]) ELSE Failed)
    /\ UNCHANGED <<p9vars, files_only, sfs, pending, queue>>

(* What the disk has after a sync: the free slot found on the disk for a new file is the
   one the pending entry was given. *)
Synced == IF pending = << >> THEN sfs ELSE sfs @@ (pending :> << >>)
SyncedWith(path, data) == (path :> data) @@ (IF path \in DOMAIN sfs THEN Synced ELSE sfs)

(* The pending entry reaches the disk when its block is evicted or someone syncs. *)
cache_writeback ==
    /\ pending # << >> /\ FsFree
    /\ sfs' = Synced /\ pending' = << >>
    /\ UNCHANGED <<p9vars, files_only, vfs_lock, fs_readers, ctx, queue, proc>>

(* The file is replaced, or created while there is room in the directory, and synced. *)
sfs_write_file(h) ==
    /\ FsReady(h, "write")
    /\ IF ctx[h].path \notin DOMAIN sfs /\ SfsFull
       THEN Finish(h, Failed) /\ UNCHANGED <<sfs, pending>>
       ELSE /\ Finish(h, Done(<< >>))
            /\ sfs' = SyncedWith(ctx[h].path, ctx[h].data) /\ pending' = << >>
    /\ UNCHANGED <<p9vars, files_only, queue>>

(* GlobalSfs::write_file tries for 25 s. *)
sfs_write_timeout(h) ==
    /\ ctx[h].st = "fs" /\ ctx[h].op = "write" /\ ~ FsFree
    /\ Finish(h, Failed)
    /\ UNCHANGED <<p9vars, files_only, sfs, pending, queue>>

(* Every file of the disk, whatever the directory. *)
sfs_list_dir(h) ==
    /\ FsReady(h, "list")
    /\ Finish(h, Done(Listing(ctx[h].path, SetToSeq({Entry(p, TRUE, FALSE) : p \in Listed}))))
    /\ UNCHANGED <<p9vars, files_only, sfs, pending, queue>>

(* Through the VFS a directory exists; the request handler reads a file. *)
sfs_exists(h) ==
    /\ FsReady(h, "exists")
    /\ LET found == IF vfs_lock = h THEN SfsExists(ctx[h].path) ELSE ctx[h].path \in DOMAIN sfs
       IN  Finish(h, [ok |-> found, data |-> << >>])
    /\ UNCHANGED <<p9vars, files_only, sfs, pending, queue>>

-----------------------------------------------------------------------------
(* Calls performed on the hart that makes them. *)

Called(h, op) == proc[h].call.st = "new" /\ proc[h].call.op = op
files_local == <<p9vars, disk, mounts, booted, vfs_lock, ctx, queue, typing>>

(* cwd_set: the path is resolved, looked up, and becomes the working directory. *)
sys_cwd_set(h) ==
    /\ Called(h, "cwd_set") /\ ctx[h] = NoCtx
    /\ LET c == proc[h].call
           path == resolve_path(c.abs, c.path)
       IN  IF path = << >>
           THEN cwd' = << >> /\ proc' = Result(h, Done(<< >>)) /\ UNCHANGED ctx
           ELSE /\ ctx' = [ctx EXCEPT ![h] = Ctx("vfs", [c EXCEPT !.path = path], h)]
                /\ UNCHANGED <<cwd, proc>>
    /\ UNCHANGED <<p9vars, disk, mounts, booted, typing, sfs, pending, vfs_lock, fs_readers, queue>>

SetIfFound(h, found) ==
    /\ Finish(h, [ok |-> found, data |-> << >>])
    /\ cwd' = IF found THEN ctx[h].path ELSE cwd
    /\ UNCHANGED <<disk, mounts, booted, typing, sfs, pending, queue>>

path_exists(h) ==
    /\ ctx[h].op = "cwd_set"
    /\ \/ /\ ctx[h].st = "vfs"
          /\ IF IsMountPath(ctx[h].path)
             THEN vfs_lock = NoHart /\ SetIfFound(h, TRUE) /\ UNCHANGED p9vars
             ELSE ToFileSystem(h, Failed)
       \/ /\ ctx[h].st = "fs" /\ FsFree
          /\ SetIfFound(h, SfsExists(ctx[h].path))
          /\ UNCHANGED p9vars
       \/ /\ ctx[h].st = "p9" /\ job.st = "done"
          /\ SetIfFound(h, job.ret.ok)
          /\ End /\ UNCHANGED p9rest

(* Size, existence and kind, of the root file system only. *)
sys_fs_stat(h) ==
    /\ Called(h, "stat") /\ FsFree
    /\ LET p == proc[h].call.path
       IN  proc' = Result(h, [ok |-> disk, data |-> <<p \in DOMAIN sfs \/ SfsDir(p),
                                                     p \notin DOMAIN sfs /\ SfsDir(p)>>])
    /\ UNCHANGED <<files_local, sfs, pending, cwd, fs_readers>>

(* A directory is made by the file .keep in it, in the root file system, without a sync. *)
sys_fs_mkdir(h) ==
    /\ Called(h, "mkdir") /\ FsFree
    /\ LET keep == Append(proc[h].call.path, ".keep")
       IN  IF disk /\ (keep \in DOMAIN sfs \/ ~ SfsFull)
           THEN /\ pending' = IF keep \in DOMAIN sfs THEN pending ELSE keep
                /\ proc' = Result(h, Done(<< >>))
           ELSE UNCHANGED pending /\ proc' = Result(h, Failed)
    /\ UNCHANGED <<files_local, sfs, cwd, fs_readers>>

(* The native call is not supported. *)
sys_fs_remove(h) ==
    /\ Called(h, "remove") /\ proc[h].cmd.abi = "native"
    /\ proc' = Result(h, Failed)
    /\ UNCHANGED <<files_local, sfs, pending, cwd, fs_readers>>

wasm_fs_remove(h) ==
    /\ Called(h, "remove") /\ proc[h].cmd.abi = "wasm" /\ FsFree
    /\ LET p == proc[h].call.path
       IN  IF p \in DOMAIN sfs
           THEN /\ sfs' = [q \in DOMAIN Synced \ {p} |-> Synced[q]] /\ pending' = << >>
                /\ proc' = Result(h, Done(<< >>))
           ELSE UNCHANGED <<sfs, pending>> /\ proc' = Result(h, Failed)
    /\ UNCHANGED <<files_local, cwd, fs_readers>>

wasm_fs_is_dir(h) ==
    /\ Called(h, "is_dir") /\ proc[h].cmd.abi = "wasm" /\ FsFree
    /\ proc' = Result(h, [ok |-> disk /\ SfsDir(proc[h].call.path), data |-> << >>])
    /\ UNCHANGED <<files_local, sfs, pending, cwd, fs_readers>>

(* FS_STATE stays locked for reading while the proxy lists the root.  A reader waits behind
   a writer that waits. *)
sys_fs_is_dir(h) ==
    /\ Called(h, "is_dir") /\ proc[h].cmd.abi = "native" /\ h \notin fs_readers
    /\ FsFree \/ \A g \in Harts : ctx[g].st = "fs" => ctx[g].op = "write"
    /\ IF disk
       THEN fs_readers' = fs_readers \cup {h} /\ UNCHANGED proc
       ELSE proc' = Result(h, Failed) /\ UNCHANGED fs_readers
    /\ UNCHANGED <<files_local, sfs, pending, cwd>>

-----------------------------------------------------------------------------
(* The programs.  A step of a program ends with the call it makes; the next one has its
   result.  Args of a command are [abs, names]. *)

program == <<p9vars, files_only, sfs, pending, vfs_lock, fs_readers, ctx, queue>>
At(h, prog, pc) == proc[h].cmd.prog = prog /\ proc[h].pc = pc /\ proc[h].call = NoCall
Become(h, p) == proc' = [proc EXCEPT ![h] = p] /\ UNCHANGED program

Arg(h, i) == Join(proc[h].cmd.args[i].abs, proc[h].cmd.args[i].names)
AllArgs(h) == [i \in DOMAIN proc[h].cmd.args |-> Arg(h, i)]

Call(p, op, path, data, next) ==
    [p EXCEPT !.pc = next, !.path = path,
              !.call = [st |-> "new", op |-> op, path |-> path, data |-> data, abs |-> TRUE]]

(* A command is run on hart h. *)
run_program(h) ==
    /\ booted /\ input[h] # << >>
    /\ proc[h].pc = "exited" /\ ctx[h] = NoCtx
    /\ proc' = [proc EXCEPT ![h] = [NoProc EXCEPT !.cmd = Head(input[h]), !.pc = "main"]]
    /\ input' = [input EXCEPT ![h] = Tail(@)]
    /\ UNCHANGED <<p9vars, disk, mounts, booted, cwd, sfs, pending, vfs_lock, fs_readers, ctx, queue, shellvars>>

(* cat and tail read the file and print it, or the end of it. *)
cat_main(h) ==
    \/ At(h, "cat", "main") /\ Become(h, Call(proc[h], "read", Arg(h, 1), << >>, "print"))
    \/ At(h, "cat", "print") /\ Become(h, NoProc)

tail_main(h) ==
    \/ /\ At(h, "tail", "main")
       /\ Become(h, IF proc[h].cmd.args = << >> THEN NoProc
                    ELSE Call(proc[h], "read", Arg(h, 1), << >>, "print"))
    \/ At(h, "tail", "print") /\ Become(h, NoProc)

(* grep reads one file after the other. *)
grep_main(h) ==
    \/ At(h, "grep", "main") /\ Become(h, [proc[h] EXCEPT !.todo = AllArgs(h), !.pc = "next"])
    \/ /\ At(h, "grep", "next")
       /\ LET p == proc[h]
          IN  Become(h, IF p.todo = << >> THEN NoProc
                        ELSE Call([p EXCEPT !.todo = Tail(@)], "read", Head(p.todo), << >>, "next"))

(* nano looks the file up before it reads it. *)
nano_main(h) ==
    \/ At(h, "nano", "main") /\ Become(h, Call(proc[h], "exists", Arg(h, 1), << >>, "read"))
    \/ /\ At(h, "nano", "read")
       /\ LET p == proc[h]
          IN  Become(h, IF p.ret.ok THEN Call(p, "read", p.path, << >>, "print") ELSE NoProc)
    \/ At(h, "nano", "print") /\ Become(h, NoProc)

(* What ls makes of a listing: the part of an entry below the target, its first name, and a
   directory when there is more.  Directories are shown once. *)
Relative(target, e) ==
    CASE e.full /\ Under(e.name, target) -> SubSeq(e.name, Len(target) + 1, Len(e.name))
      [] ~ e.full /\ target = << >> /\ ~ e.slash -> e.name
      [] OTHER -> << >>

(* Fault: a directory is shown for each of its files. *)
ls_entries_repeats(target, listing) ==
    LET show(acc, e) ==
            LET rel == Relative(target, e)
            IN  IF rel = << >> \/ Len(acc) = LS_ENTRIES THEN acc
                ELSE Append(acc, [name |-> Head(rel), dir |-> Len(rel) > 1 \/ e.slash])
    IN  FoldLeft(show, << >>, listing)

ls_entries(target, listing) ==
    LET show(acc, e) ==
            LET rel == Relative(target, e)
                item == [name |-> Head(rel), dir |-> Len(rel) > 1 \/ e.slash]
            IN  IF \/ rel = << >> \/ Len(acc) = LS_ENTRIES
                   \/ item.dir /\ item \in Range(acc)
                THEN acc ELSE Append(acc, item)
    IN  FoldLeft(show, << >>, listing)

ls_main(h) ==
    \/ At(h, "ls", "main") /\ Become(h, Call(proc[h], "list", Arg(h, 1), << >>, "show"))
    \/ /\ At(h, "ls", "show")
       /\ LET p == proc[h]
          IN  Become(h, [NoProc EXCEPT !.cmd = p.cmd, !.path = p.path, !.was = p.was,
                                       !.out = ls_entries(p.path, p.ret.data)])

(* The path of cd is resolved by the kernel. *)
cd_main(h) ==
    \/ /\ At(h, "cd", "main")
       /\ LET a == proc[h].cmd.args[1]
          IN  Become(h, [Call(proc[h], "cwd_set", a.names, << >>, "exit") EXCEPT !.call.abs = a.abs])
    \/ At(h, "cd", "exit") /\ Become(h, NoProc)

(* mkdir makes the directories it is given; with -p, every directory on the way that is not
   found. *)
OnTheWay(path) == [i \in DOMAIN path |-> SubSeq(path, 1, i)]

mkdir_main(h) ==
    \/ /\ At(h, "mkdir", "main")
       /\ LET dirs_ == AllArgs(h)
              todo == IF proc[h].cmd.flag
                      THEN FlattenSeq([i \in DOMAIN dirs_ |-> OnTheWay(dirs_[i])]) ELSE dirs_
          IN  Become(h, [proc[h] EXCEPT !.todo = todo, !.pc = "next"])
    \/ /\ At(h, "mkdir", "next")
       /\ LET p == proc[h]
              rest == [p EXCEPT !.todo = Tail(@)]
          IN  Become(h, CASE p.todo = << >> -> NoProc
                          [] p.todo # << >> /\ p.cmd.flag ->
                                Call(rest, "exists", Head(p.todo), << >>, "make")
                          [] OTHER -> Call(rest, "mkdir", Head(p.todo), << >>, "next"))
    \/ /\ At(h, "mkdir", "make")
       /\ LET p == proc[h]
          IN  Become(h, IF p.ret.ok THEN [p EXCEPT !.pc = "next"]
                                    ELSE Call(p, "mkdir", p.path, << >>, "next"))

(* rm looks its file up, asks whether it is a directory, once more with -r, and removes it.
   The native is_dir never says yes, so remove_recursive is not reached. *)
rm_main(h) ==
    \/ At(h, "rm", "main") /\ Become(h, [proc[h] EXCEPT !.todo = AllArgs(h), !.pc = "next"])
    \/ /\ At(h, "rm", "next")
       /\ LET p == proc[h]
          IN  Become(h, IF p.todo = << >> THEN NoProc
                        ELSE Call([p EXCEPT !.todo = Tail(@)], "exists", Head(p.todo), << >>, "kind"))
    \/ /\ At(h, "rm", "kind")
       /\ LET p == proc[h]
          IN  Become(h, IF p.ret.ok THEN Call(p, "is_dir", p.path, << >>, "checked")
                                    ELSE [p EXCEPT !.pc = "next"])
    \/ /\ At(h, "rm", "checked")
       /\ LET p == proc[h]
          IN  Become(h, CASE p.cmd.flag -> Call(p, "is_dir", p.path, << >>, "remove")
                          [] ~ p.cmd.flag /\ p.ret.ok -> [p EXCEPT !.pc = "next"]
                          [] OTHER -> Call(p, "remove", p.path, << >>, "next"))
    \/ /\ At(h, "rm", "remove") /\ ~ proc[h].ret.ok
       /\ Become(h, Call(proc[h], "remove", proc[h].path, << >>, "next"))

(* pkg: a package is the file /var/pkg/<name>. *)
Package(h) == <<"var", "pkg">> \o proc[h].cmd.args[1].names

pkg_list(h) ==
    \/ At(h, "pkg list", "main") /\ Become(h, Call(proc[h], "list", <<"var", "pkg">>, << >>, "exit"))
    \/ At(h, "pkg list", "exit") /\ Become(h, NoProc)

pkg_install(h) ==
    LET p == proc[h]
        Write(next) == Call(p, "write", Package(h), <<"installed">>, next)
    IN  \/ /\ At(h, "pkg install", "main")
           /\ Become(h, Call(p, "exists", Package(h), << >>, "write"))
        \/ At(h, "pkg install", "write") /\ Become(h, IF p.ret.ok THEN NoProc ELSE Write("written"))
        \/ /\ At(h, "pkg install", "written")
           /\ Become(h, IF p.ret.ok THEN NoProc ELSE Call(p, "mkdir", <<"var">>, << >>, "var"))
        \/ /\ At(h, "pkg install", "var")
           /\ Become(h, Call(p, "mkdir", <<"var", "pkg">>, << >>, "again"))
        \/ At(h, "pkg install", "again") /\ Become(h, Write("exit"))
        \/ At(h, "pkg install", "exit") /\ Become(h, NoProc)

pkg_remove(h) ==
    LET p == proc[h]
    IN  \/ At(h, "pkg remove", "main") /\ Become(h, Call(p, "exists", Package(h), << >>, "remove"))
        \/ /\ At(h, "pkg remove", "remove")
           /\ Become(h, IF p.ret.ok THEN Call(p, "remove", p.path, << >>, "exit") ELSE NoProc)
        \/ At(h, "pkg remove", "exit") /\ Become(h, NoProc)

pkg_info(h) ==
    \/ At(h, "pkg info", "main") /\ Become(h, Call(proc[h], "exists", Package(h), << >>, "exit"))
    \/ At(h, "pkg info", "exit") /\ Become(h, NoProc)

(* A WASM program makes the one call of its command line. *)
wasm_main(h) ==
    \/ /\ At(h, "wasm", "main")
       /\ LET c == proc[h].cmd.call
          IN  Become(h, Call(proc[h], c.op, c.path, c.data, "exit"))
    \/ At(h, "wasm", "exit") /\ Become(h, NoProc)

-----------------------------------------------------------------------------
(* The serial shell, on its hart when no program runs there.  Its own file calls are made like
   a program's.  Bound: it is used on a machine that has a disk and no 9P device. *)

ShellProc == [NoProc EXCEPT !.cmd = [prog |-> "shell", abi |-> "kernel"]]
ShellUsed == booted /\ disk /\ req = NoMsg
ShellReady == ShellUsed /\ proc[ShellHart].pc = "exited" /\ ctx[ShellHart] = NoCtx
ShellCall(op, path, next) == proc' = [proc EXCEPT ![ShellHart] = Call(ShellProc, op, path, << >>, next)]
ShellReturned(pc) == At(ShellHart, "shell", pc) /\ proc' = [proc EXCEPT ![ShellHart] = NoProc]
shell_frame == <<p9vars, disk, mounts, booted, cwd, input, sfs, pending, vfs_lock, fs_readers, ctx, queue>>

(* A key is pressed: its bytes arrive. *)
press ==
    /\ ShellUsed
    /\ keys > 0 /\ rx = << >>
    /\ \E k \in Keys : rx' = k
    /\ keys' = keys - 1
    /\ UNCHANGED <<shell_frame, proc, sh, tail>>

IsNewline(b) == b \in {"CR", "LF"} /\ ~ sh.tail_follow_mode /\ sh.esc_state # 2

(* shell_tick takes a byte that needs no file. *)
shell_tick ==
    /\ ShellReady /\ rx # << >>
    /\ rx' = Tail(rx)
    /\ LET b == Head(rx)
       IN  /\ ~ (b = "TAB" /\ ~ sh.tail_follow_mode /\ sh.esc_state # 2)
           /\ IsNewline(b) => SecondNewline(sh, b)
           /\ sh' = IF IsNewline(b) THEN [sh EXCEPT !.last_newline = "", !.esc_state = 0]
                    ELSE process_input_byte(sh, b)
    /\ tail' = [tail EXCEPT !.active = @ /\ sh'.tail_follow_mode]
    /\ UNCHANGED <<shell_frame, proc, keys>>

(* Enter: the line is remembered, then tail -f reads its file, a native program takes the hart
   over (what follows it is done here, the shell doing nothing meanwhile), and any other line
   returns. *)
handle_enter ==
    /\ ShellReady /\ rx # << >> /\ IsNewline(Head(rx)) /\ ~ SecondNewline(sh, Head(rx))
    /\ rx' = Tail(rx)
    /\ LET line == sh.buffer
           s == [Remember(sh) EXCEPT !.last_newline = Head(rx), !.esc_state = 0]
           word == CommandWord(line)
       IN  \/ /\ parse_tail_follow_command(line) # << >>
              /\ ShellCall("read", resolve_path(FALSE, parse_tail_follow_command(line)), "follow")
              /\ sh' = s
           \/ /\ parse_tail_follow_command(line) = << >> /\ word \in DOMAIN ShellCommands
              /\ proc' = [proc EXCEPT ![ShellHart] =
                             [NoProc EXCEPT !.cmd = ShellCommands[word], !.pc = "main"]]
              /\ sh' = clear_buffer(s)
           \/ /\ parse_tail_follow_command(line) = << >>
              /\ sh' = handle_enter_reset(s)
              /\ UNCHANGED proc
    /\ UNCHANGED <<shell_frame, tail, keys>>

(* The file of tail -f has been read, or not. *)
start_tail_follow ==
    /\ ShellReturned("follow")
    /\ LET r == proc[ShellHart].ret
       IN  /\ sh' = [handle_enter_reset(sh) EXCEPT !.tail_follow_mode = r.ok]
           /\ tail' = IF r.ok THEN start(proc[ShellHart].path, r.data) ELSE tail
    /\ UNCHANGED <<shell_frame, rx, keys>>

(* Tab: the files are listed. *)
tab ==
    /\ ShellReady /\ rx # << >> /\ Head(rx) = "TAB" /\ ~ sh.tail_follow_mode /\ sh.esc_state # 2
    /\ rx' = Tail(rx)
    /\ sh' = [sh EXCEPT !.esc_state = 0, !.last_newline = ""]
    /\ IF sh.buffer = << >> THEN UNCHANGED proc ELSE ShellCall("list", << >>, "complete")
    /\ UNCHANGED <<shell_frame, tail, keys>>

(* The names in the root, for what follows a command. *)
complete ==
    /\ ShellReturned("complete")
    /\ LET names == {e.name : e \in Range(proc[ShellHart].ret.data)}
           children == {n[1] : n \in names}
       IN  sh' = handle_tab_completion(sh, DOMAIN ShellCommands, children)
    /\ UNCHANGED <<shell_frame, tail, rx, keys>>

(* Every 500 ms while a file is followed.  Bound: not while hart 0 has a request left over. *)
poll_tail_follow ==
    /\ ShellReady /\ tail.active /\ queue = << >>
    /\ ShellCall("read", tail.path, "check")
    /\ UNCHANGED <<shell_frame, shellvars>>

poll_returns ==
    /\ ShellReturned("check")
    /\ tail' = IF proc[ShellHart].ret.ok THEN check_tail_follow(tail, proc[ShellHart].ret.data) ELSE tail
    /\ UNCHANGED <<shell_frame, sh, rx, keys>>

shell_returns == start_tail_follow \/ complete \/ poll_returns

-----------------------------------------------------------------------------

syscall(h) ==
    \/ sys_cwd_set(h) \/ path_exists(h)
    \/ sys_fs_stat(h) \/ sys_fs_mkdir(h) \/ sys_fs_remove(h) \/ sys_fs_is_dir(h)
    \/ wasm_fs_remove(h) \/ wasm_fs_is_dir(h)
    \/ request_io_blocking(h) \/ request_timeout(h)

Operate(h) ==
    \/ vfs_read_file(h) \/ vfs_write_file(h) \/ vfs_list_dir(h) \/ vfs_exists(h)
    \/ sfs_read_file(h) \/ sfs_write_file(h) \/ sfs_write_timeout(h)
    \/ sfs_list_dir(h) \/ sfs_exists(h)
    \/ p9_return(h)

Program(h) ==
    \/ cat_main(h) \/ tail_main(h) \/ grep_main(h) \/ nano_main(h) \/ ls_main(h) \/ cd_main(h)
    \/ mkdir_main(h) \/ rm_main(h)
    \/ pkg_list(h) \/ pkg_install(h) \/ pkg_remove(h) \/ pkg_info(h)
    \/ wasm_main(h)

Driver == transact_send \/ transact_poll \/ transact_timeout
rest == <<disk, sfs, pending, mounts, booted, cwd, vfs_lock, fs_readers, ctx, queue, proc, typing>>

Next ==
    \/ probe \/ init_vfs
    \/ P9Step /\ UNCHANGED rest
    \/ fs_direct \/ handle_block_request \/ write_lock_timeout \/ cache_writeback
    \/ \E h \in Harts : syscall(h) \/ Operate(h) \/ Program(h) \/ run_program(h)
    \/ press \/ shell_tick \/ handle_enter \/ tab \/ poll_tail_follow \/ shell_returns

(* Every hart goes on with what it is doing, polling comes to an end and so does waiting for
   hart 0.  The device owes nothing, and no command need be entered. *)
Fairness ==
    /\ WF_vars(init_vfs)
    /\ WF_vars(Driver /\ UNCHANGED rest)
    /\ WF_vars(fs_direct) /\ WF_vars(handle_block_request)
    /\ \A h \in Harts : WF_vars(syscall(h)) /\ WF_vars(Operate(h)) /\ WF_vars(Program(h))
    /\ WF_vars(shell_returns)

Spec == Init /\ [][Next]_vars /\ Fairness

-----------------------------------------------------------------------------
(* Contents of a file, of the disk or of the shared directory. *)
Contents(path, onDisk, shared) ==
    LET at == resolve_mut(path)
        tree == IF at.fs = "p9" THEN shared ELSE onDisk
    IN  IF at.path \in DOMAIN tree THEN tree[at.path] ELSE << >>

Returns(h, op) ==
    proc[h].call.op = op /\ proc'[h].call = NoCall /\ proc'[h].ret.ok

(* What fs_read returns, on whichever hart and through however many messages, is the file
   cut to the buffer; after fs_write has reported success the file has what was written, if
   that fits a message and covers what was there.  9P promises it until an answer is late. *)
FilesAreKept ==
    [][\A h \in Harts :
          LET c == proc[h].call
          IN  /\ late = 0 /\ Returns(h, "read") =>
                    proc'[h].ret = Returned(proc[h].cmd.abi, "read", Done(Contents(c.path, sfs, files)))
              /\ late = 0 /\ Returns(h, "write") =>
                    \/ Contents(c.path, sfs', files') = c.data
                    \/ Len(c.data) > WRITE_CHUNKS
                    \/ Len(Contents(c.path, sfs', files')) > Len(c.data)]_vars

(* ls of a directory of the disk shows every file and directory in it once, mount points of
   the root included, when the listing was answered and fits. *)
LsShowsChildren ==
    \A h \in Harts :
        LET p == proc[h]
            below == {q \in p.was : Under(q, p.path)}
            points == {m.path : m \in Range(mounts)} \ {<< >>}
            ofDisk == p.path = << >> \/ \A m \in points : ~ IsPrefix(m, p.path) /\ ~ IsPrefix(p.path, m)
        IN  p.cmd.prog = "ls" /\ p.pc = "exited" /\ p.was # {} /\ ofDisk
            /\ Cardinality(p.was \cup points) <= Min({LIST_BUF, LS_ENTRIES})
            => /\ Range(p.out) =
                    {[name |-> q[Len(p.path) + 1], dir |-> Len(q) > Len(p.path) + 1] : q \in below}
                    \cup {[name |-> m[1], dir |-> TRUE] : m \in {n \in points : p.path = << >>}}
               /\ Len(p.out) = Cardinality(Range(p.out))

(* Whatever is typed, recalled, completed or run, the line the shell will execute is the one the
   terminal shows after the prompt. *)
LineIsShown ==
    proc[ShellHart].pc = "exited" /\ ~ sh.tail_follow_mode => sh.shown = sh.buffer

(* tail -f has printed the file up to last_size, nothing twice and nothing left out, when the
   file is only appended to (as logs are). *)
FollowShowsAppends ==
    tail.active /\ tail.path \in DOMAIN sfs /\ Len(sfs[tail.path]) >= tail.last_size
        => tail.printed = SubSeq(sfs[tail.path], 1, tail.last_size)

(* Every file call returns, whatever the device does and whoever holds the locks, unless a
   native program on hart 0 has asked fs_is_dir, which waits for the lock it holds. *)
CallsReturn ==
    \A h \in Harts : []<>(proc[h].call = NoCall \/ 0 \in fs_readers)

=============================================================================
