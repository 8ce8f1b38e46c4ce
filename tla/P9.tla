--------------------------------- MODULE P9 ---------------------------------
(***************************************************************************)
(* The 9P file system (kernel/src/fs/p9.rs) over the virtio transport      *)
(* (device/virtio_p9.rs).  An operation is a chain of transactions; each   *)
(* one copies its message to the request buffer, makes descriptor 0        *)
(* available and polls the used index a bounded number of times.  There is *)
(* one request and one response buffer, and tags are never compared (and   *)
(* not modelled), so an answer that arrives after its transaction gave up  *)
(* is taken by the next one.                                               *)
(* The device and the host directory behind it are external.  A path is a  *)
(* sequence of names and contents are sequences of chunks, a chunk being   *)
(* what one read message carries.                                          *)
(***************************************************************************)
EXTENDS Integers, Sequences, SequencesExt, FiniteSets, TLC

CONSTANTS
    HostFiles,      \* regular files of the shared directory: path -> contents
    HostDirs,       \* its directories, <<>> among them
    WRITE_CHUNKS,   \* chunks that fit a message of msize bytes
    MAX_LATE        \* bound: answers of the device once a transaction has timed out

VARIABLES
    files,              \* regular files of the shared directory
    fids,               \* fids the host holds: fid -> [path, open]
    req, avail,         \* request_buf, and avail entries the device has not taken
    busy, resp,         \* device: message in hand; response_buf
    moved,              \* the used index is not last_used_idx
    next_fid,
    job,                \* operation in progress and its locals, or NoJob
    waiting,            \* the driver polls for an answer
    late                \* 0 until a transaction times out; then 1 and one more per answer

host == <<files, fids, avail, busy, resp>>
driver == <<req, next_fid, job, waiting>>
p9rest == <<host, req, moved, next_fid, waiting, late>>
p9vars == <<p9rest, job>>

NoJob == [op |-> "none"]
NoMsg == [kind |-> "none"]
Failed == [ok |-> FALSE, data |-> <<>>]
Done(d) == [ok |-> TRUE, data |-> d]

(* Init: queue and buffers as create_driver makes them, and the first transaction of init. *)
create_driver ==
    /\ files = HostFiles /\ fids = << >>
    /\ req = NoMsg /\ avail = 0
    /\ busy = NoMsg /\ resp = NoMsg /\ moved = FALSE
    /\ next_fid = 1
    /\ job = NoJob /\ waiting = FALSE /\ late = 0

-----------------------------------------------------------------------------
(* The messages. *)

Msg(kind, fid, path, data, off) ==
    [kind |-> kind, fid |-> fid, path |-> path, data |-> data, off |-> off]

walk(path) == Msg("walk", next_fid, path, << >>, 0)
open(fid, w) == Msg("open", fid, << >>, << >>, w)
lcreate(fid, name) == Msg("lcreate", fid, <<name>>, << >>, 0)
read(fid, off) == Msg("read", fid, << >>, << >>, off)
readdir(fid, off) == Msg("readdir", fid, << >>, << >>, off)
clunk(fid) == Msg("clunk", fid, << >>, << >>, 0)

(* One message carries what fits; transact cuts the rest. *)
write(fid, data) ==
    Msg("write", fid, << >>, SubSeq(data, 1, IF Len(data) < WRITE_CHUNKS THEN Len(data)
                                             ELSE WRITE_CHUNKS), 0)

(* The directory a path is in, and its name there. *)
Parent(path) == IF path = << >> THEN << >> ELSE Front(path)
FileName(path) == IF path = << >> THEN "" ELSE Last(path)

(* The message of the step the operation is at. *)
Message(j) ==
    CASE j.st = "version" -> Msg("version", 0, << >>, << >>, 0)
      [] j.st = "attach"  -> Msg("attach", 0, << >>, << >>, 0)
      [] j.st = "walk"    -> walk(j.path)
      [] j.st = "parent"  -> walk(Parent(j.path))
      [] j.st = "open"    -> open(j.fid, IF j.op = "write" THEN 1 ELSE 0)
      [] j.st = "lcreate" -> lcreate(j.fid, FileName(j.path))
      [] j.st = "read"    -> read(j.fid, Len(j.acc))
      [] j.st = "readdir" -> readdir(j.fid, Len(j.acc))
      [] j.st = "write"   -> write(j.fid, j.data)
      [] j.st = "clunk"   -> clunk(j.fid)

-----------------------------------------------------------------------------
(* The operations: what follows each answer r, [ok, data]. *)

Goto(j, st) == [j EXCEPT !.st = st]
Return(j, r) == [j EXCEPT !.st = "done", !.ret = r]
CloseThen(j, r) == [j EXCEPT !.st = "clunk", !.ret = r]

Start(op, path, data) ==
    [op |-> op, path |-> path, data |-> data, st |-> "walk", fid |-> 0, acc |-> << >>,
     ret |-> Failed]

(* Version, then attach; any failure and there is no file system. *)
init(j, r) ==
    CASE ~ r.ok -> Return(j, Failed)
      [] r.ok /\ j.st = "version" -> Goto(j, "attach")
      [] r.ok /\ j.st = "attach" -> Return(j, Done(<< >>))

(* Fault: one chunk is taken for the file. *)
read_file_once(j, r) ==
    CASE j.st = "walk" -> IF r.ok THEN Goto(j, "open") ELSE Return(j, Failed)
      [] j.st = "open" -> IF r.ok THEN Goto(j, "read") ELSE CloseThen(j, Failed)
      [] j.st = "read" -> CloseThen(j, Done(r.data))
      [] j.st = "clunk" -> Return(j, j.ret)

(* Read chunks until one is empty or fails. *)
read_file(j, r) ==
    CASE j.st = "walk" -> IF r.ok THEN Goto(j, "open") ELSE Return(j, Failed)
      [] j.st = "open" -> IF r.ok THEN Goto(j, "read") ELSE CloseThen(j, Failed)
      [] j.st = "read" -> IF r.ok /\ r.data # << >> THEN [j EXCEPT !.acc = @ \o r.data]
                                                    ELSE CloseThen(j, Done(j.acc))
      [] j.st = "clunk" -> Return(j, j.ret)

(* Read batches of entries until one is empty or fails; every failure is an empty list. *)
list_dir(j, r) ==
    CASE j.st = "walk" -> IF r.ok THEN Goto(j, "open") ELSE Return(j, Done(<< >>))
      [] j.st = "open" -> IF r.ok THEN Goto(j, "readdir") ELSE CloseThen(j, Done(<< >>))
      [] j.st = "readdir" -> IF r.ok /\ r.data # << >> THEN [j EXCEPT !.acc = @ \o r.data]
                                                       ELSE CloseThen(j, Done(j.acc))
      [] j.st = "clunk" -> Return(j, j.ret)

(* Open the file or create it in its parent, write once, close. *)
write_file(j, r) ==
    CASE j.st = "walk" -> IF r.ok THEN Goto(j, "open")
                          ELSE Goto(j, "parent")
      [] j.st = "open" -> IF r.ok THEN Goto(j, "write") ELSE CloseThen(j, Failed)
      [] j.st = "parent" -> IF r.ok THEN Goto(j, "lcreate") ELSE Return(j, Failed)
      [] j.st = "lcreate" -> IF r.ok THEN Goto(j, "write") ELSE CloseThen(j, Failed)
      [] j.st = "write" -> CloseThen(j, [ok |-> r.ok, data |-> << >>])
      [] j.st = "clunk" -> Return(j, j.ret)

(* Fault: the fid is not given back. *)
exists_leaks(j, r) ==
    IF r.ok THEN Return(j, Done(<< >>)) ELSE Return(j, Failed)

(* A path exists when it can be walked to. *)
exists(j, r) ==
    CASE j.st = "walk" -> IF r.ok THEN CloseThen(j, Done(<< >>)) ELSE Return(j, Failed)
      [] j.st = "clunk" -> Return(j, j.ret)

After(j, r) ==
    CASE j.op = "init" -> init(j, r)
      [] j.op = "read" -> read_file(j, r)
      [] j.op = "list" -> list_dir(j, r)
      [] j.op = "write" -> write_file(j, r)
      [] j.op = "exists" -> exists(j, r)

-----------------------------------------------------------------------------
(* The device and the host. *)

Answer(m, ok, data) == [kind |-> m.kind, ok |-> ok, data |-> data]
Holds(m, open_) == m.fid \in DOMAIN fids /\ fids[m.fid].open = open_

(* Entries of a directory: names of the files and directories right under it. *)
Children(d) ==
    LET under == {p \in DOMAIN files \cup HostDirs : p # << >> /\ Parent(p) = d}
    IN  SetToSeq({Last(p) : p \in under})

(* Whether the host can do what message m asks. *)
Possible(m) ==
    CASE m.kind = "version" -> TRUE
      [] m.kind = "attach" -> m.fid \notin DOMAIN fids
      [] m.kind = "walk" -> m.fid \notin DOMAIN fids /\ m.path \in DOMAIN files \cup HostDirs
      [] m.kind = "open" -> /\ Holds(m, FALSE)
                            /\ m.off = 1 => fids[m.fid].path \notin HostDirs
      [] m.kind = "lcreate" -> /\ Holds(m, FALSE)
                               /\ fids[m.fid].path \in HostDirs
                               /\ fids[m.fid].path \o m.path \notin HostDirs
      [] m.kind \in {"read", "write"} -> Holds(m, TRUE) /\ fids[m.fid].path \notin HostDirs
      [] m.kind = "readdir" -> Holds(m, TRUE) /\ fids[m.fid].path \in HostDirs
      [] m.kind = "clunk" -> m.fid \in DOMAIN fids

(* What the host has after doing it. *)
FidsAfter(m) ==
    CASE m.kind \in {"attach", "walk"} -> (m.fid :> [path |-> m.path, open |-> FALSE]) @@ fids
      [] m.kind = "open" -> [fids EXCEPT ![m.fid].open = TRUE]
      [] m.kind = "lcreate" -> [fids EXCEPT ![m.fid] = [path |-> @.path \o m.path, open |-> TRUE]]
      [] m.kind = "clunk" -> [f \in DOMAIN fids \ {m.fid} |-> fids[f]]
      [] OTHER -> fids

FilesAfter(m) ==
    CASE m.kind = "lcreate" -> ((fids[m.fid].path \o m.path) :> << >>) @@ files
      [] m.kind = "write" ->
            LET old == files[fids[m.fid].path]
                tail == SubSeq(old, Len(m.data) + 1, Len(old))
            IN  [files EXCEPT ![fids[m.fid].path] = m.data \o tail]
      [] OTHER -> files

DataFor(m) ==
    CASE m.kind = "read" -> LET c == files[fids[m.fid].path]
                            IN  IF m.off < Len(c) THEN <<c[m.off + 1]>> ELSE << >>
      [] m.kind = "readdir" -> LET c == Children(fids[m.fid].path)
                               IN  SubSeq(c, m.off + 1, Len(c))
      [] OTHER -> << >>

(* The device takes the message descriptor 0 describes now. *)
device_take ==
    /\ avail > 0 /\ busy = NoMsg
    /\ avail' = avail - 1
    /\ busy' = req
    /\ UNCHANGED <<files, fids, resp, moved, late, driver>>

(* It does it and puts the answer in the response buffer. *)
device_answer ==
    /\ busy # NoMsg /\ late <= MAX_LATE
    /\ late' = IF late = 0 THEN 0 ELSE late + 1
    /\ IF Possible(busy)
       THEN /\ resp' = Answer(busy, TRUE, DataFor(busy))
            /\ fids' = FidsAfter(busy)
            /\ files' = FilesAfter(busy)
       ELSE /\ resp' = Answer(busy, FALSE, << >>)
            /\ UNCHANGED <<fids, files>>
    /\ moved' = TRUE
    /\ busy' = NoMsg
    /\ UNCHANGED <<avail, driver>>

-----------------------------------------------------------------------------
(* transact *)

(* The message goes to the request buffer and descriptor 0 becomes available. *)
transact_send ==
    /\ job # NoJob /\ job.st # "done" /\ ~ waiting
    /\ req' = Message(job)
    /\ avail' = avail + 1
    /\ next_fid' = IF req'.kind = "walk" THEN next_fid + 1 ELSE next_fid
    /\ waiting' = TRUE
    /\ UNCHANGED <<files, fids, busy, resp, moved, job, late>>

(* What the caller reads in the response buffer: an error, its answer, or the bytes of
   an answer of another kind, in which it may find anything. *)
Taken ==
    IF resp.ok /\ resp.kind # req.kind
    THEN {Failed, Done(<< >>), Done(<<"junk">>)}
    ELSE {[ok |-> resp.ok, data |-> resp.data]}

Continue(r) ==
    LET j == IF req.kind = "walk" /\ r.ok THEN [job EXCEPT !.fid = req.fid] ELSE job
    IN  job' = After(j, r)

(* The used index has moved: the response buffer is taken, whatever its tag. *)
transact_poll ==
    /\ waiting /\ moved
    /\ moved' = FALSE
    /\ \E r \in Taken : Continue(r)
    /\ waiting' = FALSE
    /\ UNCHANGED <<host, req, next_fid, late>>

(* It has not moved for 100000 polls. *)
transact_timeout ==
    /\ waiting /\ ~ moved
    /\ Continue(Failed)
    /\ waiting' = FALSE
    /\ late' = IF late = 0 THEN 1 ELSE late
    /\ UNCHANGED <<host, req, moved, next_fid>>

P9Step == device_take \/ device_answer \/ transact_send \/ transact_poll \/ transact_timeout

(* An operation begins; it ends when its caller takes the result. *)
Begin(j) == job' = j
End == job' = NoJob

-----------------------------------------------------------------------------
(* The host holds only the root fid between operations, as long as every answer came in
   time: each way out of read_file, write_file, list_dir and exists clunks what walk gave. *)
FidsReleased ==
    late = 0 /\ job = NoJob => DOMAIN fids \subseteq {0}

=============================================================================
