-------------------------------- MODULE Sfs --------------------------------
(***************************************************************************)
(* The simple file system (kernel/src/lock/state/fs.rs, mounted through    *)
(* GlobalSfs of kernel/src/fs/sfs.rs): a directory of fixed slots, files   *)
(* as chains of blocks, an allocation bitmap, and a write-back block cache *)
(* that lookups and reads bypass.  A call runs under the write locks of    *)
(* FS_STATE and BLK_DEV, so calls do not interleave; the machine can stop  *)
(* between any two steps of a call.                                        *)
(***************************************************************************)
EXTENDS Integers, Sequences

CONSTANTS
    Names,              \* paths of files
    DirNames,           \* paths ending in /, made by mkdir
    Values,             \* contents: sequences of chunks, one chunk per block
    Marker,             \* the content "DIR" of a directory's placeholder
    SEC_DIR_COUNT, ENTRIES_PER_SECTOR, CACHE_MAX_BLOCKS,
    BLOCKS,             \* bound: data sectors of the device
    MAX_CRASHES,        \* bound: times the machine stops
    Calls               \* operations the callers use

Paths == Names \cup DirNames
DirSectors == 1 .. SEC_DIR_COUNT
Data == SEC_DIR_COUNT + 1 .. SEC_DIR_COUNT + BLOCKS     \* data sectors come after the directory
Sectors == DirSectors \cup Data
Index == 1 .. ENTRIES_PER_SECTOR

ASSUME SfsAssumption ==
    /\ SEC_DIR_COUNT \in Nat \ {0} /\ ENTRIES_PER_SECTOR \in Nat \ {0}
    /\ CACHE_MAX_BLOCKS \in Nat \ {0} /\ BLOCKS \in Nat
    /\ Names \cap DirNames = {} /\ "" \notin Names \cup DirNames
    /\ Marker \in Values /\ \A v \in Values : v \in Seq(Nat)

NoEntry == [name |-> "", size |-> 0, head |-> 0]
ZeroBlock == [next |-> 0, chunk |-> 0]

VARIABLES
    disk,           \* directory and data sectors
    disk_map,       \* the bitmap on the device: allocated data sectors
    bitmap_cache, bitmap_dirty,
    cache, dirty,   \* the blocks of the cache by sector, and which of them are dirty
    lru,            \* its sectors, least recently used first
    pc, op,         \* step and name of the call in progress
    path, slot,     \* its path, and <<sector, index>> of the directory entry
    data, made,     \* write_file: the content, and the blocks written so far
    scan,           \* list_dir: the sector it comes to, empty ones just before, names seen
    files,          \* history: content of each path by the calls that returned Ok
    chain,          \* history: the blocks of that content
    unsynced,       \* history: paths changed since the last complete sync
    torn,           \* history: paths that were unsynced when the machine stopped
    clobbered,      \* history: paths that were given the slot of another path's entry,
                    \* or whose entry was overwritten so
    crashes         \* history: number of stops

bitmap == <<disk_map, bitmap_cache, bitmap_dirty>>
blocks == <<disk, cache, dirty, lru>>
call == <<pc, op, path, slot, data, made, scan>>
history == <<files, chain, unsynced, torn, clobbered, crashes>>
vars == <<bitmap, blocks, call, history>>

Absent == <<-1>>                \* the content of a path that has no file
ScanStart == [sector |-> 1, empties |-> 0, names |-> {}]

Idle ==
    /\ pc' = "idle" /\ op' = "none" /\ path' = "" /\ slot' = <<1, 1>>
    /\ data' = <<>> /\ made' = <<>> /\ scan' = ScanStart

(* mkfs: an empty directory; FileSystemState::init loads the bitmap. *)
Init ==
    /\ disk = [s \in Sectors |->
                 IF s \in DirSectors THEN [i \in Index |-> NoEntry] ELSE ZeroBlock]
    /\ disk_map = {} /\ bitmap_cache = {} /\ bitmap_dirty = FALSE
    /\ cache = <<>> /\ dirty = {} /\ lru = <<>>
    /\ pc = "idle" /\ op = "none" /\ path = "" /\ slot = <<1, 1>>
    /\ data = <<>> /\ made = <<>> /\ scan = ScanStart
    /\ files = [p \in Paths |-> Absent] /\ chain = [p \in Paths |-> <<>>]
    /\ unsynced = {} /\ torn = {} /\ clobbered = {} /\ crashes = 0

----------------------------------------------------------------------------
(* BufferCache, on a record of the cache and the device. *)

Memory == [cache |-> cache, dirty |-> dirty, lru |-> lru, disk |-> disk]
Becomes(m) == cache' = m.cache /\ dirty' = m.dirty /\ lru' = m.lru /\ disk' = m.disk

Without(c, s) == [t \in DOMAIN c \ {s} |-> c[t]]

(* Fault: a dirty block is dropped without being written back. *)
EvictDropsDirty(m) ==
    LET s == Head(m.lru)
    IN  [cache |-> Without(m.cache, s), dirty |-> m.dirty \ {s}, lru |-> Tail(m.lru),
         disk |-> m.disk]

(* evict_lru *)
Evict(m) ==
    LET s == Head(m.lru)
    IN  [cache |-> Without(m.cache, s), dirty |-> m.dirty \ {s}, lru |-> Tail(m.lru),
         disk |-> IF s \in m.dirty THEN [m.disk EXCEPT ![s] = m.cache[s]] ELSE m.disk]

MakeRoom(m, s) ==
    IF s \notin DOMAIN m.cache /\ Len(m.lru) >= CACHE_MAX_BLOCKS THEN Evict(m) ELSE m

(* touch: the sector becomes the most recently used one. *)
Touch(q, s) ==
    IF \E i \in DOMAIN q : q[i] = s
    THEN LET k == CHOOSE i \in DOMAIN q : q[i] = s
         IN  [i \in DOMAIN q |-> IF i < k THEN q[i] ELSE IF i < Len(q) THEN q[i + 1] ELSE s]
    ELSE Append(q, s)

Put(m, s, block) ==
    [cache |-> [t \in DOMAIN m.cache \cup {s} |-> IF t = s THEN block ELSE m.cache[t]],
     dirty |-> m.dirty, lru |-> Touch(m.lru, s), disk |-> m.disk]

(* The block as read_mut finds it. *)
View(m, s) == IF s \in DOMAIN m.cache THEN m.cache[s] ELSE m.disk[s]

(* read_mut; and read_mut, a change of the buffer, mark_dirty, or write. *)
Load(m, s) == Put(MakeRoom(m, s), s, View(m, s))
mark_dirty(m, s) == [m EXCEPT !.dirty = m.dirty \cup {s}]
Modify(m, s, block) == mark_dirty(Put(MakeRoom(m, s), s, block), s)

----------------------------------------------------------------------------
(* Lookups read the device, not the cache. *)
Slots == DirSectors \X Index
Before(a, b) == a[1] < b[1] \/ (a[1] = b[1] /\ a[2] <= b[2])
IsFirst(a, S) == a \in S /\ \A b \in S : Before(a, b)
Entry(a) == disk[a[1]][a[2]]

EntryPos(p) == {a \in Slots : Entry(a).name = p}        \* find_entry_pos
FreeDirEntry == {a \in Slots : Entry(a).name = ""}      \* find_free_dir_entry

----------------------------------------------------------------------------
(* write_file, called with a sync after it (GlobalSfs) or without (klogd, mkdir). *)

(* Fault: the file is not looked up, and takes a free slot again. *)
EntriesForAnew(p) == FreeDirEntry

(* The file's slot, or a slot that is free on the device. *)
EntriesFor(p) == IF EntryPos(p) # {} THEN EntryPos(p) ELSE FreeDirEntry

WriteStart(p, v, o) ==
    /\ pc = "idle"
    /\ o \in Calls
    /\ o = "mkdir" => EntryPos(p) = {}                  \* else "Directory already exists"
    /\ \E a \in Slots :                                 \* else "Root dir full"
        /\ IsFirst(a, EntriesFor(p))
        /\ slot' = a
    /\ pc' = "write" /\ op' = o /\ path' = p
    /\ data' = v /\ made' = <<>> /\ UNCHANGED scan
    /\ UNCHANGED <<bitmap, blocks, history>>

(* alloc_block *)
Alloc(b) ==
    /\ bitmap_cache' = bitmap_cache \cup {b}
    /\ bitmap_dirty' = TRUE

remaining == Len(data) - Len(made)
head == IF made = <<>> THEN 0 ELSE made[1]
prev == IF made = <<>> THEN 0 ELSE made[Len(made)]

link_block_cached(m, b) ==
    IF prev = 0 THEN m ELSE Modify(m, prev, [View(m, prev) EXCEPT !.next = b])

WriteBlock ==
    /\ pc = "write" /\ remaining > 0
    /\ \E b \in Data \ bitmap_cache :
        /\ \A c \in Data \ bitmap_cache : b <= c
        /\ Alloc(b)
        /\ Becomes(Modify(link_block_cached(Memory, b), b,
                          [next |-> 0, chunk |-> data[Len(made) + 1]]))
        /\ made' = Append(made, b)
    /\ UNCHANGED <<disk_map, pc, op, path, slot, data, scan, history>>

(* "Disk full": the call fails, the blocks it allocated stay allocated. *)
DiskFull ==
    /\ pc = "write" /\ remaining > 0
    /\ Data \subseteq bitmap_cache
    /\ Idle
    /\ UNCHANGED <<bitmap, blocks, history>>

(* The entry goes into the cached directory sector.  If that sector holds, in the
   same slot, the entry of a path that was not on the device at the lookup, that
   entry is lost; and if it reached the device since, the next write of this path
   takes a second slot. *)
WriteEntry ==
    /\ pc = "write" /\ remaining = 0
    /\ LET dir == View(Memory, slot[1])
           old == dir[slot[2]].name
       IN  /\ Becomes(Modify(Memory, slot[1],
                   [dir EXCEPT ![slot[2]] = [name |-> path, size |-> Len(data), head |-> head]]))
           /\ clobbered' = clobbered \cup (IF old \in {"", path} THEN {} ELSE {old, path})
    /\ files' = [files EXCEPT ![path] = data]
    /\ chain' = [chain EXCEPT ![path] = made]
    /\ unsynced' = unsynced \cup {path}
    /\ torn' = torn \ {path}
    /\ IF op = "write_sync"
       THEN pc' = "sync_map" /\ UNCHANGED <<op, path, slot, data, made, scan>>
       ELSE Idle
    /\ UNCHANGED <<bitmap, crashes>>

----------------------------------------------------------------------------
(* sync: the bitmap, then the dirty blocks in the order of their sectors. *)
SyncStart ==
    /\ pc = "idle"
    /\ "sync" \in Calls
    /\ pc' = "sync_map" /\ op' = "sync"
    /\ UNCHANGED <<bitmap, blocks, path, slot, data, made, scan, history>>

SyncMap ==
    /\ pc = "sync_map"
    /\ disk_map' = (IF bitmap_dirty THEN bitmap_cache ELSE disk_map)
    /\ bitmap_dirty' = FALSE
    /\ pc' = "sync_cache"
    /\ UNCHANGED <<bitmap_cache, blocks, op, path, slot, data, made, scan, history>>

SyncSector ==
    /\ pc \in {"sync_cache", "remove_sync"}
    /\ \E s \in dirty :
        /\ \A t \in dirty : s <= t
        /\ disk' = [disk EXCEPT ![s] = cache[s]]
        /\ dirty' = dirty \ {s}
    /\ UNCHANGED <<bitmap, cache, lru, call, history>>

SyncDone ==
    /\ pc = "sync_cache"
    /\ dirty = {}
    /\ unsynced' = {}
    /\ Idle
    /\ UNCHANGED <<bitmap, blocks, files, chain, torn, clobbered, crashes>>

----------------------------------------------------------------------------
(* list_dir, called by exists and is_dir too, goes through the cache sector by sector
   and stops at the second empty one in a row. *)
ListDir ==
    /\ pc = "idle"
    /\ "list" \in Calls
    /\ pc' = "list" /\ op' = "list"
    /\ UNCHANGED <<bitmap, blocks, path, slot, data, made, scan, history>>

(* remove refuses a directory when anything is listed, itself included. *)
ListSector ==
    /\ pc = "list"
    /\ Becomes(Load(Memory, scan.sector))
    /\ LET here == {View(Memory, scan.sector)[i].name : i \in Index} \ {""}
           empties == IF here = {} THEN scan.empties + 1 ELSE 0
           names == scan.names \cup here
       IN  IF scan.sector < SEC_DIR_COUNT /\ empties < 2
           THEN /\ scan' = [sector |-> scan.sector + 1, empties |-> empties, names |-> names]
                /\ UNCHANGED <<pc, op, path, slot, data, made>>
           ELSE IF op = "remove" /\ names = {}
           THEN /\ pc' = "remove" /\ scan' = ScanStart
                /\ UNCHANGED <<op, path, slot, data, made>>
           ELSE Idle
    /\ UNCHANGED <<bitmap, history>>

(* remove: the entry is zeroed in the cache, then the cache is synced, without the
   bitmap. *)
RemoveStart(p) ==
    /\ pc = "idle"
    /\ "remove" \in Calls
    /\ \E a \in Slots : IsFirst(a, EntryPos(p)) /\ slot' = a    \* else "File not found"
    /\ pc' = (IF p \in DirNames THEN "list" ELSE "remove")
    /\ op' = "remove" /\ path' = p
    /\ UNCHANGED <<bitmap, blocks, data, made, scan, history>>

RemoveEntry ==
    /\ pc = "remove"
    /\ Becomes(Modify(Memory, slot[1], [View(Memory, slot[1]) EXCEPT ![slot[2]] = NoEntry]))
    /\ files' = [files EXCEPT ![path] = Absent]
    /\ chain' = [chain EXCEPT ![path] = <<>>]
    /\ unsynced' = unsynced \cup {path}
    /\ torn' = torn \ {path}
    /\ pc' = "remove_sync"
    /\ UNCHANGED <<bitmap, op, path, slot, data, made, scan, clobbered, crashes>>

RemoveDone ==
    /\ pc = "remove_sync"
    /\ dirty = {}
    /\ unsynced' = unsynced \ {path}
    /\ Idle
    /\ UNCHANGED <<bitmap, blocks, files, chain, torn, clobbered, crashes>>

(* The machine stops and starts again: FileSystemState::init. *)
Crash ==
    /\ crashes < MAX_CRASHES
    /\ crashes' = crashes + 1
    /\ cache' = <<>> /\ dirty' = {} /\ lru' = <<>>
    /\ bitmap_cache' = disk_map /\ bitmap_dirty' = FALSE
    /\ torn' = torn \cup unsynced
    /\ unsynced' = {}
    /\ Idle
    /\ UNCHANGED <<disk, disk_map, files, chain, clobbered>>

Write ==
    \/ \E p \in Names, v \in Values, o \in {"write_sync", "write"} : WriteStart(p, v, o)
    \/ \E p \in DirNames : WriteStart(p, Marker, "mkdir")
    \/ WriteBlock \/ DiskFull \/ WriteEntry

Remove == (\E p \in Paths : RemoveStart(p)) \/ RemoveEntry \/ RemoveDone

Next ==
    \/ Write
    \/ SyncStart \/ SyncMap \/ SyncSector \/ SyncDone
    \/ ListDir \/ ListSector
    \/ Remove
    \/ Crash

Spec == Init /\ [][Next]_vars

----------------------------------------------------------------------------
(* read_file: the blocks of an entry's chain on the device, up to its size or the
   first missing one. *)
Follows(e, b) ==
    \A i \in 1 .. e.size :
        b[i] = IF i = 1 THEN e.head ELSE IF b[i - 1] = 0 THEN 0 ELSE disk[b[i - 1]].next
Chain(e) ==
    LET b == CHOOSE c \in [1 .. e.size -> Data \cup {0}] : Follows(e, c)
    IN  [i \in {j \in 1 .. e.size : b[j] # 0} |-> b[i]]

Found(p) == Entry(CHOOSE a \in EntryPos(p) : IsFirst(a, EntryPos(p)))       \* find_entry

ReadFile(p) ==
    IF EntryPos(p) = {} THEN Absent
    ELSE LET c == Chain(Found(p)) IN [i \in DOMAIN c |-> disk[c[i]].chunk]

(* Paths whose last change was synced, that were not unsynced when the machine
   stopped, and that had no directory slot in common with another path. *)
Settled == {p \in Paths : p \notin unsynced \cup torn \cup clobbered}

(* "Call fs.sync() when you need durability" (fs.rs:555): a settled file reads back as
   written, after evictions, calls on other files and stops of the machine in the
   middle of a write or a sync, and its blocks are marked on the device, so that no
   restart takes one for free. *)
Blocks(p) ==
    IF EntryPos(p) = {} THEN {} ELSE LET c == Chain(Found(p)) IN {c[i] : i \in DOMAIN c}
SettledIsDurable ==
    \A p \in Settled : ReadFile(p) = files[p] /\ Blocks(p) \subseteq disk_map

(* Two settled files never share a block, and the first match of a lookup is the
   only one: no second entry of a path, left behind or written later, can be the
   one a call finds. *)
NothingShared ==
    /\ \A p, q \in Settled : p # q => Blocks(p) \cap Blocks(q) = {}
    /\ \A p \in Paths \ clobbered : \A a, b \in EntryPos(p) : a = b

(* The same of every path that was synced and not torn, whatever other paths were
   written since the sync before: write_file's comment asks for no more than sync(). *)
SyncedIsDurable ==
    \A p \in Paths \ (unsynced \cup torn) : ReadFile(p) = files[p]
=============================================================================
