------------------------------ MODULE Spinlock ------------------------------
(***************************************************************************)
(* Spinlock of kernel/src/lock/mod.rs with the debug build's holder field. *)
(* The lock word is only ever exchanged (AMOSWAP); the holder is a second, *)
(* relaxed word, written after the acquisition and cleared before the      *)
(* release, which the spinning loop consults to report a self-deadlock.    *)
(***************************************************************************)
EXTENDS Naturals

CONSTANTS
    SpinHarts,
    NoHart          \* usize::MAX in the code

ASSUME SpinlockAssumption == NoHart \notin SpinHarts

VARIABLES
    locked,         \* the exchanged word is LOCKED
    holder,         \* debug: hart that says it holds the lock
    at

spin_vars == <<locked, holder, at>>

SpinLabels == {"idle", "spin", "acquired", "held", "respin", "dropping", "panicked"}

(* Shapes of the lock word, the holder word and the harts' places. *)
SpinTypeOK ==
    /\ locked \in BOOLEAN
    /\ holder \in SpinHarts \union {NoHart}
    /\ at \in [SpinHarts -> SpinLabels]

SpinInit ==
    /\ locked = FALSE
    /\ holder = NoHart
    /\ at = [h \in SpinHarts |-> "idle"]

SpinGoto(h, label) == at' = [at EXCEPT ![h] = label]

LockCall(h) ==
    /\ at[h] = "idle"
    /\ SpinGoto(h, "spin")
    /\ UNCHANGED <<locked, holder>>

(* Fault: the old value the exchange returns is ignored. *)
SwapIgnoringOld(h) ==
    /\ at[h] = "spin"
    /\ locked' = TRUE
    /\ SpinGoto(h, "acquired")
    /\ UNCHANGED holder

(* swap(LOCKED) returned UNLOCKED.  A losing swap rewrites LOCKED: no change. *)
SwapWins(h) ==
    /\ at[h] = "spin"
    /\ ~locked
    /\ locked' = TRUE
    /\ SpinGoto(h, "acquired")
    /\ UNCHANGED holder

(* try_lock() won; one that loses returns None and changes nothing. *)
TryLock(h) ==
    /\ at[h] = "idle"
    /\ ~locked
    /\ locked' = TRUE
    /\ SpinGoto(h, "acquired")
    /\ UNCHANGED holder

StoreHolder(h) ==
    /\ at[h] = "acquired"
    /\ holder' = h
    /\ SpinGoto(h, "held")
    /\ UNCHANGED locked

(* Code that holds the lock calls lock() on it again. *)
Relock(h) ==
    /\ at[h] = "held"
    /\ SpinGoto(h, "respin")
    /\ UNCHANGED <<locked, holder>>

(* A million spins with the holder word naming the spinning hart. *)
DetectDeadlock(h) ==
    /\ at[h] \in {"spin", "respin"}
    /\ holder = h
    /\ SpinGoto(h, "panicked")
    /\ UNCHANGED <<locked, holder>>

(* Fault: the guard's drop leaves the holder word behind. *)
DropKeepsHolder(h) ==
    /\ at[h] = "held"
    /\ SpinGoto(h, "dropping")
    /\ UNCHANGED <<locked, holder>>

DropClearHolder(h) ==
    /\ at[h] = "held"
    /\ holder' = NoHart
    /\ SpinGoto(h, "dropping")
    /\ UNCHANGED locked

DropRelease(h) ==
    /\ at[h] = "dropping"
    /\ locked' = FALSE
    /\ SpinGoto(h, "idle")
    /\ UNCHANGED holder

SpinStep(h) ==
    \/ LockCall(h) \/ SwapWins(h) \/ TryLock(h) \/ StoreHolder(h)
    \/ Relock(h) \/ DetectDeadlock(h) \/ DropClearHolder(h) \/ DropRelease(h)

SpinNext == \E h \in SpinHarts : SpinStep(h)

SpinSpec == SpinInit /\ [][SpinNext]_spin_vars

----------------------------------------------------------------------------
Inside == {h \in SpinHarts : at[h] \in {"acquired", "held", "respin", "dropping", "panicked"}}

(* At most one hart is between a winning swap and its release, so the guard's
   deref is exclusive (lock/mod.rs:254,262); a hart that re-enters or panics
   never lets a second one in. *)
SpinExclusion ==
    /\ \A g, h \in Inside : g = h
    /\ Inside # {} => locked

(* "Deadlock detected: hart {} trying to re-acquire lock it already holds"
   (lock/mod.rs:165) is never a false alarm: the panic hits only a hart that
   does hold the lock, although holder and locked are written separately. *)
PanicOnlyWhenReentrant ==
    [][\A h \in SpinHarts : at[h] # "panicked" /\ at'[h] = "panicked" => at[h] = "respin"]_spin_vars

(* The strengthening: what the holder word says while it is in transit. *)
SpinIInv ==
    /\ SpinTypeOK
    /\ SpinExclusion
    /\ holder # NoHart => at[holder] \in {"held", "respin", "panicked"}
=============================================================================
