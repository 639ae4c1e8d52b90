------------------------------ MODULE PosixEnv ------------------------------
(***************************************************************************)
(* What LevelDB's platform adds to the calls of the system                 *)
(* (Pods/leveldb-library/util/env_posix.cc): the lock of a database, held  *)
(* by a set within the process and by a lock of the file between           *)
(* processes; the limits on mapped and on open table files; and the queue  *)
(* of the background thread that all databases of a process share.  A step *)
(* is one call of the system, or what is done under one mutex.  The system *)
(* drops a process's lock of a file with ANY descriptor of it that is      *)
(* closed.                                                                 *)
(***************************************************************************)
EXTENDS Integers, Sequences, FiniteSets

CONSTANTS
    Thread,         \* threads that open or close a database, or a table file
    ProcessOf,      \* ProcessOf[t]: the process of thread t
    Limit,          \* Limit[r]: MaxMmaps() and MaxOpenFiles()
    EnvBounds       \* the bounds explored: calls of LockFile,
                    \*   NewRandomAccessFile and Schedule

EnvAssumption ==
    /\ IsFiniteSet(Thread) /\ DOMAIN ProcessOf = Thread
    /\ Limit \in [{"mmap", "fd"} -> Nat]
    /\ EnvBounds \subseteq [locks : Nat, files : Nat, jobs : Nat]

VARIABLES
    pc,             \* pc[t]: where t's call is, and what it holds after it
    lockedIn,       \* the processes whose locks_ has the file
    kernel,         \* the process that has the system's lock, if any
    dropped,        \* a close ever dropped a lock that another thread had
    allowed,        \* allowed_ of both Limiters
    queue, bgthread,
    calls           \* the bounds left

vars == <<pc, lockedIn, kernel, dropped, allowed, queue, bgthread, calls>>
locks == <<lockedIn, kernel, dropped>>
work == <<queue, bgthread>>

Init ==
    /\ pc = [t \in Thread |-> "idle"]
    /\ lockedIn = {} /\ kernel = {} /\ dropped = FALSE
    /\ allowed = Limit
    /\ queue = <<>> /\ bgthread = "none"
    /\ calls \in EnvBounds

Goes(t, from, to) == pc[t] = from /\ pc' = [pc EXCEPT ![t] = to]
Starts(t, kind, to) ==
    /\ calls[kind] > 0 /\ calls' = [calls EXCEPT ![kind] = @ - 1]
    /\ Goes(t, "idle", to)

-----------------------------------------------------------------------------
(***************************************************************************)
(* LockFile and UnlockFile.                                                *)
(***************************************************************************)
LockFile(t) == Starts(t, "locks", "opened") /\ UNCHANGED <<locks, allowed, work>>

(* mutant: the set is not asked. *)
InsertUnasked(t) ==
    /\ Goes(t, "opened", "inserted")
    /\ lockedIn' = lockedIn \cup {ProcessOf[t]}
    /\ UNCHANGED <<kernel, dropped, allowed, work, calls>>

Insert(t) ==
    /\ Goes(t, "opened", IF ProcessOf[t] \in lockedIn THEN "refused" ELSE "inserted")
    /\ lockedIn' = lockedIn \cup {ProcessOf[t]}
    /\ UNCHANGED <<kernel, dropped, allowed, work, calls>>

(* fcntl(F_SETLK): refused if another process has the lock. *)
LockOrUnlock(t) ==
    /\ Goes(t, "inserted", IF kernel \subseteq {ProcessOf[t]} THEN "locked" ELSE "failed")
    /\ kernel' = IF kernel = {} THEN {ProcessOf[t]} ELSE kernel
    /\ UNCHANGED <<lockedIn, dropped, allowed, work, calls>>

(* close(fd), at the end of a refused or failed LockFile or of UnlockFile. *)
Closes(t, from, to) ==
    /\ Goes(t, from, to)
    /\ kernel' = kernel \ {ProcessOf[t]}
    /\ dropped' = (dropped \/ ProcessOf[t] \in kernel)
    /\ UNCHANGED <<lockedIn, allowed, work, calls>>
Close(t) == Closes(t, "refused", "idle") \/ Closes(t, "failed", "closed") \/ Closes(t, "removed", "idle")

UnlockFile(t) ==
    /\ Goes(t, "locked", "unlocked")
    /\ kernel' = kernel \ {ProcessOf[t]}
    /\ UNCHANGED <<lockedIn, dropped, allowed, work, calls>>

Remove(t) ==
    /\ Goes(t, "unlocked", "removed") \/ Goes(t, "closed", "idle")
    /\ lockedIn' = lockedIn \ {ProcessOf[t]}
    /\ UNCHANGED <<kernel, dropped, allowed, work, calls>>

-----------------------------------------------------------------------------
(***************************************************************************)
(* NewRandomAccessFile: a file is mapped, or has a descriptor, or one for  *)
(* each read.  Acquire looks once without and once with its mutex.         *)
(***************************************************************************)
Files(t) == UNCHANGED <<locks, work>>

NewRandomAccessFile(t) == Starts(t, "files", "mmap?") /\ UNCHANGED allowed /\ Files(t)

Look(t, r, asks, sees, refused) ==
    /\ Goes(t, asks, IF allowed[r] <= 0 THEN refused ELSE sees)
    /\ UNCHANGED <<allowed, calls>> /\ Files(t)
Take(t, r, sees, taken, refused) ==
    /\ Goes(t, sees, IF allowed[r] <= 0 THEN refused ELSE taken)
    /\ allowed' = IF allowed[r] <= 0 THEN allowed ELSE [allowed EXCEPT ![r] = @ - 1]
    /\ UNCHANGED calls /\ Files(t)
Acquire(t) ==
    \/ Look(t, "mmap", "mmap?", "mmap!", "fd?") \/ Take(t, "mmap", "mmap!", "maps", "fd?")
    \/ Look(t, "fd", "fd?", "fd!", "temporary") \/ Take(t, "fd", "fd!", "open", "temporary")

Mapped(t) == Goes(t, "maps", "mapped") /\ UNCHANGED <<allowed, calls>> /\ Files(t)

(* A mapping that fails, and the destructors. *)
Release(t) ==
    /\ \/ /\ Goes(t, "maps", "idle") \/ Goes(t, "mapped", "idle")
          /\ allowed' = [allowed EXCEPT !["mmap"] = @ + 1]
       \/ Goes(t, "open", "idle") /\ allowed' = [allowed EXCEPT !["fd"] = @ + 1]
       \/ Goes(t, "temporary", "idle") /\ UNCHANGED allowed
    /\ UNCHANGED calls /\ Files(t)

-----------------------------------------------------------------------------
(***************************************************************************)
(* Schedule signals only if the queue was empty; BGThread waits, or takes  *)
(* the first item and runs it without the mutex.                           *)
(***************************************************************************)
Works == UNCHANGED <<pc, locks, allowed>>

Schedule ==
    /\ calls.jobs > 0 /\ calls' = [calls EXCEPT !.jobs = @ - 1]
    /\ bgthread' = IF bgthread = "none" \/ (queue = <<>> /\ bgthread = "waits") THEN "looks" ELSE bgthread
    /\ queue' = Append(queue, calls.jobs)
    /\ Works

BGThread ==
    /\ bgthread = "looks"
    /\ IF queue = <<>> THEN bgthread' = "waits" /\ UNCHANGED queue
       ELSE bgthread' = "runs" /\ queue' = Tail(queue)
    /\ UNCHANGED calls /\ Works

FunctionReturns == bgthread \in {"runs", "waits"} /\ bgthread' = "looks" /\ UNCHANGED <<queue, calls>> /\ Works

Next ==
    \/ \E t \in Thread :
          \/ LockFile(t) \/ Insert(t) \/ LockOrUnlock(t) \/ Close(t) \/ UnlockFile(t) \/ Remove(t)
          \/ NewRandomAccessFile(t) \/ Acquire(t) \/ Mapped(t) \/ Release(t)
    \/ Schedule \/ BGThread \/ FunctionReturns

Spec == Init /\ [][Next]_vars

-----------------------------------------------------------------------------
(* One database has the lock: always within a process, and between         *)
(* processes unless a close dropped the system's lock ("used to prevent    *)
(* concurrent access to the same db by multiple processes", env.h).        *)
LockExclusive ==
    \A t, u \in Thread : pc[t] = "locked" /\ pc[u] = "locked" /\ t # u =>
        dropped /\ ProcessOf[t] # ProcessOf[u]

(* A Limiter counts what is held, and never less than none is left. *)
WithinLimits ==
    /\ allowed["mmap"] = Limit["mmap"] - Cardinality({t \in Thread : pc[t] \in {"maps", "mapped"}})
    /\ allowed["fd"] = Limit["fd"] - Cardinality({t \in Thread : pc[t] = "open"})
    /\ allowed["mmap"] >= 0 /\ allowed["fd"] >= 0

(* The thread does not sleep while there is work: a signal that is given   *)
(* only for an empty queue is enough.                                      *)
WorkSeen == queue # <<>> => bgthread # "waits"
=============================================================================
