------------------------------ MODULE CaskDir ------------------------------
(***************************************************************************)
(* The life of zig-caskdb processes that share one database directory      *)
(* (src/zig-caskdb/src/dir.zig, db.zig open and close, main.zig): the      *)
(* flock on 1.lock, the steps of DB.open and where each may fail, what its *)
(* errdefer undoes and what DB.close then undoes again, and the exit that  *)
(* gives the kernel every descriptor back.                                 *)
(***************************************************************************)
EXTENDS Integers, FiniteSets

CONSTANTS
  Procs,    \* processes
  NoProc,   \* nobody holds the lock
  MaxOpens  \* bound: databases one process opens in its life, one after the other

ASSUME ProcAssumption == NoProc \notin Procs /\ MaxOpens \in Nat \ {0}

VARIABLES
  pc,      \* per process: the next step of main
  dir,     \* per process: the handle in DB.workingDir
  active,  \* per process: the handle in DB.activeFile
  opens,   \* per process: databases opened so far
  holder,  \* the process with the descriptor that holds the flock, or NoProc
  segment  \* 0.segment exists

dirVars == <<pc, dir, active, opens, holder, segment>>

(* null, a valid handle, or one that has been closed but not forgotten. *)
Handles == {"none", "open", "closed"}

(* Between taking the lock and the end of DB.open, and with the database open. *)
Opening == {"list", "create", "reopen", "open", "scan"}
Using == Opening \cup {"serving"}

Steps == {"out", "fresh", "dir", "flock", "failed", "closed", "panicked"} \cup Using

Init ==
  /\ pc = [p \in Procs |-> "out"]
  /\ dir = [p \in Procs |-> "none"]
  /\ active = [p \in Procs |-> "none"]
  /\ opens = [p \in Procs |-> 0]
  /\ holder = NoProc
  /\ segment \in BOOLEAN

Goto(p, step) == pc' = [pc EXCEPT ![p] = step]
-----------------------------------------------------------------------------

(* main starts, or goes on after a close, and calls DB.init. *)
DBInit(p) ==
  /\ pc[p] \in {"out", "closed"}
  /\ opens[p] < MaxOpens
  /\ opens' = [opens EXCEPT ![p] = opens[p] + 1]
  /\ Goto(p, "fresh")
  /\ UNCHANGED <<dir, active, holder, segment>>

(* Dir.init *)
DirInit(p) ==
  /\ pc[p] = "fresh"
  /\ \/ Goto(p, "dir") /\ dir' = [dir EXCEPT ![p] = "open"]
     \/ Goto(p, "failed") /\ UNCHANGED dir
  /\ UNCHANGED <<active, opens, holder, segment>>

(* Dir.lock: openat of 1.lock; its failure comes before the errdefer of open. *)
LockOpen(p) ==
  /\ pc[p] = "dir"
  /\ Goto(p, "flock") \/ Goto(p, "failed")
  /\ UNCHANGED <<dir, active, opens, holder, segment>>

(* Mutant: flock(LOCK.SH), which others that share the lock do not keep out. *)
FlockShared(p) ==
  /\ pc[p] = "flock"
  /\ holder' = p
  /\ Goto(p, "list")
  /\ UNCHANGED <<dir, active, opens, segment>>

(***************************************************************************)
(* Dir.lock: flock(LOCK.EX) waits until no other descriptor holds the lock *)
(* (without LOCK.NB there is no WouldBlock), and Dir forgets the fd.       *)
(***************************************************************************)
Flock(p) ==
  /\ pc[p] = "flock" /\ holder = NoProc
  /\ holder' = p
  /\ Goto(p, "list")
  /\ UNCHANGED <<dir, active, opens, segment>>

(* flock reports another error, and lock's errdefer closes the fd. *)
FlockFails(p) ==
  /\ pc[p] = "flock"
  /\ Goto(p, "failed")
  /\ UNCHANGED <<dir, active, opens, holder, segment>>

(* getSpecificExtFile *)
List(p) ==
  /\ pc[p] = "list"
  /\ Goto(p, IF segment THEN "open" ELSE "create")
  /\ UNCHANGED <<dir, active, opens, holder, segment>>

(* CaskFile.create, with exclusive = true *)
Create(p) ==
  /\ pc[p] = "create" /\ ~segment
  /\ segment' = TRUE
  /\ active' = [active EXCEPT ![p] = "open"]
  /\ Goto(p, "reopen")
  /\ UNCHANGED <<dir, opens, holder>>

(* CaskFile.open on the created file closes its handle and opens a new one; seekLast. *)
Reopen(p) ==
  /\ pc[p] = "reopen"
  /\ Goto(p, "scan")
  /\ UNCHANGED <<dir, active, opens, holder, segment>>

(* A failure there: errdefer file.deinit() closes the old handle a second time. *)
ReopenFails(p) ==
  /\ pc[p] = "reopen"
  /\ Goto(p, "panicked")
  /\ UNCHANGED <<dir, active, opens, holder, segment>>

(* openSegmentFileList *)
OpenFile(p) ==
  /\ pc[p] = "open"
  /\ active' = [active EXCEPT ![p] = "open"]
  /\ Goto(p, "scan")
  /\ UNCHANGED <<dir, opens, holder, segment>>

(* Mutant: workingDir is deinited on every return of open, not only on errors. *)
BuildIndexDefer(p) ==
  /\ pc[p] = "scan"
  /\ dir' = [dir EXCEPT ![p] = "closed"]
  /\ Goto(p, "serving")
  /\ UNCHANGED <<active, opens, holder, segment>>

(* buildIndex, and open returns. *)
BuildIndex(p) ==
  /\ pc[p] = "scan"
  /\ Goto(p, "serving")
  /\ UNCHANGED <<dir, active, opens, holder, segment>>

(* Mutant: open tries again from the lock, which this process still holds. *)
OpenRetries(p) ==
  /\ pc[p] \in Opening \ {"reopen"}
  /\ Goto(p, "flock")
  /\ UNCHANGED <<dir, active, opens, holder, segment>>

(***************************************************************************)
(* One of these steps fails, and open's errdefer deinits workingDir.  When *)
(* it is seekLast that fails, openSegmentFileList's errdefer has closed    *)
(* the file activeFile still points at.                                    *)
(***************************************************************************)
OpenFails(p) ==
  /\ pc[p] \in Opening \ {"reopen"}
  /\ dir' = [dir EXCEPT ![p] = "closed"]
  /\ \/ UNCHANGED active
     \/ pc[p] = "open" /\ active' = [active EXCEPT ![p] = "closed"]
  /\ Goto(p, "failed")
  /\ UNCHANGED <<opens, holder, segment>>

(* DB.close; closing a closed handle is EBADF, which std turns into a panic. *)
Close(p) ==
  /\ pc[p] \in {"serving", "failed"}
  /\ IF "closed" \in {dir[p], active[p]}
     THEN Goto(p, "panicked") /\ UNCHANGED <<dir, active>>
     ELSE /\ Goto(p, "closed")
          /\ dir' = [dir EXCEPT ![p] = "none"]
          /\ active' = [active EXCEPT ![p] = "none"]
  /\ UNCHANGED <<opens, holder, segment>>

(* The process is gone: the kernel closes its descriptors, the lock's among them. *)
Gone(p) ==
  /\ dir' = [dir EXCEPT ![p] = "none"]
  /\ active' = [active EXCEPT ![p] = "none"]
  /\ opens' = [opens EXCEPT ![p] = 0]
  /\ holder' = IF holder = p THEN NoProc ELSE holder
  /\ Goto(p, "out")
  /\ UNCHANGED segment

Exit(p) == pc[p] \in {"closed", "panicked"} /\ Gone(p)

Kill(p) == pc[p] \notin {"out", "closed", "panicked"} /\ Gone(p)

(* The steps main takes by itself, once started, to the end. *)
Main(p) ==
  \/ DirInit(p) \/ LockOpen(p)
  \/ List(p) \/ Create(p) \/ Reopen(p) \/ OpenFile(p) \/ BuildIndex(p)
  \/ Close(p) \/ Exit(p)

Fault(p) == FlockFails(p) \/ ReopenFails(p) \/ OpenFails(p) \/ Kill(p)

Next == \E p \in Procs : DBInit(p) \/ Main(p) \/ Flock(p) \/ Fault(p)

Spec == Init /\ [][Next]_dirVars

(* main is straight-line code, and flock's waiters are queued by the kernel. *)
FairSpec == Spec /\ \A p \in Procs : WF_dirVars(Main(p)) /\ SF_dirVars(Flock(p))
-----------------------------------------------------------------------------
(* Every variable has its type. *)
TypeOK ==
  /\ pc \in [Procs -> Steps]
  /\ dir \in [Procs -> Handles]
  /\ active \in [Procs -> Handles]
  /\ opens \in [Procs -> 0 .. MaxOpens]
  /\ holder \in Procs \cup {NoProc}
  /\ segment \in BOOLEAN

(***************************************************************************)
(* Two processes are never at work in the directory at once, whatever      *)
(* fails and whoever is killed (dir.zig lock; db.zig open takes it before  *)
(* it lists the directory).                                                *)
(***************************************************************************)
AtMostOneUser == \A p, q \in Procs : pc[p] \in Using /\ pc[q] \in Using => p = q

(***************************************************************************)
(* A process that saw no segment file finds none when it comes to create   *)
(* one, so the exclusive create does not collide (db.zig open).            *)
(***************************************************************************)
CreateNeverCollides == \A p \in Procs : pc[p] = "create" => ~segment

(***************************************************************************)
(* Closing a database whose open succeeded closes every handle once: a     *)
(* double close needs an open that failed (db.zig open's errdefer, close). *)
(***************************************************************************)
ServingClosesCleanly == [][\A p \in Procs : pc[p] = "serving" => pc'[p] # "panicked"]_dirVars

(***************************************************************************)
(* When every process opens one database and then ends, whoever waits for  *)
(* the lock gets past it (dir.zig lock; main.zig).                         *)
(***************************************************************************)
WaitersGetIn == \A p \in Procs : pc[p] = "flock" ~> pc[p] # "flock"

(***************************************************************************)
(* "directory is locked, another process is using it" (dir.zig:37): while  *)
(* the lock is held and someone waits for it, its holder is another        *)
(* process and is using the database.                                      *)
(***************************************************************************)
LockedMeansInUse ==
  \A p \in Procs :
    pc[p] = "flock" /\ holder # NoProc => holder # p /\ pc[holder] \in Using
=============================================================================
