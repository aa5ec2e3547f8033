--------------------------- MODULE CaskDirProofs ---------------------------
(***************************************************************************)
(* Proofs about CaskDir, for any number of processes and of opens.         *)
(***************************************************************************)
EXTENDS CaskDir, TLAPS

(***************************************************************************)
(* What the mutual exclusion rests on: only the holder of the flock is at  *)
(* work in the directory, so nobody else can create the segment file; and  *)
(* while open has not failed, its handles are not closed.                  *)
(***************************************************************************)
LockInv ==
  /\ \A p \in Procs : pc[p] \in Using => holder = p
  /\ \A p \in Procs : pc[p] = "create" => ~segment
  /\ \A p \in Procs : pc[p] \in Using => dir[p] # "closed" /\ active[p] # "closed"
  /\ \A p \in Procs : pc[p] \in {"out", "closed", "fresh", "dir", "flock"} =>
       dir[p] # "closed" /\ active[p] # "closed"

IInv == TypeOK /\ LockInv

LEMMA InitInv == Init => IInv
  BY ProcAssumption DEF Init, IInv, TypeOK, LockInv, Steps, Handles, Using, Opening

LEMMA StepInv == IInv /\ [Next]_dirVars => IInv'
<1> SUFFICES ASSUME IInv, [Next]_dirVars PROVE IInv'
  OBVIOUS
<1> USE ProcAssumption DEF IInv, TypeOK, LockInv, Steps, Handles, Using, Opening, Goto
<1>1. CASE UNCHANGED dirVars
  BY <1>1 DEF dirVars
<1>2. ASSUME NEW p \in Procs, DBInit(p) PROVE IInv'
  BY <1>2 DEF DBInit
<1>3. ASSUME NEW p \in Procs, DirInit(p) PROVE IInv'
  BY <1>3 DEF DirInit
<1>4. ASSUME NEW p \in Procs, LockOpen(p) PROVE IInv'
  BY <1>4 DEF LockOpen
<1>5. ASSUME NEW p \in Procs, Flock(p) PROVE IInv'
  BY <1>5 DEF Flock
<1>6. ASSUME NEW p \in Procs, FlockFails(p) PROVE IInv'
  BY <1>6 DEF FlockFails
<1>7. ASSUME NEW p \in Procs, List(p) PROVE IInv'
  BY <1>7 DEF List
<1>8. ASSUME NEW p \in Procs, Create(p) PROVE IInv'
  BY <1>8 DEF Create
<1>9. ASSUME NEW p \in Procs, Reopen(p) \/ ReopenFails(p) PROVE IInv'
  BY <1>9 DEF Reopen, ReopenFails
<1>10. ASSUME NEW p \in Procs, OpenFile(p) \/ BuildIndex(p) PROVE IInv'
  BY <1>10 DEF OpenFile, BuildIndex
<1>11. ASSUME NEW p \in Procs, OpenFails(p) PROVE IInv'
  BY <1>11 DEF OpenFails
<1>12. ASSUME NEW p \in Procs, Close(p) PROVE IInv'
  BY <1>12 DEF Close
<1>13. ASSUME NEW p \in Procs, Exit(p) \/ Kill(p) PROVE IInv'
  BY <1>13 DEF Exit, Kill, Gone
<1>14. QED
  BY <1>1, <1>2, <1>3, <1>4, <1>5, <1>6, <1>7, <1>8, <1>9, <1>10, <1>11, <1>12, <1>13
  DEF Next, Main, Fault

(* The inductive invariant holds in every reachable state. *)
THEOREM InvHolds == Spec => []IInv
  BY InitInv, StepInv, PTL DEF Spec

(* Every variable of the directory keeps its type. *)
THEOREM TypeCorrect == Spec => []TypeOK
<1>1. IInv => TypeOK
  BY DEF IInv
<1>2. QED
  BY InvHolds, <1>1, PTL

(***************************************************************************)
(* flock on 1.lock keeps every two processes apart between the listing of  *)
(* the directory and the end of their databases' use.                      *)
(***************************************************************************)
THEOREM MutualExclusion == Spec => []AtMostOneUser
<1>1. IInv => AtMostOneUser
  BY DEF IInv, LockInv, AtMostOneUser
<1>2. QED
  BY InvHolds, <1>1, PTL

(* The exclusive create of 0.segment never meets a file made by another process. *)
THEOREM NoCollision == Spec => []CreateNeverCollides
<1>1. IInv => CreateNeverCollides
  BY DEF IInv, LockInv, CreateNeverCollides
<1>2. QED
  BY InvHolds, <1>1, PTL

(* Closing a database that opened never closes a handle twice. *)
THEOREM CleanClose == Spec => ServingClosesCleanly
<1>1. IInv /\ [Next]_dirVars => [\A p \in Procs : pc[p] = "serving" => pc'[p] # "panicked"]_dirVars
  <2> SUFFICES ASSUME IInv, Next, NEW p \in Procs, pc[p] = "serving" PROVE pc'[p] # "panicked"
    BY DEF dirVars
  <2>1. PICK q \in Procs : DBInit(q) \/ Main(q) \/ Flock(q) \/ Fault(q)
    BY DEF Next
  <2>2. dir[p] # "closed" /\ active[p] # "closed"
    BY DEF IInv, LockInv, Using
  <2> QED
    BY <2>1, <2>2 DEF Main, Fault, Goto, IInv, TypeOK, DBInit, DirInit, LockOpen, Flock, FlockFails,
       List, Create, Reopen, ReopenFails, OpenFile, BuildIndex, OpenFails, Close, Exit, Kill, Gone,
       Opening
<1>2. QED
  BY InvHolds, <1>1, PTL DEF Spec, ServingClosesCleanly
=============================================================================
