------------------------ MODULE VfsReadLatencyProofs ------------------------
(***************************************************************************)
(* Proofs about VfsReadLatency, for any threads, processes, map and queue  *)
(* sizes, and any number of reads.                                         *)
(***************************************************************************)
EXTENDS VfsReadLatency, TLAPS

LEMMA InitTypeOK == Init => TypeOK
<1> SUFFICES ASSUME Init PROVE TypeOK
  OBVIOUS
<1>1. slots \in [Slots -> [proc : Procs \cup {NoProc}, start : Nat]]
  BY DEF Init
<1>2. queue \in Seq(EventType) /\ Len(queue) <= QueueSize
  BY TracerAssumption DEF Init
<1>3. at \in [Threads -> Slots]
  BY TracerAssumption DEF Init, Slots
<1>4. pc \in [Threads -> {"idle", "reading"} \cup InReturn] /\ hooked \in [Threads -> BOOLEAN]
  BY DEF Init
<1>5. QED
  BY <1>1, <1>2, <1>3, <1>4 DEF Init, TypeOK

(* What do_entry's update leaves in the map, whichever of its outcomes it has. *)
LEMMA InsertType ==
  ASSUME TypeOK, NEW p \in Procs, NEW ts \in Nat, Insert(p, ts)
  PROVE  /\ slots' \in [Slots -> [proc : Procs \cup {NoProc}, start : Nat]]
         /\ refused' \subseteq Nat
<1>1. CASE UNCHANGED slots
  BY <1>1 DEF TypeOK, Insert
<1>2. ASSUME NEW s \in Slots, slots' = [slots EXCEPT ![s] = [proc |-> p, start |-> ts]]
      PROVE  slots' \in [Slots -> [proc : Procs \cup {NoProc}, start : Nat]]
  BY <1>2 DEF TypeOK
<1>3. slots' \in [Slots -> [proc : Procs \cup {NoProc}, start : Nat]]
  BY <1>1, <1>2 DEF TypeOK, Insert
<1>4. refused' \subseteq Nat
  BY DEF TypeOK, Insert
<1>5. QED
  BY <1>3, <1>4

LEMMA StepTypeOK == TypeOK /\ [Next]_tracerVars => TypeOK'
<1> SUFFICES ASSUME TypeOK, [Next]_tracerVars PROVE TypeOK'
  OBVIOUS
<1> USE TracerAssumption DEF TypeOK, InReturn, mainVars, probeVars
<1>1. CASE UNCHANGED tracerVars
  BY <1>1 DEF tracerVars
<1>2. ASSUME NEW t \in Threads, ReadUntraced(t) \/ ReadLate(t) PROVE TypeOK'
  <2>0. Begin(t)
    BY <1>2 DEF ReadUntraced, ReadLate
  <2>1. rd' \in [Threads -> Nat] /\ pc' \in [Threads -> {"idle", "reading"} \cup InReturn] /\ reads' \in Nat
    BY <2>0 DEF Begin
  <2>2. hooked' \in [Threads -> BOOLEAN] /\ late' \subseteq Nat
    <3>1. CanFollow \in BOOLEAN
      BY DEF CanFollow
    <3>2. CASE ReadUntraced(t)
      BY <3>2 DEF ReadUntraced
    <3>3. CASE ReadLate(t)
      <4>1. hooked' = [hooked EXCEPT ![t] = CanFollow] /\ late' = late \cup {reads + 1}
        BY <3>3 DEF ReadLate
      <4>2. hooked' \in [Threads -> BOOLEAN]
        BY <3>1, <4>1, Zenon
      <4>3. late' \subseteq Nat
        BY <4>1
      <4>4. QED
        BY <4>2, <4>3
    <3>4. QED
      BY <1>2, <3>2, <3>3
  <2>3. UNCHANGED <<slots, at, start, unpaired, refused, queue, mainVars>>
    BY <1>2 DEF ReadUntraced, ReadLate
  <2>4. QED
    BY <2>1, <2>2, <2>3
<1>3. ASSUME NEW t \in Threads, ReadTraced(t) PROVE TypeOK'
  <2>1. ProcOf[t] \in Procs /\ reads + 1 \in Nat
    OBVIOUS
  <2>2. Insert(ProcOf[t], reads + 1)
    BY <1>3 DEF ReadTraced, Begin
  <2>3. /\ slots' \in [Slots -> [proc : Procs \cup {NoProc}, start : Nat]]
        /\ refused' \subseteq Nat
    BY <2>1, <2>2, InsertType
  <2>4. hooked' \in [Threads -> BOOLEAN]
    BY <1>3 DEF ReadTraced, Begin, CanFollow
  <2>5. unpaired' \subseteq Procs
    BY <1>3, <2>1 DEF ReadTraced, Begin
  <2>6. QED
    BY <1>3, <2>1, <2>3, <2>4, <2>5 DEF ReadTraced, Begin
<1>4. ASSUME NEW t \in Threads, ReturnTraced(t) \/ ReturnUntraced(t) PROVE TypeOK'
  <2>1. hooked' \in [Threads -> BOOLEAN]
    BY <1>4 DEF ReturnTraced, ReturnUntraced
  <2>2. ProcOf[t] \in Procs
    OBVIOUS
  <2>3. unpaired' \subseteq Procs
    BY <1>4, <2>2 DEF ReturnTraced, ReturnUntraced
  <2>4. CASE ReturnTraced(t)
    BY <2>1, <2>3, <2>4 DEF ReturnTraced
  <2>5. CASE ReturnUntraced(t)
    <3>1. pc' \in [Threads -> {"idle", "reading"} \cup InReturn]
      BY <2>5 DEF ReturnUntraced
    <3>2. UNCHANGED <<slots, rd, at, start, reads, refused, late, queue, mainVars>>
      BY <2>5 DEF ReturnUntraced
    <3> QED BY <2>1, <2>3, <3>1, <3>2
  <2>6. QED
    BY <1>4, <2>4, <2>5
<1>5. ASSUME NEW t \in Threads, LookupNone(t) \/ Lookup(t) PROVE TypeOK'
  <2>1. CASE LookupNone(t)
    BY <2>1 DEF LookupNone, Leave
  <2>2. CASE Lookup(t)
    BY <2>2 DEF Lookup, SlotsOf
  <2> QED BY <1>5, <2>1, <2>2
<1>6. ASSUME NEW t \in Threads, Load(t) PROVE TypeOK'
  BY <1>6 DEF Load
<1>7. ASSUME NEW t \in Threads, Delete(t) PROVE TypeOK'
  BY <1>7 DEF Delete
<1>8. ASSUME NEW t \in Threads, Push(t) PROVE TypeOK'
  <2>1. Event(t) \in EventType
    BY DEF Event, EventType
  <2>2. queue' \in Seq(EventType) /\ Len(queue') <= QueueSize
    <3>1. CASE Len(queue) = QueueSize
      <4>1. queue # << >> /\ Tail(queue) \in Seq(EventType) /\ Len(Tail(queue)) = QueueSize - 1
        BY <3>1
      <4>2. QED
        BY <1>8, <2>1, <3>1, <4>1 DEF Push
    <3>2. CASE Len(queue) # QueueSize
      BY <1>8, <2>1, <3>2 DEF Push
    <3>3. QED
      BY <3>1, <3>2
  <2>3. QED
    BY <1>8, <2>2 DEF Push, Leave
<1>9. CASE Take
  <2>1. queue' \in Seq(EventType) /\ Len(queue') <= QueueSize
    BY <1>9 DEF Take
  <2>2. QED
    BY <1>9, <2>1 DEF Take
<1>10. CASE AttachEntry \/ AttachReturn \/ AttachFails
  BY <1>10 DEF AttachEntry, AttachReturn, AttachFails
<1>11. CASE PrintEvent \/ TakeNone \/ SelectAfter \/ SelectDone
  BY <1>11 DEF PrintEvent, TakeNone, SelectAfter, SelectDone
<1>12. CASE Signal \/ CloseEntry \/ CloseReturn
  BY <1>12 DEF Signal, CloseEntry, CloseReturn
<1>13. QED
  BY <1>1, <1>2, <1>3, <1>4, <1>5, <1>6, <1>7, <1>8, <1>9, <1>10, <1>11, <1>12
  DEF Next, Probe, Main

(* Every variable keeps its type; the queue never exceeds max_entries. *)
THEOREM TypeCorrect == Spec => []TypeOK
  BY InitTypeOK, StepTypeOK, PTL DEF Spec
-----------------------------------------------------------------------------
(* The steps of main change neither the map nor where the probes are. *)
LEMMA MainSteps ==
  ASSUME Main \/ AttachFails \/ Signal
  PROVE  UNCHANGED probeVars
  BY DEF Main, AttachEntry, AttachReturn, AttachFails, Take, PrintEvent, TakeNone, SelectAfter,
         SelectDone, Signal, CloseEntry, CloseReturn, probeVars

LEMMA StepNoStale == TypeOK /\ NoStaleEntry /\ [Next]_tracerVars => NoStaleEntry'
<1> SUFFICES ASSUME TypeOK, NoStaleEntry, [Next]_tracerVars,
                    NEW p \in Procs, p \notin unpaired', SlotsOf(p)' # {}
             PROVE  \E t \in Threads : /\ ProcOf[t] = p /\ hooked'[t]
                                       /\ pc'[t] \in {"reading", "lookup", "load", "delete"}
  BY DEF NoStaleEntry, SlotsOf
<1> DEFINE Live(u) == ProcOf[u] = p /\ hooked[u] /\ pc[u] \in {"reading", "lookup", "load", "delete"}
<1> USE TracerAssumption DEF TypeOK, SlotsOf
<1>0. SlotsOf(p) # {} /\ p \notin unpaired => \E u \in Threads : Live(u)
  BY DEF NoStaleEntry
<1>1. CASE UNCHANGED probeVars
  BY <1>0, <1>1 DEF probeVars
<1>2. ASSUME NEW t \in Threads, ReadUntraced(t) \/ ReadLate(t) PROVE \E u \in Threads : Live(u)'
  BY <1>0, <1>2 DEF ReadUntraced, ReadLate, Begin
<1>3. ASSUME NEW t \in Threads, ReadTraced(t) PROVE \E u \in Threads : Live(u)'
  <2>1. CASE ProcOf[t] = p
    BY <1>3, <2>1 DEF ReadTraced, Begin
  <2>2. CASE ProcOf[t] # p
    <3>1. SlotsOf(p) # {}
      BY <1>3, <2>2 DEF ReadTraced, Begin, Insert, Free
    <3>2. QED
      BY <1>0, <1>3, <2>2, <3>1 DEF ReadTraced, Begin
  <2>3. QED
    BY <2>1, <2>2
<1>4. ASSUME NEW t \in Threads, ReturnTraced(t) \/ ReturnUntraced(t) PROVE \E u \in Threads : Live(u)'
  BY <1>0, <1>4 DEF ReturnTraced, ReturnUntraced
<1>5. ASSUME NEW t \in Threads, LookupNone(t) \/ Lookup(t) PROVE \E u \in Threads : Live(u)'
  BY <1>0, <1>5 DEF LookupNone, Lookup, Leave
<1>6. ASSUME NEW t \in Threads, Load(t) \/ Push(t) PROVE \E u \in Threads : Live(u)'
  BY <1>0, <1>6 DEF Load, Push, Leave, mainVars
<1>7. ASSUME NEW t \in Threads, Delete(t) PROVE \E u \in Threads : Live(u)'
  <2>1. ProcOf[t] # p /\ SlotsOf(p) # {}
    BY <1>7 DEF Delete
  <2>2. QED
    BY <1>0, <1>7, <2>1 DEF Delete
<1>8. QED
  BY <1>1, <1>2, <1>3, <1>4, <1>5, <1>6, <1>7, MainSteps DEF Next, Probe, tracerVars, probeVars

(***************************************************************************)
(* read_events never keeps an element of a process none of whose traced    *)
(* reads is under way, for any number of threads and CPUs.                 *)
(***************************************************************************)
THEOREM NoStale == Spec => []NoStaleEntry
<1>1. Init => NoStaleEntry
  BY TracerAssumption DEF Init, NoStaleEntry, SlotsOf, Slots
<1>2. QED
  BY <1>1, InitTypeOK, StepTypeOK, StepNoStale, PTL DEF Spec
-----------------------------------------------------------------------------
(* A thread of a single-threaded process, each of whose reads had its do_return. *)
Clean(t) == SingleThreaded(ProcOf[t]) /\ ProcOf[t] \notin unpaired

(***************************************************************************)
(* Where the timestamp of a clean thread's read is, from do_entry to the   *)
(* event: in the process's element, which no other thread can delete, then *)
(* in do_return's local.                                                   *)
(***************************************************************************)
Stamp(t) ==
  /\ \A s \in SlotsOf(ProcOf[t]) : slots[s].start = rd[t]
  /\ pc[t] = "load" => at[t] \in SlotsOf(ProcOf[t])
  /\ pc[t] \in {"delete", "push"} => start[t] = rd[t]
  /\ hooked[t] /\ pc[t] \in {"reading", "lookup"} =>
       SlotsOf(ProcOf[t]) # {} \/ rd[t] \in refused \/ (rd[t] \in late /\ signalled)
  /\ pc[t] \in InReturn => hooked[t]

StampInv ==
  /\ \A t \in Threads : Clean(t) => Stamp(t)
  /\ ExactWhenSingleThreaded

(* main closes the probes only after a signal. *)
CloseInv == consumer = "closing" \/ phase = "closing" => signalled

ExactInv == TypeOK /\ NoStaleEntry /\ CloseInv /\ StampInv

LEMMA StepClose == CloseInv /\ [Next]_tracerVars => CloseInv'
<1> SUFFICES ASSUME CloseInv, [Next]_tracerVars PROVE CloseInv'
  OBVIOUS
<1>1. CASE UNCHANGED mainVars \/ UNCHANGED tracerVars
  BY <1>1 DEF CloseInv, mainVars, tracerVars
<1>2. CASE Main \/ AttachFails \/ Signal
  BY <1>2 DEF CloseInv, Main, AttachEntry, AttachReturn, AttachFails, Take, PrintEvent, TakeNone,
              SelectAfter, SelectDone, Signal, CloseEntry, CloseReturn
<1>3. ASSUME NEW t \in Threads, ReadUntraced(t) \/ ReadTraced(t) \/ ReadLate(t) \/ Probe(t)
      PROVE  UNCHANGED mainVars
  BY <1>3 DEF Probe, ReadUntraced, ReadTraced, ReadLate, ReturnTraced, ReturnUntraced,
              LookupNone, Lookup, Load, Delete, Push
<1>4. QED
  BY <1>1, <1>2, <1>3 DEF Next

(* An idle clean thread has no element left in the map. *)
LEMMA IdleHasNoSlot ==
  ASSUME NoStaleEntry, TypeOK, NEW t \in Threads, Clean(t), pc[t] = "idle"
  PROVE  SlotsOf(ProcOf[t]) = {}
  BY TracerAssumption DEF NoStaleEntry, TypeOK, Clean, SingleThreaded

(* unpaired only grows, so a thread that is clean after a step was clean before it. *)
LEMMA CleanBefore ==
  ASSUME Next, NEW t \in Threads, Clean(t)'
  PROVE  Clean(t)
<1>1. CASE Main \/ AttachFails \/ Signal
  BY <1>1, MainSteps DEF probeVars, Clean
<1>2. ASSUME NEW u \in Threads, ReadUntraced(u) \/ ReadTraced(u) \/ ReadLate(u) PROVE Clean(t)
  BY <1>2 DEF ReadUntraced, ReadTraced, ReadLate, Begin, Clean
<1>3. ASSUME NEW u \in Threads, Probe(u) PROVE Clean(t)
  BY <1>3 DEF Probe, ReturnTraced, ReturnUntraced, LookupNone, Lookup, Load, Delete, Push, Clean
<1>4. QED
  BY <1>1, <1>2, <1>3 DEF Next

(* A step of a clean thread itself carries its timestamp one place further. *)
LEMMA OwnStep ==
  ASSUME TypeOK, NoStaleEntry, CloseInv, NEW t \in Threads, Clean(t), Clean(t)', Stamp(t),
         ReadUntraced(t) \/ ReadTraced(t) \/ ReadLate(t) \/ Probe(t)
  PROVE  Stamp(t)'
<1> USE TracerAssumption DEF TypeOK, Stamp, SlotsOf, InReturn, mainVars
<1>1. CASE ReadUntraced(t) \/ ReadLate(t)
  <2>1. SlotsOf(ProcOf[t]) = {}
    BY <1>1, IdleHasNoSlot DEF ReadUntraced, ReadLate, Begin
  <2>2. QED
    BY <1>1, <2>1 DEF ReadUntraced, ReadLate, Begin, CloseInv, mainVars
<1>2. CASE ReadTraced(t)
  <2>1. SlotsOf(ProcOf[t]) = {}
    BY <1>2, IdleHasNoSlot DEF ReadTraced, Begin
  <2>2. rd'[t] = reads + 1 /\ pc'[t] = "reading"
    BY <1>2 DEF ReadTraced, Begin
  <2>3. CASE UNCHANGED slots /\ refused' = refused \cup {reads + 1}
    BY <2>1, <2>2, <2>3
  <2>4. ASSUME NEW s \in Slots, slots' = [slots EXCEPT ![s] = [proc |-> ProcOf[t], start |-> reads + 1]]
        PROVE  Stamp(t)'
    <3>1. \A r \in Slots \ {s} : slots'[r].proc # ProcOf[t]
      BY <2>1, <2>4
    <3>2. slots'[s].proc = ProcOf[t] /\ slots'[s].start = reads + 1
      BY <2>4
    <3>3. QED
      BY <2>2, <3>1, <3>2
  <2>5. QED
    BY <1>2, <2>1, <2>3, <2>4 DEF ReadTraced, Begin, Insert
<1>3. CASE ReturnTraced(t) \/ ReturnUntraced(t)
  BY <1>3 DEF ReturnTraced, ReturnUntraced, Clean
<1>4. CASE LookupNone(t) \/ Lookup(t)
  BY <1>4 DEF LookupNone, Lookup, Leave
<1>5. CASE Load(t)
  BY <1>5 DEF Load
<1>6. CASE Delete(t)
  BY <1>6 DEF Delete
<1>7. CASE Push(t)
  BY <1>7 DEF Push, Leave
<1>8. QED
  BY <1>1, <1>2, <1>3, <1>4, <1>5, <1>6, <1>7 DEF Probe

(* A step of a thread of another process leaves it alone. *)
LEMMA OtherStep ==
  ASSUME TypeOK, NEW t \in Threads, NEW u \in Threads, ProcOf[u] # ProcOf[t], Stamp(t),
         ReadUntraced(u) \/ ReadTraced(u) \/ ReadLate(u) \/ Probe(u)
  PROVE  Stamp(t)'
<1> USE TracerAssumption DEF TypeOK, Stamp, SlotsOf, InReturn, mainVars
<1>1. CASE ReadUntraced(u) \/ ReadLate(u)
  BY <1>1 DEF ReadUntraced, ReadLate, Begin, mainVars
<1>2. CASE ReadTraced(u)
  <2>1. \A s \in Slots : /\ slots[s].proc = ProcOf[t] => slots'[s] = slots[s]
                         /\ slots'[s].proc = ProcOf[t] => slots'[s] = slots[s]
    BY <1>2 DEF ReadTraced, Begin, Insert, Free
  <2>2. refused \subseteq refused'
    BY <1>2 DEF ReadTraced, Begin, Insert
  <2>3. QED
    BY <1>2, <2>1, <2>2 DEF ReadTraced, Begin
<1>3. CASE ReturnTraced(u) \/ ReturnUntraced(u)
  BY <1>3 DEF ReturnTraced, ReturnUntraced
<1>4. CASE LookupNone(u) \/ Lookup(u)
  BY <1>4 DEF LookupNone, Lookup, Leave
<1>5. CASE Load(u)
  BY <1>5 DEF Load
<1>6. CASE Delete(u)
  BY <1>6 DEF Delete
<1>7. CASE Push(u)
  BY <1>7 DEF Push, Leave
<1>8. QED
  BY <1>1, <1>2, <1>3, <1>4, <1>5, <1>6, <1>7 DEF Probe

LEMMA StepStamp == ExactInv /\ [Next]_tracerVars => StampInv'
<1> SUFFICES ASSUME ExactInv, [Next]_tracerVars PROVE StampInv'
  OBVIOUS
<1>1. CASE UNCHANGED tracerVars
  BY <1>1 DEF tracerVars, ExactInv, StampInv, Stamp, Clean, SlotsOf, ExactWhenSingleThreaded
<1>2. CASE Next
  <2>1. ASSUME NEW t \in Threads, Clean(t)' PROVE Stamp(t)'
    <3>1. Clean(t) /\ Stamp(t)
      BY <1>2, <2>1, CleanBefore DEF ExactInv, StampInv, Stamp
    <3>2. CASE Main \/ AttachFails \/ Signal
      <4>1. signalled => signalled'
        BY <3>2 DEF Main, AttachEntry, AttachReturn, AttachFails, Take, PrintEvent, TakeNone,
                    SelectAfter, SelectDone, Signal, CloseEntry, CloseReturn
      <4>2. QED
        BY <3>1, <3>2, <4>1, MainSteps DEF probeVars, Stamp, SlotsOf
    <3>3. ASSUME NEW u \in Threads, ReadUntraced(u) \/ ReadTraced(u) \/ ReadLate(u) \/ Probe(u) PROVE Stamp(t)'
      <4>1. u = t \/ ProcOf[u] # ProcOf[t]
        BY <3>1 DEF Clean, SingleThreaded
      <4>2. QED
        BY <2>1, <3>1, <3>3, <4>1, OwnStep, OtherStep DEF ExactInv
    <3>4. QED
      BY <1>2, <3>2, <3>3 DEF Next
  <2>2. ExactWhenSingleThreaded'
    <3>1. CASE \E t \in Threads : Push(t)
      <4>1. PICK t \in Threads : Push(t)
        BY <3>1
      <4>2. DEFINE q == IF Len(queue) = QueueSize THEN Tail(queue) ELSE queue
      <4>3. queue' = Append(q, Event(t)) /\ unpaired' = unpaired
        BY <4>1 DEF Push
      <4>4. q \in Seq(EventType) /\ \A i \in 1 .. Len(q) : \E j \in 1 .. Len(queue) : q[i] = queue[j]
        <5>1. queue \in Seq(EventType) /\ QueueSize \in Nat \ {0}
          BY TracerAssumption DEF ExactInv, TypeOK
        <5>2. CASE Len(queue) = QueueSize
          <6>1. Tail(queue) \in Seq(EventType) /\ Len(Tail(queue)) = Len(queue) - 1
            BY <5>1, <5>2
          <6>2. \A i \in 1 .. Len(Tail(queue)) : i + 1 \in 1 .. Len(queue) /\ Tail(queue)[i] = queue[i + 1]
            BY <5>1, <5>2, <6>1
          <6>3. QED
            BY <5>2, <6>1, <6>2
        <5>3. QED
          BY <5>1, <5>2
      <4> HIDE DEF q
      <4>5. \A e \in {q[i] : i \in 1 .. Len(q)} :
              SingleThreaded(e.proc) /\ e.proc \notin unpaired => e.start = e.read
        <5>1. ExactWhenSingleThreaded
          BY DEF ExactInv, StampInv
        <5>2. QED
          BY <4>4, <5>1 DEF ExactWhenSingleThreaded
      <4>6. SingleThreaded(ProcOf[t]) /\ ProcOf[t] \notin unpaired => start[t] = rd[t]
        BY <4>1 DEF Push, ExactInv, StampInv, Stamp, Clean
      <4>7. ASSUME NEW i \in 1 .. Len(Append(q, Event(t)))
            PROVE  Append(q, Event(t))[i] \in {q[j] : j \in 1 .. Len(q)} \cup {Event(t)}
        BY <4>4
      <4>8. ASSUME NEW i \in 1 .. Len(queue'),
                   SingleThreaded(queue'[i].proc), queue'[i].proc \notin unpaired
            PROVE  queue'[i].start = queue'[i].read
        <5>1. queue'[i] \in {q[j] : j \in 1 .. Len(q)} \cup {Event(t)}
          BY <4>3, <4>7
        <5>2. CASE queue'[i] = Event(t)
          BY <4>6, <4>8, <5>2 DEF Event
        <5>3. CASE queue'[i] \in {q[j] : j \in 1 .. Len(q)}
          BY <4>5, <4>8, <5>3
        <5>4. QED
          BY <5>1, <5>2, <5>3
      <4>9. QED
        BY <4>3, <4>8 DEF ExactWhenSingleThreaded, SingleThreaded
    <3>2. CASE Take
      <4>1. queue \in Seq(EventType) /\ queue # << >> /\ queue' = Tail(queue) /\ unpaired' = unpaired
        BY <3>2 DEF Take, probeVars, ExactInv, TypeOK
      <4>2. \A i \in 1 .. Len(queue') : i + 1 \in 1 .. Len(queue) /\ queue'[i] = queue[i + 1]
        BY <4>1
      <4>3. QED
        BY <4>1, <4>2 DEF ExactInv, StampInv, ExactWhenSingleThreaded, SingleThreaded
    <3>3. CASE queue' = queue /\ unpaired \subseteq unpaired'
      BY <3>3 DEF ExactInv, StampInv, ExactWhenSingleThreaded, SingleThreaded
    <3>4. QED
      BY <1>2, <3>1, <3>2, <3>3 DEF Next, Main, Probe, probeVars, mainVars, AttachEntry, AttachReturn,
         AttachFails, PrintEvent, TakeNone, SelectAfter, SelectDone, Signal, CloseEntry, CloseReturn,
         ReadUntraced, ReadTraced, ReadLate, Begin, ReturnTraced, ReturnUntraced, LookupNone, Lookup, Load, Delete
  <2>3. QED
    BY <2>1, <2>2 DEF StampInv, Stamp
<1>3. QED
  BY <1>1, <1>2

(* The timestamps of clean threads are where StampInv says, in every reachable state. *)
THEOREM ExactInvHolds == Spec => []ExactInv
<1>1. Init => ExactInv
  <2> SUFFICES ASSUME Init PROVE ExactInv
    OBVIOUS
  <2>1. NoStaleEntry
    BY TracerAssumption DEF Init, NoStaleEntry, SlotsOf
  <2>2. \A t \in Threads : SlotsOf(ProcOf[t]) = {}
    BY TracerAssumption DEF Init, SlotsOf
  <2>3. StampInv
    <3>1. \A t \in Threads : pc[t] = "idle" /\ ~hooked[t]
      BY DEF Init
    <3>2. \A t \in Threads : Stamp(t)
      BY <2>2, <3>1 DEF Stamp, InReturn
    <3>3. QED
      BY <3>2 DEF Init, StampInv, ExactWhenSingleThreaded
  <2>4. QED
    BY <2>1, <2>3, InitTypeOK DEF Init, CloseInv, ExactInv
<1>2. ExactInv /\ [Next]_tracerVars => ExactInv'
  BY StepTypeOK, StepNoStale, StepClose, StepStamp DEF ExactInv
<1>3. QED
  BY <1>1, <1>2, PTL DEF Spec

(***************************************************************************)
(* A latency reported for a single-threaded process is its own read's,     *)
(* unless one of the process's reads went without its do_return.           *)
(***************************************************************************)
THEOREM Exact == Spec => []ExactWhenSingleThreaded
  BY ExactInvHolds, PTL DEF ExactInv, StampInv

(***************************************************************************)
(* do_return finds no element for such a read only when do_entry found     *)
(* read_events full, or when the read began, after a signal, between the   *)
(* two closes.                                                             *)
(***************************************************************************)
THEOREM Missed == Spec => MissedOnlyFullOrClosing
<1>1. ExactInv /\ [Next]_tracerVars =>
        [\A t \in Threads :
           /\ pc[t] = "lookup" /\ pc'[t] = "idle"
           /\ SingleThreaded(ProcOf[t]) /\ ProcOf[t] \notin unpaired
           => rd[t] \in refused \/ (rd[t] \in late /\ signalled)]_tracerVars
  <2> SUFFICES ASSUME ExactInv, Next, NEW t \in Threads, pc[t] = "lookup", pc'[t] = "idle",
                      SingleThreaded(ProcOf[t]), ProcOf[t] \notin unpaired
               PROVE  rd[t] \in refused \/ (rd[t] \in late /\ signalled)
    BY DEF tracerVars
  <2>1. LookupNone(t)
    <3>1. ASSUME NEW u \in Threads, ReadUntraced(u) \/ ReadTraced(u) \/ ReadLate(u) \/ Probe(u) PROVE u = t
      BY <3>1 DEF ExactInv, TypeOK, Probe, ReadUntraced, ReadTraced, ReadLate, Begin, ReturnTraced, ReturnUntraced,
         LookupNone, Lookup, Load, Delete, Push, Leave
    <3>2. ~(Main \/ AttachFails \/ Signal)
      BY MainSteps DEF probeVars
    <3>3. ReadUntraced(t) \/ ReadTraced(t) \/ ReadLate(t) \/ Probe(t)
      BY <3>1, <3>2 DEF Next
    <3>4. QED
      BY <3>3 DEF ExactInv, TypeOK, Probe, ReadUntraced, ReadTraced, ReadLate, Begin, ReturnTraced, ReturnUntraced,
         Lookup, Load, Delete, Push
  <2>2. QED
    BY <2>1 DEF LookupNone, ExactInv, StampInv, Stamp, Clean, InReturn
<1>2. QED
  BY ExactInvHolds, <1>1, PTL DEF Spec, MissedOnlyFullOrClosing
=============================================================================
