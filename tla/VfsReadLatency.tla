--------------------------- MODULE VfsReadLatency ---------------------------
(***************************************************************************)
(* The read-latency tracer of src/ebpf-cilium-golang-vfs-read-latency: the *)
(* two probes of vfs_read_latency.c running on any CPU, the hash map and   *)
(* the queue they share, and the Go process (main.go, bpf.go) that         *)
(* attaches them, drains the queue and detaches them on a signal.          *)
(*                                                                         *)
(* A timestamp is modelled by the read whose entry took it, so an event is *)
(* exact when the timestamp it subtracts is that of its own read.  A hash  *)
(* map element is a slot: bpf_map_lookup_elem returns a pointer to it that *)
(* stays readable after another CPU deletes the element and reuses it.     *)
(***************************************************************************)
EXTENDS Integers, Sequences, FiniteSets

CONSTANTS
  Threads, Procs,  \* tasks, and the thread groups they belong to
  ProcOf,          \* the tgid of each thread, the key of read_events
  NoProc,          \* a free slot
  MapSize,         \* max_entries of read_events
  QueueSize,       \* max_entries of result_events
  MaxActive,       \* reads the kretprobe can follow at once; it misses others
  MaxReads         \* bound: calls of vfs_read

ASSUME TracerAssumption ==
  /\ ProcOf \in [Threads -> Procs]
  /\ NoProc \notin Procs
  /\ MapSize \in Nat \ {0} /\ QueueSize \in Nat \ {0}
  /\ MaxActive \in Nat /\ MaxReads \in Nat

Slots == 1 .. MapSize

VARIABLES
  phase,     \* the probes: loaded (none), entry, both, closing (return only), off
  slots,     \* read_events: slot -> [proc, start]; proc = NoProc when free
  queue,     \* result_events
  pc,        \* per thread: where it is in vfs_read and in do_return
  rd,        \* per thread: its current read
  hooked,    \* per thread: the kretprobe follows this read
  at,        \* per thread: do_return's val, the slot it looked up
  start,     \* per thread: *val
  reads,     \* reads begun so far
  consumer,  \* main's loop: out, poll, print, select, closing, stopped
  signalled, \* SIGINT or SIGTERM has arrived
  unpaired,  \* bookkeeping: processes with a read that no do_return followed
  refused,   \* bookkeeping: reads whose entry found read_events full
  late       \* bookkeeping: reads that only the return probe saw begin

probeVars == <<slots, pc, rd, hooked, at, start, reads, unpaired, refused, late>>
mainVars == <<phase, consumer, signalled>>
tracerVars == <<phase, slots, queue, pc, rd, hooked, at, start, reads, consumer, signalled,
                unpaired, refused, late>>

InReturn == {"lookup", "load", "delete", "push"}

Init ==
  /\ phase = "loaded"
  /\ slots = [s \in Slots |-> [proc |-> NoProc, start |-> 0]]
  /\ queue = << >>
  /\ pc = [t \in Threads |-> "idle"]
  /\ rd = [t \in Threads |-> 0]
  /\ hooked = [t \in Threads |-> FALSE]
  /\ at = [t \in Threads |-> 1]
  /\ start = [t \in Threads |-> 0]
  /\ reads = 0
  /\ consumer = "out" /\ signalled = FALSE
  /\ unpaired = {} /\ refused = {} /\ late = {}

Free(s) == slots[s].proc = NoProc
SlotsOf(p) == {s \in Slots : slots[s].proc = p}
-----------------------------------------------------------------------------
(* The kretprobe has room for one more read. *)
CanFollow == Cardinality({u \in Threads : hooked[u]}) < MaxActive

(* A thread calls vfs_read. *)
Begin(t) ==
  /\ pc[t] = "idle"
  /\ reads < MaxReads
  /\ reads' = reads + 1
  /\ rd' = [rd EXCEPT ![t] = reads + 1]
  /\ pc' = [pc EXCEPT ![t] = "reading"]

(* There is no probe, or a detached one. *)
ReadUntraced(t) ==
  /\ Begin(t) /\ phase \in {"loaded", "off"}
  /\ hooked' = [hooked EXCEPT ![t] = FALSE]
  /\ UNCHANGED <<slots, at, start, unpaired, refused, late, queue, mainVars>>

(* The entry probe is detached already, the return probe is not yet. *)
ReadLate(t) ==
  /\ Begin(t) /\ phase = "closing"
  /\ hooked' = [hooked EXCEPT ![t] = CanFollow]
  /\ late' = late \cup {reads + 1}
  /\ UNCHANGED <<slots, at, start, unpaired, refused, queue, mainVars>>

(* bpf_map_update_elem(&read_events, &pid, &ts, BPF_NOEXIST) in do_entry. *)
Insert(p, ts) ==
  \/ /\ SlotsOf(p) # {}
     /\ UNCHANGED <<slots, refused>>
  \/ /\ SlotsOf(p) = {} /\ \A s \in Slots : ~Free(s)
     /\ refused' = refused \cup {ts}
     /\ UNCHANGED slots
  \/ /\ SlotsOf(p) = {}
     /\ \E s \in Slots : Free(s) /\ slots' = [slots EXCEPT ![s] = [proc |-> p, start |-> ts]]
     /\ UNCHANGED refused

(* vfs_read runs into do_entry, and into the kretprobe when one is free. *)
ReadTraced(t) ==
  LET follow == phase = "both" /\ CanFollow IN
  /\ Begin(t) /\ phase \in {"entry", "both"}
  /\ Insert(ProcOf[t], reads + 1)
  /\ hooked' = [hooked EXCEPT ![t] = follow]
  /\ unpaired' = IF follow THEN unpaired ELSE unpaired \cup {ProcOf[t]}
  /\ UNCHANGED <<at, start, late, queue, mainVars>>

(* vfs_read returns into do_return. *)
ReturnTraced(t) ==
  /\ pc[t] = "reading" /\ hooked[t] /\ phase \in {"both", "closing"}
  /\ pc' = [pc EXCEPT ![t] = "lookup"]
  /\ UNCHANGED <<slots, rd, hooked, at, start, reads, unpaired, refused, late, queue, mainVars>>

(* It returns with no probe there, or with one that was detached meanwhile. *)
ReturnUntraced(t) ==
  /\ pc[t] = "reading" /\ ~(hooked[t] /\ phase \in {"both", "closing"})
  /\ pc' = [pc EXCEPT ![t] = "idle"]
  /\ hooked' = [hooked EXCEPT ![t] = FALSE]
  /\ unpaired' = IF hooked[t] THEN unpaired \cup {ProcOf[t]} ELSE unpaired
  /\ UNCHANGED <<slots, rd, at, start, reads, refused, late, queue, mainVars>>

(* do_return ends. *)
Leave(t) ==
  /\ pc' = [pc EXCEPT ![t] = "idle"]
  /\ hooked' = [hooked EXCEPT ![t] = FALSE]

(* bpf_map_lookup_elem finds nothing, *)
LookupNone(t) ==
  /\ pc[t] = "lookup" /\ SlotsOf(ProcOf[t]) = {}
  /\ Leave(t)
  /\ UNCHANGED <<slots, rd, at, start, reads, unpaired, refused, late, queue, mainVars>>

(* or a pointer to the element. *)
Lookup(t) ==
  /\ pc[t] = "lookup"
  /\ \E s \in SlotsOf(ProcOf[t]) : at' = [at EXCEPT ![t] = s]
  /\ pc' = [pc EXCEPT ![t] = "load"]
  /\ UNCHANGED <<slots, rd, hooked, start, reads, unpaired, refused, late, queue, mainVars>>

(* delta = bpf_ktime_get_ns() - *val, whatever the element holds by now. *)
Load(t) ==
  /\ pc[t] = "load"
  /\ start' = [start EXCEPT ![t] = slots[at[t]].start]
  /\ pc' = [pc EXCEPT ![t] = "delete"]
  /\ UNCHANGED <<slots, rd, hooked, at, reads, unpaired, refused, late, queue, mainVars>>

(* Mutants: the element is not deleted; and the looked-up element is, whosever it is by now. *)
DeleteNothing(t) ==
  /\ pc[t] = "delete"
  /\ pc' = [pc EXCEPT ![t] = "push"]
  /\ UNCHANGED <<slots, rd, hooked, at, start, reads, unpaired, refused, late, queue, mainVars>>

DeleteByPointer(t) ==
  /\ pc[t] = "delete"
  /\ slots' = [slots EXCEPT ![at[t]].proc = NoProc]
  /\ pc' = [pc EXCEPT ![t] = "push"]
  /\ UNCHANGED <<rd, hooked, at, start, reads, unpaired, refused, late, queue, mainVars>>

(* bpf_map_delete_elem(&read_events, &pid): the process's element, if it has one still. *)
Delete(t) ==
  /\ pc[t] = "delete"
  /\ slots' = [s \in Slots |->
                 IF slots[s].proc = ProcOf[t] THEN [slots[s] EXCEPT !.proc = NoProc] ELSE slots[s]]
  /\ pc' = [pc EXCEPT ![t] = "push"]
  /\ UNCHANGED <<rd, hooked, at, start, reads, unpaired, refused, late, queue, mainVars>>

Event(t) == [proc |-> ProcOf[t], start |-> start[t], read |-> rd[t]]

(* bpf_map_push_elem(.., BPF_EXIST): a full queue loses its oldest event. *)
Push(t) ==
  /\ pc[t] = "push"
  /\ queue' = Append(IF Len(queue) = QueueSize THEN Tail(queue) ELSE queue, Event(t))
  /\ Leave(t)
  /\ UNCHANGED <<slots, rd, at, start, reads, unpaired, refused, late, mainVars>>
-----------------------------------------------------------------------------
(* BPF.Attach: the entry probe first, *)
AttachEntry ==
  /\ phase = "loaded" /\ consumer = "out"
  /\ phase' = "entry"
  /\ UNCHANGED <<probeVars, queue, consumer, signalled>>

(* then the return probe, and main goes into its loop. *)
AttachReturn ==
  /\ phase = "entry"
  /\ phase' = "both" /\ consumer' = "poll"
  /\ UNCHANGED <<probeVars, queue, signalled>>

(* One of them fails: log.Fatalf, and the kernel detaches what was attached. *)
AttachFails ==
  /\ phase \in {"loaded", "entry"} /\ consumer = "out"
  /\ phase' = "off" /\ consumer' = "stopped"
  /\ UNCHANGED <<probeVars, queue, signalled>>

(* LookupAndDelete takes the oldest event, *)
Take ==
  /\ consumer = "poll" /\ queue # << >>
  /\ queue' = Tail(queue)
  /\ consumer' = "print"
  /\ UNCHANGED <<probeVars, phase, signalled>>

PrintEvent ==
  /\ consumer = "print"
  /\ consumer' = "poll"
  /\ UNCHANGED <<probeVars, queue, phase, signalled>>

(* Mutant: an empty queue is polled again without a look at the context. *)
TakeNoneAgain ==
  /\ consumer = "poll" /\ queue = << >>
  /\ consumer' = "poll"
  /\ UNCHANGED <<probeVars, queue, phase, signalled>>

(* or finds none; only then does main look at its context. *)
TakeNone ==
  /\ consumer = "poll" /\ queue = << >>
  /\ consumer' = "select"
  /\ UNCHANGED <<probeVars, queue, phase, signalled>>

SelectAfter ==
  /\ consumer = "select"
  /\ consumer' = "poll"
  /\ UNCHANGED <<probeVars, queue, phase, signalled>>

SelectDone ==
  /\ consumer = "select" /\ signalled
  /\ consumer' = "closing"
  /\ UNCHANGED <<probeVars, queue, phase, signalled>>

Signal ==
  /\ ~signalled /\ phase = "both"
  /\ signalled' = TRUE
  /\ UNCHANGED <<probeVars, queue, phase, consumer>>

(* The deferred closes: the entry probe's link, *)
CloseEntry ==
  /\ consumer = "closing" /\ phase = "both"
  /\ phase' = "closing"
  /\ UNCHANGED <<probeVars, queue, consumer, signalled>>

(* then the return probe's. *)
CloseReturn ==
  /\ consumer = "closing" /\ phase = "closing"
  /\ phase' = "off" /\ consumer' = "stopped"
  /\ UNCHANGED <<probeVars, queue, signalled>>

Probe(t) ==
  \/ ReturnTraced(t) \/ ReturnUntraced(t)
  \/ LookupNone(t) \/ Lookup(t) \/ Load(t) \/ Delete(t) \/ Push(t)

Main ==
  \/ AttachEntry \/ AttachReturn
  \/ Take \/ PrintEvent \/ TakeNone \/ SelectAfter \/ SelectDone
  \/ CloseEntry \/ CloseReturn

Next ==
  \/ \E t \in Threads : ReadUntraced(t) \/ ReadTraced(t) \/ ReadLate(t) \/ Probe(t)
  \/ Main \/ AttachFails \/ Signal

Spec == Init /\ [][Next]_tracerVars

(***************************************************************************)
(* main keeps running; a select with both cases ready picks one at random, *)
(* so it does not for ever ignore the context; probes run to their end.    *)
(***************************************************************************)
FairSpec ==
  /\ Spec
  /\ WF_tracerVars(Main) /\ SF_tracerVars(SelectDone)
  /\ \A t \in Threads : WF_tracerVars(pc[t] \in InReturn /\ Probe(t))
-----------------------------------------------------------------------------
(* Every variable has its type. *)
EventType == [proc : Procs, start : Nat, read : Nat]

TypeOK ==
  /\ phase \in {"loaded", "entry", "both", "closing", "off"}
  /\ slots \in [Slots -> [proc : Procs \cup {NoProc}, start : Nat]]
  /\ queue \in Seq(EventType) /\ Len(queue) <= QueueSize
  /\ pc \in [Threads -> {"idle", "reading"} \cup InReturn]
  /\ rd \in [Threads -> Nat]
  /\ hooked \in [Threads -> BOOLEAN]
  /\ at \in [Threads -> Slots]
  /\ start \in [Threads -> Nat]
  /\ reads \in Nat
  /\ consumer \in {"out", "poll", "print", "select", "closing", "stopped"}
  /\ signalled \in BOOLEAN
  /\ unpaired \subseteq Procs
  /\ refused \subseteq Nat /\ late \subseteq Nat

SingleThreaded(p) == \A t, u \in Threads : ProcOf[t] = p /\ ProcOf[u] = p => t = u

(***************************************************************************)
(* The latency reported for a read of a single-threaded process is that    *)
(* read's own, provided no earlier read of the process went without its    *)
(* do_return (vfs_read_latency.c do_entry, do_return; bpf.go Attach).      *)
(***************************************************************************)
ExactWhenSingleThreaded ==
  \A i \in 1 .. Len(queue) :
    LET e == queue[i] IN SingleThreaded(e.proc) /\ e.proc \notin unpaired => e.start = e.read

(***************************************************************************)
(* do_return finds no element for such a read, and reports nothing, only   *)
(* when do_entry found read_events full, or when main, after a signal, had *)
(* closed the entry probe before the read began and not yet the return     *)
(* probe (vfs_read_latency.c do_entry, do_return; main.go's deferred       *)
(* closes).  What it does report, a full queue may still drop.             *)
(***************************************************************************)
MissedOnlyFullOrClosing ==
  [][\A t \in Threads :
       /\ pc[t] = "lookup" /\ pc'[t] = "idle"
       /\ SingleThreaded(ProcOf[t]) /\ ProcOf[t] \notin unpaired
       => rd[t] \in refused \/ (rd[t] \in late /\ signalled)]_tracerVars

(***************************************************************************)
(* However the probes of a multi-threaded process interleave on the CPUs,  *)
(* its element never outlives its reads: read_events does not fill up with *)
(* dead entries unless a read went without its do_return.                  *)
(***************************************************************************)
NoStaleEntry ==
  \A p \in Procs \ unpaired :
    SlotsOf(p) # {} =>
      \E t \in Threads : ProcOf[t] = p /\ hooked[t] /\ pc[t] \in {"reading", "lookup", "load", "delete"}

(***************************************************************************)
(* After a signal, main stops once no process reads any more: it looks at  *)
(* its context only when it has found the queue empty (main.go).           *)
(***************************************************************************)
StopsWhenQuiet ==
  signalled /\ reads = MaxReads /\ (\A t \in Threads : pc[t] # "reading") ~> consumer = "stopped"
=============================================================================
