------------------------------- MODULE CaskDB -------------------------------
(***************************************************************************)
(* One zig-caskdb database (src/zig-caskdb/src/db.zig and disk.zig): a     *)
(* single active segment file, the file description that store, load and   *)
(* the open-time scan share, and the in-memory index.                      *)
(*                                                                         *)
(* The process may be killed and restarted at any point; only `file'       *)
(* survives.  store writes outside the mutex, load seeks and reads inside  *)
(* it, so the steps of both are actions of their own.  An absent segment   *)
(* file is the empty file: DB.open creates it and then takes the same path.*)
(***************************************************************************)
EXTENDS SegmentFile

CONSTANTS
  Keys, Vals,        \* the keys and values clients store
  Storers, Loaders,  \* the threads that call store, and the ones that call load
  NoThread,          \* the mutex is free
  MaxStores          \* bound: calls of store over the whole behaviour

Threads == Storers \cup Loaders

ASSUME ClientAssumption ==
  /\ Keys \subseteq Seq(Byte)
  /\ Vals \subseteq Seq(Byte)
  /\ \A k \in Keys, v \in Vals : RecordLen(k, v) \in U32
  /\ NoThread \notin Threads
  /\ MaxStores \in Nat

VARIABLES
  file,       \* the bytes of 0.segment: all that survives a crash
  mode,       \* where the process is: see Modes
  cursor,     \* the offset of the open file description, shared by everyone
  lastPos,    \* CaskFile.lastPos
  index,      \* DB.index: key -> [valuePos, valueSize]
  mutex,      \* DB.mutex: the thread that holds it, or NoThread
  pc, op,     \* per thread: the next step of its store or load, and its locals
  scanPos,    \* readAllEntries' lastPost
  scanned,    \* the entries read so far, as the index they will become
  reply,      \* what the last load returned
  stores      \* calls of store so far

(***************************************************************************)
(* Bookkeeping of the specification, which no action's guard reads.        *)
(***************************************************************************)
VARIABLES
  recs,       \* the records of the file, in order, that an open can still find
  nScanned,   \* how many records the current scan has passed
  torn,       \* the keys of writes that were cut short
  displaced,  \* a load has left the cursor away from the end of the file
  misused     \* a client has stepped outside the protocol of Misuse

scanVars == <<scanPos, scanned, nScanned>>
threadVars == <<mutex, pc, op, reply, stores>>
protocolVars == <<torn, displaced, misused>>
vars == <<file, mode, cursor, lastPos, index, scanVars, threadVars, recs, protocolVars>>

(***************************************************************************)
(* down: no process.  opened: the file is open and seekLast is done.       *)
(* scanning: in readAllEntries.  serving: open returned.  failed: open     *)
(* returned an error.  panicked: a safety check or an assertion aborted    *)
(* the process.                                                            *)
(***************************************************************************)
Modes == {"down", "opened", "scanning", "serving", "failed", "panicked"}

StoreSteps == {"write", "fetch", "advance", "index"}
LoadSteps == {"seek", "read"}

Entry(pos, size) == [valuePos |-> pos, valueSize |-> size]

EmptyIndex == [k \in {} |-> Entry(0, 0)]

(* index.getOrPut followed by the assignment of its entry. *)
Put(ix, key, e) == [k \in DOMAIN ix \cup {key} |-> IF k = key THEN e ELSE ix[k]]

NoOp == [key |-> << >>, value |-> << >>, entry |-> Entry(0, 0), base |-> 0]
NoReply == [key |-> << >>, found |-> FALSE, value |-> << >>]

(* Where the i-th record ends and the next one begins. *)
EndOf(i) == IF i = 0 THEN 0 ELSE recs[i].pos + RecordLen(recs[i].key, recs[i].value)

(* The file holds bytes behind its last whole record. *)
HasTail == Len(file) # EndOf(Len(recs))

Busy(t, steps) == \E u \in Threads \ {t} : pc[u] \in steps

(***************************************************************************)
(* What the code cannot take: a store that starts after a load has moved   *)
(* the shared cursor, or behind a cut-short record, or while another       *)
(* thread is in an operation; a load that starts while a store is running. *)
(***************************************************************************)
StoreMisuse(t) == displaced \/ HasTail \/ Busy(t, StoreSteps \cup LoadSteps)
LoadMisuse(t) == Busy(t, StoreSteps)
-----------------------------------------------------------------------------
Init ==
  /\ file = << >>
  /\ mode = "down"
  /\ cursor = 0 /\ lastPos = 0 /\ scanPos = 0
  /\ index = EmptyIndex /\ scanned = EmptyIndex
  /\ mutex = NoThread
  /\ pc = [t \in Threads |-> "idle"]
  /\ op = [t \in Threads |-> NoOp]
  /\ reply = NoReply
  /\ stores = 0
  /\ recs = << >> /\ nScanned = 0 /\ torn = {}
  /\ displaced = FALSE /\ misused = FALSE
-----------------------------------------------------------------------------
(* DB.open up to buildIndex: seekFromEnd(pos) goes pos bytes past the end. *)
Open ==
  /\ mode = "down"
  /\ mode' = "opened"
  /\ lastPos' = Len(file)
  /\ cursor' = Len(file) + Len(file)
  /\ UNCHANGED <<file, index, scanVars, threadVars, recs, protocolVars>>

(* Mutant: readAllEntries does not seek to the start. *)
ScanStartNoRewind ==
  /\ mode = "opened"
  /\ mode' = "scanning"
  /\ scanPos' = 0 /\ scanned' = EmptyIndex /\ nScanned' = 0
  /\ UNCHANGED <<file, cursor, lastPos, index, threadVars, recs, protocolVars>>

(* readAllEntries starts: seekTo(0). *)
ScanStart ==
  /\ mode = "opened"
  /\ mode' = "scanning"
  /\ cursor' = 0 /\ scanPos' = 0 /\ scanned' = EmptyIndex
  /\ nScanned' = 0
  /\ UNCHANGED <<file, lastPos, index, threadVars, recs, protocolVars>>

(* The scan is over: buildIndex makes its entries the index and open returns. *)
Serve ==
  /\ mode' = "serving"
  /\ index' = scanned
  /\ UNCHANGED <<file, lastPos, scanVars, threadVars, protocolVars>>

(* Mutant: only the exact end of the file ends the loop. *)
ScanEndExact ==
  /\ mode = "scanning"
  /\ cursor = Len(file)
  /\ Serve
  /\ UNCHANGED <<cursor, recs>>

(* Fewer than four bytes are left for keySize: EndOfStream ends the loop. *)
ScanEnd ==
  /\ mode = "scanning"
  /\ ~HasInt(file, cursor)
  /\ cursor' = IF cursor < Len(file) THEN Len(file) ELSE cursor
  /\ Serve
  /\ UNCHANGED recs

(* Mutant: keySize = 1 is taken for the end as well. *)
ScanEmptyKeyOrOne ==
  /\ mode = "scanning"
  /\ HasInt(file, cursor) /\ IntAt(file, cursor) <= 1
  /\ cursor' = cursor + IntBytes
  /\ Serve
  /\ recs' = IF nScanned <= Len(recs) THEN SubSeq(recs, 1, nScanned) ELSE recs

(* keySize = 0 ends the loop too; what lies behind it is forgotten. *)
ScanEmptyKey ==
  /\ mode = "scanning"
  /\ HasInt(file, cursor) /\ IntAt(file, cursor) = 0
  /\ cursor' = cursor + IntBytes
  /\ Serve
  /\ recs' = IF nScanned <= Len(recs) THEN SubSeq(recs, 1, nScanned) ELSE recs

ScanKeySize == IntAt(file, cursor)
ScanValueSize == IntAt(file, cursor + IntBytes)

(* Mutant: the valueSize field is left out of the value's position. *)
ScanValuePosShort == scanPos + IntBytes + ScanKeySize

ScanValuePos == scanPos + HeaderLen + ScanKeySize

(* Mutant: the key is left out. *)
ScanNextNoKey == scanPos + HeaderLen + ScanValueSize

ScanNext == ScanValuePos + ScanValueSize

(* keySize is there and positive; valueSize and the whole key may follow or not. *)
ScanReadsKeySize == mode = "scanning" /\ HasInt(file, cursor) /\ ScanKeySize # 0
ScanReadsKey ==
  /\ HasInt(file, cursor + IntBytes)
  /\ cursor + HeaderLen + ScanKeySize <= Len(file)

(* valueSize ends early (EndOfStream) or the key does (InvalidSegmentFile). *)
ScanFail ==
  /\ ScanReadsKeySize /\ ~ScanReadsKey
  /\ mode' = "failed"
  /\ UNCHANGED <<file, cursor, lastPos, index, scanVars, threadVars, recs, protocolVars>>

(* The u32 positions of the scan overflow: a safety check panics. *)
ScanOverflow ==
  /\ ScanReadsKeySize /\ ScanReadsKey
  /\ ScanNext > U32Max
  /\ mode' = "panicked"
  /\ UNCHANGED <<file, cursor, lastPos, index, scanVars, threadVars, recs, protocolVars>>

(* One record: its entry replaces an older one of the key; seekTo(lastPost). *)
ScanRecord ==
  /\ ScanReadsKeySize /\ ScanReadsKey
  /\ ScanNext <= U32Max
  /\ scanned' = Put(scanned, ReadAt(file, cursor + HeaderLen, ScanKeySize),
                    Entry(ScanValuePos, ScanValueSize))
  /\ scanPos' = ScanNext
  /\ cursor' = ScanNext
  /\ nScanned' = nScanned + 1
  /\ UNCHANGED <<file, mode, lastPos, index, threadVars, recs, protocolVars>>
-----------------------------------------------------------------------------
(* store: serialize, and work out where the value will be. *)
StoreStart(t, k, v) ==
  /\ mode = "serving" /\ pc[t] = "idle"
  /\ stores < MaxStores
  /\ stores' = stores + 1
  /\ op' = [op EXCEPT ![t] = [key |-> k, value |-> v,
                              entry |-> Entry(lastPos + HeaderLen + Len(k), Len(v)),
                              base |-> 0]]
  /\ pc' = [pc EXCEPT ![t] = "write"]
  /\ misused' = (misused \/ StoreMisuse(t))
  /\ UNCHANGED <<file, mode, cursor, lastPos, index, scanVars, mutex, reply, recs, torn, displaced>>

(* CaskFile.write: writeAll at wherever the cursor is ... *)
StoreWrite(t) ==
  LET data == Serialize(op[t].key, op[t].value) IN
  /\ mode = "serving" /\ pc[t] = "write"
  /\ file' = WriteAt(file, cursor, data)
  /\ cursor' = cursor + Len(data)
  /\ pc' = [pc EXCEPT ![t] = "fetch"]
  /\ recs' = Append(recs, [key |-> op[t].key, value |-> op[t].value, pos |-> EndOf(Len(recs))])
  /\ UNCHANGED <<mode, lastPos, index, scanVars, mutex, op, reply, stores, protocolVars>>

(* ... or a write(2) of it fails after n bytes, and store returns the error. *)
StoreWriteFail(t, n) ==
  LET data == Serialize(op[t].key, op[t].value) IN
  /\ mode = "serving" /\ pc[t] = "write"
  /\ n < Len(data)
  /\ file' = WriteAt(file, cursor, SubSeq(data, 1, n))
  /\ cursor' = cursor + n
  /\ pc' = [pc EXCEPT ![t] = "idle"]
  /\ torn' = IF n > 0 THEN torn \cup {op[t].key} ELSE torn
  /\ UNCHANGED <<mode, lastPos, index, scanVars, mutex, op, reply, stores, recs, displaced, misused>>

(* CaskFile.write: lastPos += data.len, which no lock makes one step. *)
StoreFetch(t) ==
  /\ mode = "serving" /\ pc[t] = "fetch"
  /\ op' = [op EXCEPT ![t].base = lastPos]
  /\ pc' = [pc EXCEPT ![t] = "advance"]
  /\ UNCHANGED <<file, mode, cursor, lastPos, index, scanVars, mutex, reply, stores, recs, protocolVars>>

StoreAdvance(t) ==
  /\ mode = "serving" /\ pc[t] = "advance"
  /\ lastPos' = op[t].base + RecordLen(op[t].key, op[t].value)
  /\ pc' = [pc EXCEPT ![t] = "index"]
  /\ UNCHANGED <<file, mode, cursor, index, scanVars, mutex, op, reply, stores, recs, protocolVars>>

(* valPos does not fit KeyDirEntry.valuePos: @intCast panics. *)
StoreOverflow(t) ==
  /\ mode = "serving" /\ pc[t] = "index"
  /\ op[t].entry.valuePos > U32Max
  /\ mode' = "panicked"
  /\ UNCHANGED <<file, cursor, lastPos, index, scanVars, threadVars, recs, protocolVars>>

(* updateIndex, under the mutex. *)
StoreIndex(t) ==
  /\ mode = "serving" /\ pc[t] = "index"
  /\ op[t].entry.valuePos <= U32Max
  /\ mutex = NoThread
  /\ index' = Put(index, op[t].key, op[t].entry)
  /\ pc' = [pc EXCEPT ![t] = "idle"]
  /\ UNCHANGED <<file, mode, cursor, lastPos, scanVars, mutex, op, reply, stores, recs, protocolVars>>

(* load of a key that is not in the index: NotFound. *)
LoadMissing(t, k) ==
  /\ mode = "serving" /\ pc[t] = "idle"
  /\ mutex = NoThread
  /\ k \notin DOMAIN index
  /\ reply' = [key |-> k, found |-> FALSE, value |-> << >>]
  /\ misused' = (misused \/ LoadMisuse(t))
  /\ UNCHANGED <<file, mode, cursor, lastPos, index, scanVars, mutex, pc, op, stores, recs, torn, displaced>>

(* Mutant: load does not lock the mutex. *)
LoadStartUnlocked(t, k) ==
  /\ mode = "serving" /\ pc[t] = "idle"
  /\ k \in DOMAIN index
  /\ op' = [op EXCEPT ![t] = [key |-> k, value |-> << >>, entry |-> index[k], base |-> 0]]
  /\ pc' = [pc EXCEPT ![t] = "seek"]
  /\ misused' = (misused \/ LoadMisuse(t))
  /\ UNCHANGED <<file, mode, cursor, lastPos, index, scanVars, mutex, reply, stores, recs, torn, displaced>>

(* load: lock the mutex and look the key up. *)
LoadStart(t, k) ==
  /\ mode = "serving" /\ pc[t] = "idle"
  /\ mutex = NoThread
  /\ k \in DOMAIN index
  /\ mutex' = t
  /\ op' = [op EXCEPT ![t] = [key |-> k, value |-> << >>, entry |-> index[k], base |-> 0]]
  /\ pc' = [pc EXCEPT ![t] = "seek"]
  /\ misused' = (misused \/ LoadMisuse(t))
  /\ UNCHANGED <<file, mode, cursor, lastPos, index, scanVars, reply, stores, recs, torn, displaced>>

(* seekPosAndRead: seekTo(pos) *)
LoadSeek(t) ==
  /\ mode = "serving" /\ pc[t] = "seek"
  /\ cursor' = op[t].entry.valuePos
  /\ pc' = [pc EXCEPT ![t] = "read"]
  /\ displaced' = TRUE
  /\ UNCHANGED <<file, mode, lastPos, index, scanVars, mutex, op, reply, stores, recs, torn, misused>>

LoadBytes(t) == ReadAt(file, cursor, op[t].entry.valueSize)

(* seekPosAndRead: readAll gets nBytes, as the assertion wants; unlock. *)
LoadRead(t) ==
  /\ mode = "serving" /\ pc[t] = "read"
  /\ Len(LoadBytes(t)) = op[t].entry.valueSize
  /\ cursor' = cursor + op[t].entry.valueSize
  /\ reply' = [key |-> op[t].key, found |-> TRUE, value |-> LoadBytes(t)]
  /\ mutex' = NoThread
  /\ pc' = [pc EXCEPT ![t] = "idle"]
  /\ displaced' = (cursor' # Len(file))
  /\ UNCHANGED <<file, mode, lastPos, index, scanVars, op, stores, recs, torn, misused>>

(* readAll gets fewer: std.debug.assert(nSize == nBytes) panics. *)
LoadAssertFails(t) ==
  /\ mode = "serving" /\ pc[t] = "read"
  /\ Len(LoadBytes(t)) # op[t].entry.valueSize
  /\ mode' = "panicked"
  /\ UNCHANGED <<file, cursor, lastPos, index, scanVars, threadVars, recs, protocolVars>>
-----------------------------------------------------------------------------
(* The process is gone, and everything but the file with it. *)
GoDown ==
  /\ mode' = "down"
  /\ cursor' = 0 /\ lastPos' = 0 /\ scanPos' = 0 /\ nScanned' = 0
  /\ index' = EmptyIndex /\ scanned' = EmptyIndex
  /\ mutex' = NoThread
  /\ pc' = [t \in Threads |-> "idle"]
  /\ op' = [t \in Threads |-> NoOp]
  /\ reply' = NoReply
  /\ displaced' = FALSE
  /\ UNCHANGED <<file, stores, recs, torn, misused>>

(* DB.close, by a caller whose threads have finished. *)
Close ==
  /\ mode = "serving"
  /\ \A t \in Threads : pc[t] = "idle"
  /\ GoDown

(* The process dies: killed at any step, or after a panic or a failed open. *)
Crash ==
  /\ mode # "down"
  /\ GoDown

StoreNext(t) ==
  \/ \E k \in Keys, v \in Vals : StoreStart(t, k, v)
  \/ StoreWrite(t)
  \/ \E n \in 0 .. RecordLen(op[t].key, op[t].value) : StoreWriteFail(t, n)
  \/ StoreFetch(t)
  \/ StoreAdvance(t)
  \/ StoreOverflow(t)
  \/ StoreIndex(t)

LoadNext(t) ==
  \/ \E k \in Keys : LoadMissing(t, k) \/ LoadStart(t, k)
  \/ LoadSeek(t)
  \/ LoadRead(t)
  \/ LoadAssertFails(t)

ScanNextStep == ScanStart \/ ScanEnd \/ ScanEmptyKey \/ ScanFail \/ ScanOverflow \/ ScanRecord

Next ==
  \/ Open
  \/ ScanNextStep
  \/ \E t \in Storers : StoreNext(t)
  \/ \E t \in Loaders : LoadNext(t)
  \/ Close \/ Crash

Spec == Init /\ [][Next]_vars

(* The thread in DB.open is never blocked, so it keeps taking steps until it is killed. *)
FairSpec == Spec /\ WF_vars(ScanNextStep)
-----------------------------------------------------------------------------
(* Every variable has the type the code declares for it. *)
EntryType == [valuePos : Nat, valueSize : U32]

IsIndex(ix) ==
  /\ DOMAIN ix \subseteq Seq(Byte)
  /\ \A k \in DOMAIN ix : ix[k] \in EntryType /\ ix[k].valuePos \in U32

OpType == [key : Seq(Byte), value : Seq(Byte), entry : EntryType, base : Nat]
RecType == [key : Seq(Byte), value : Seq(Byte), pos : Nat]

TypeOK ==
  /\ file \in Seq(Byte)
  /\ mode \in Modes
  /\ cursor \in Nat /\ lastPos \in Nat /\ scanPos \in Nat
  /\ IsIndex(index) /\ IsIndex(scanned)
  /\ mutex \in Threads \cup {NoThread}
  /\ pc \in [Threads -> {"idle"} \cup StoreSteps \cup LoadSteps]
  /\ op \in [Threads -> OpType]
  /\ reply \in [key : Seq(Byte), found : BOOLEAN, value : Seq(Byte)]
  /\ stores \in Nat
  /\ recs \in Seq(RecType) /\ nScanned \in Nat
  /\ torn \subseteq Seq(Byte)
  /\ displaced \in BOOLEAN /\ misused \in BOOLEAN

(* The i-th record is the newest one of its key. *)
IsLatest(i) == \A j \in (i + 1) .. Len(recs) : recs[j].key # recs[i].key

(***************************************************************************)
(* While clients keep to the protocol, the index of an open database leads *)
(* from every key to the value of its newest record, and from no other key *)
(* to anything: after any number of stores, crashes and scans.  The one    *)
(* exception is the key of a write that was cut short.  (db.zig store,     *)
(* updateIndex, buildIndex; disk.zig readAllEntries.)                      *)
(***************************************************************************)
IndexPointsAtLatest ==
  mode = "serving" /\ ~misused /\ (\A t \in Threads : pc[t] \notin {"fetch", "advance", "index"}) =>
    /\ \A i \in 1 .. Len(recs) :
         IsLatest(i) /\ recs[i].key \notin torn =>
           /\ recs[i].key \in DOMAIN index
           /\ LET e == index[recs[i].key]
              IN  ReadAt(file, e.valuePos, e.valueSize) = recs[i].value
    /\ \A k \in DOMAIN index : k \in torn \/ \E i \in 1 .. Len(recs) : recs[i].key = k

(***************************************************************************)
(* While clients keep to the protocol, what load returns is the newest     *)
(* value stored under the key it was asked for, however many loads of      *)
(* other threads move the shared offset between its own steps (db.zig      *)
(* load's mutex).                                                          *)
(***************************************************************************)
LoadsAnswerLatest ==
  [][\A t \in Loaders :
       pc[t] = "read" /\ pc'[t] = "idle" /\ mode' = "serving" /\ ~misused /\ op[t].key \notin torn =>
         \E i \in 1 .. Len(recs) :
           IsLatest(i) /\ recs[i].key = op[t].key /\ reply'.value = recs[i].value]_vars

(***************************************************************************)
(* Open puts the cursor, which seekLast sent to twice the file's length,   *)
(* back to the end, and stores keep it and lastPos there until a load or a *)
(* failed write moves it: so a store's record is where its entry says.     *)
(***************************************************************************)
CursorAtEnd ==
  mode = "serving" /\ ~misused /\ ~HasTail /\ ~displaced /\ (\A t \in Threads : pc[t] = "idle") =>
    cursor = Len(file) /\ lastPos = Len(file)

(***************************************************************************)
(* A database whose clients kept to the protocol opens again after any     *)
(* crash, unless a write was cut short or its records have outgrown the    *)
(* u32 positions; no assertion or cast fails before that either.           *)
(***************************************************************************)
OpensUnlessTornOrTooLong ==
  ~misused /\ mode \in {"failed", "panicked"} =>
    torn # {} \/ (mode = "panicked" /\ EndOf(Len(recs)) > U32Max)

(***************************************************************************)
(* An acknowledged record is lost to later opens only by a scan that meets *)
(* a record with an empty key, and then exactly from that record on        *)
(* (readAllEntries takes keySize = 0 for the end of the file).             *)
(***************************************************************************)
OnlyEmptyKeyForgets ==
  [][~misused /\ recs' # recs =>
       \/ \E r \in [key : Keys, value : Vals, pos : {EndOf(Len(recs))}] : recs' = Append(recs, r)
       \/ /\ Len(recs') < Len(recs)
          /\ recs' = SubSeq(recs, 1, Len(recs'))
          /\ recs[Len(recs') + 1].key = << >>]_vars

(***************************************************************************)
(* std.debug.assert(nSize == nBytes) (disk.zig:116) holds whenever a load  *)
(* reaches it, in every database whose writes were all completed, whatever *)
(* order its one thread calls store and load in.                           *)
(***************************************************************************)
LoadAssertHolds ==
  torn = {} => \A t \in Threads :
    mode = "serving" /\ pc[t] = "read" => Len(LoadBytes(t)) = op[t].entry.valueSize

(***************************************************************************)
(* Whatever bytes it finds - cut-short records, or records that stores     *)
(* outside the protocol have overwritten - readAllEntries comes to an end. *)
(***************************************************************************)
OpenTerminates == mode = "opened" ~> mode \notin {"opened", "scanning"}
=============================================================================
