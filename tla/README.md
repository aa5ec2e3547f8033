# Verification of case-study: zig-caskdb, the vfs_read tracer and zigredis

The repository is a collection of small programs. Three of them have state that
several steps, processes or machines share, and are what this project is about:

* **zig-caskdb** (`src/zig-caskdb/src`), a Bitcask-style key-value store;
* **vfs_read latency tracer** (`src/ebpf-cilium-golang-vfs-read-latency`), two
  eBPF probes and a Go process that prints what they measure;
* **zigredis** (`src/zigredis/src`), a redis prompt, with the copy of linenoise
  it is built with (`include/linenoise.c`), most of the repository's C code.

Two smaller ones are modelled beside them: the kafka consumer's shutdown
(`src/test-kafka/main.go`) and the s8 strings (`src/c-string/cstring.c`).

## Inventory

| part | state | operations | what is hard about it |
|---|---|---|---|
| caskdb store engine (`db.zig`, `disk.zig`) | the segment file, one file description with its offset, `lastPos`, the index, a mutex | `store`, `load`, `open` (scan of the file), `close` | the offset is shared by the scan, `load` and `store`; `store` writes outside the mutex; a crash or a failed write cuts a record; positions are u32 |
| caskdb directory (`dir.zig`, `db.zig` open/close, `main.zig`) | the flock on `1.lock`, directory and file handles | `lock`, `open`, `close`, exit | processes racing for an empty directory; failures half way through `open`; a lock descriptor nobody closes |
| tracer probes (`vfs_read_latency.c`) | hash map `read_events` (per process), queue `result_events` | `do_entry`, `do_return` | the probes run on all CPUs; the map's element can be deleted and reused between lookup and use; both maps are bounded |
| tracer process (`main.go`, `bpf.go`) | links, context | attach, drain, signal, detach | the entry probe is attached first; the context is only looked at when the queue is empty |
| redis client (`client.zig`, `main.zig`, `req.zig`, `rsp.zig`) | the connection, the read buffer | `sendTo`, `read`, `parse`, `serialize`, the prompt loop | short writes, reconnects, timeouts with late answers, replies in pieces |
| line editor (`linenoise.c`) | buffer, length and cursor; the history array with the session's own entry in it; completion index; terminal settings and the saved ones | one call per key; start and stop of a session; completion; browsing | every key moves bytes in a fixed buffer; browsing rewrites the history; completions are asked for again at every key; `tcsetattr` may be refused |
| line drawing (`linenoise.c`) | the screen, the cursor and row count of the last refresh | refresh in one or several rows, hints, hide, show, clear | what has to be erased depends on what the last refresh left; the right margin |
| terminal width (`linenoise.c`) | input shared by answers and keys | `getColumns` | answers arrive among keys, before raw mode is on |
| history file (`linenoise.c`, `history.zig`) | `history.txt` | load at start, rewrite after every command | crash between truncation and rewrite; two clients; unchecked writes; lines that do not survive the format |
| input without a terminal (`linenoise.c`) | a growing allocation | `linenoiseNoTTY`, `fgets` | growth at the boundary, end of file without a newline, lines in pieces |
| kafka consumer (`test-kafka/main.go`) | a reader, a quit channel | consume, quit | a blocking read against a quit signal |
| `go-context`, `go-http-timeout-patch` | a context with a deadline | timed calls | which of several timeouts comes first |
| `find-func-entry-exit`, `c-string`, `utils/pahole.py`, `pcinttab` | none | pure functions | boundary cases |

The parts meet only inside each program: `store`, `load` and the open-time scan
meet in the file description; processes meet in the directory; the probes meet
each other and the Go process in the two maps; the redis prompt calls the command
parser, the connection and the reply parser in turn, and meets the server in the
two directions of one TCP stream. The prompt calls `linenoise()` for each line;
inside it the editor calls back `completionCallback`, shares the history array
with `saveHistory`, and shares the terminal with the user and the rest of the
program.

## Modules

| module | models | notes |
|---|---|---|
| `SegmentFile` | the bytes of a segment file, `FileEntry.serialize`, `writeAll` and `readAll` at an offset | operators only; the width of a u32 and the byte alphabet are constants |
| `CaskDB` (extends `SegmentFile`) | `db.zig`, `disk.zig` | the state machine of one database and its threads |
| `KVStore` | what a client is promised | abstract: a durable map |
| `CaskKV` (extends `CaskDB`) | the refinement mapping from `CaskDB` to `KVStore` | for clients that never store the empty key |
| `CaskDir` | `dir.zig`, `DB.open`, `DB.close`, `main` | any number of processes on one directory |
| `VfsReadLatency` | `vfs_read_latency.c`, `bpf.go`, `main.go` | probes on any CPU, and the Go process |
| `RedisRequest` | `req.zig` | operators from the words typed to the request, and the two calls in their order |
| `RedisReply` | `rsp.zig` | operators: from the bytes read to the reply shown |
| `RedisSession` | `client.zig`, the loop of `main.zig` | state machine; `WireOf` and `ParseOf` are parameters |
| `MCCaskDB`, `MCCaskKV`, `MCVfsReadLatency` | instances for TLC | |
| `ReplyReader` (extends `RedisReply`) | the call of `parse` in `main.zig`, after a server's reply and a read | the replies a server sends, cut anywhere, and what each should give |
| `PureFunctions` | `RedisRequest`, `ReplyReader` and `S8String` side by side, with their assumptions | they share nothing |
| `MCPureFunctions` (extends `PureFunctions`) | the three in one run | `part` says which of them is being tried |
| `MCRedisSession` | `RedisSession` composed with `RedisReply` | |
| `LineBuffer` | the editing functions on `buf`, `len`, `pos` | operators; memory that was never written is `Junk`, past the buffer nothing is writable |
| `LineHistory` | `linenoiseHistoryAdd`, `linenoiseHistorySetMaxLen` | operators on a sequence of lines |
| `LineEditor` | what a key is promised to do | abstract: a text and a cursor |
| `LinePrompt` (extends `LineBuffer`, `LineHistory`) | `linenoiseEditStart`, `EditFeed`, `EditStop`, `completeLine`, `linenoiseEditHistoryNext`, raw mode, exit | state machine; refines `LineEditor` |
| `RedisCompletion` | `setupCompletion`, `completionCallback` of `main.zig` | operators |
| `Terminal` | a VT100 with pending wrap | external |
| `LineScreen` (extends `Terminal`) | the refresh functions, hints, hide and show | state machine |
| `TerminalWidth` | `getColumns`, `getCursorPosition` | state machine; terminal, tty driver and user external |
| `HistoryFile` (extends `LineHistory`) | `linenoiseHistorySave`, `linenoiseHistoryLoad`, `saveHistory`, their callers | state machine of several clients |
| `LineSource` | `linenoise()` on a pipe or a dumb terminal | state machine |
| `S8String` | `cstring.c` | state machine over one memory |
| `KafkaConsumer` | `test-kafka/main.go` | state machine of main and the goroutine |
| `RedisPrompt` (extends `LinePrompt`) | the editor composed with `RedisCompletion` | |
| `MCLinePrompt` (extends `RedisPrompt`) | instance for TLC | |
| `MCLineScreen` | instance for TLC | |
| `LineIO` (extends `HistoryFile`) | `HistoryFile`, `LineSource` and `TerminalWidth` side by side, with their assumptions | they share nothing |
| `MCLineIO` (extends `LineIO`) | the three in one run | `part` says which of them runs |
| `CaskDBProofs`, `CaskDirProofs`, `VfsReadLatencyProofs`, `RedisSessionProofs`, `LinePromptProofs`, `LineScreenProofs`, `LineIOProofs`, `SmallProgramsProofs` | lemmas and theorems | the first is about `CaskKV` too, the last about the consumer, the requests and the strings |

Definitions marked *Mutant* are plausible bugs of the definition that follows
them; each shows that a property can fail. No specification uses them.

### CaskDB

`file` is the one variable that survives `Crash` and `Close`. A record is written
as bytes: two size fields, key and value. `cursor` is the offset of the open file
description: `LoadSeek`, `StoreWrite` and the scan all move it. `StoreStart` to
`StoreIndex` are the steps of `DB.store` in the order of the code: the value's
position is computed from `lastPos`, then `writeAll`, then `lastPos += len`
(two steps, nothing makes it atomic), then the checked cast to u32
(`StoreOverflow`), then the index under the mutex. `LoadStart` to `LoadRead` are
`DB.load`; a short `readAll` is `LoadAssertFails`. The scan, `readAllEntries`, is
one action per record, so that crashes fall between records and so that what it
computes can be proved by an invariant instead of by recursion.

A write that fails and a process that is killed in `write(2)` leave the same
bytes: `StoreWriteFail` writes any proper prefix, and `Crash` may follow.
Losing page-cache contents (power failure) is not modelled; the code never syncs.
Allocation failures and read errors of the device are left out.

Ghost variables, which no guard reads: `recs` lists the records of the file in
order, `torn` the keys of cut-short writes, `displaced` whether a load has left
the offset away from the end, `misused` whether a client has done what the code
cannot take: store after such a load, store behind a cut-short record, or run a
store next to another operation. The first of these is ordinary use, and the run
`cask_assert_seq` shows what it leads to; the properties of the passing runs say
what does hold without it.

### CaskDir

One program counter per process, through `Dir.init`, `openat`, `flock`, the
listing, create or open, scan, use, close and exit. A handle is `none`, `open` or
`closed`; closing a closed handle is a panic, since std treats `EBADF` as
unreachable in the safe builds. The lock is released by exit only, because
`Dir.lockFd` is never assigned.

### VfsReadLatency

A timestamp is the number of the read that took it. An element of `read_events`
is a slot; `do_return` keeps the slot number across the helper calls in between,
and reads its content at the step of `*val`. The kernel's kretprobe follows at
most `MaxActive` reads and misses the return of any other (`CanFollow`). The entry
probe is attached first and detached first. In the first window a read is traced
(`ReadTraced`) and its return is not; in the second (`phase = "closing"`) a read
starts untraced and still runs into `do_return` (`ReadLate`), where it finds no
element, or one that another thread of its process has put there. `unpaired`,
`refused` and `late` are ghosts: processes with a read that had no `do_return`, reads
that found the map full, and reads begun in the second window.
`MissedOnlyFullOrClosing` is about what `do_return` finds; an event that it reports
may still be dropped by a full queue, which `Push` does.

### RedisRequest, RedisReply and ReplyReader

The two parsers are pure functions, written as operators; `ParseStep` and
`SerializeStep` of `RedisRequest` are the calls `main` makes for a line, `ParseStep` of
`ReplyReader` is the one it makes for what a read returned. `Serialize` prints the header
and each bulk behind the last, as `bufPrint` does, and fails at the first that the 2048
bytes do not hold; `WireLen` says what a line takes, and `WellFormedIsSent` that a line
with what its command needs is accepted exactly up to 127 arguments and serialized
exactly up to 2048 bytes. The 128th argument panics. `RedisRequest!Parse` follows the
branches of `parse` and `parseHelper`; a word's text matters only through its
length and through being a command name, in any case. `RedisReply!Parse` works on
bytes, with CR and LF apart, because a read may end between them; a line is found, as
by the tokenizer, from the index its iterator has (`LineFrom`, `Passed`). It keeps the
behaviours that matter for cut replies: the tokenizer loses empty lines, lines
before the first recognisable one are passed over, a length that does not parse
counts as nil inside an array, and an array that fails after its first item
reaches the errdefers that free `res` before reading it (`use after free`). Lengths are
decimal digits on the wire and are read back as `parseInt` reads them; they fit its
integers (`LengthsAssumption`). A server's texts are any sequences of symbols, and
`Plain` are those that the tokenizer leaves whole.

### RedisSession

`pc` is where `main` is in its loop: connecting, at the prompt, in `sendTo`, in
`read`, parsing, or gone. What one `write(2)` takes of the request is a *block*:
the code writes from the beginning of the buffer at every turn, so a block is
always a prefix of the request, and only a block of full length is a request to
the server. `conn` is the client's view of the socket: after the other end's FIN
writes still succeed and provoke a reset; after a reset writes give a broken pipe.
`Reconnect` is the recursive call of `sendTo`, after which the program always
ends, since the outer call returns the error. A line that `parse` refuses changes
nothing and is not an action. The history file is the subject of `HistoryFile`.

The server and the network are external: the server executes a whole request and
sends its reply, answers something when it meets half a request, and may close at
any time. Reads return any prefix of what was sent.

`short` and `split` are ghosts: a write took less than the request, a read
returned less than the server had sent. Both are legal outcomes of the system
calls that the code does not handle; what holds without them is stated by
`StartsInSync` and `ShownIsTheAnswer`, `AtMostOnce` holds regardless.

### LinePrompt, LineBuffer and LineEditor

`l` is the C buffer with its length and cursor, as bytes with a terminator and
whatever was in memory behind it, so that an editing function that moves one byte
too few or too many shows. `history` is the array; while a line is edited its last
element is the session's own (`linenoiseEditStart` pushes it, Enter and Ctrl-D on
an empty line pop it). One action `EditFeed(k)` is one call of `linenoiseEditFeed`:
completion first, then the switch on the key. An escape sequence is read by the
same call, so it is the key `esc` with a tail. `phase` is where the program is:
`idle` between calls, `editing`, `stopping` between `EditFeed`'s result and
`EditStop`, `exited`, or `undefined` after `history[-1]` was freed. Without
completions the callback gives an empty list, which `completeLine` answers with a
beep and the key itself.

`TtyMayFail` lets `tcsetattr` fail and `NulKey` adds the key that sends byte 0. The
code handles neither. `refused` and `own` are ghosts that say what went wrong:
the terminal has refused a setting, and the session came as far as
`linenoiseHistoryAdd` (it has not if `enableRawMode` failed and `linenoiseEditStart`
returned before, which its caller ignores). `CookedOutside` and `HistoryKept` are
conditional on them; the other properties hold regardless. `NulKey` is FALSE in the
run and in the proofs, since byte 0 ends the C string early. `kept`, `visited` and
`typed` are ghosts too.

`kept` is what the session owes the program, `Owed` of the history that it finds:
all of it, less the oldest line when the array is full, and with one more exception.
`linenoiseHistoryAdd` drops a line that equals the newest one, so a session that finds
an empty line there pushes nothing, edits that line as if it were its own, and Enter
frees it. Such a line comes from a session that Ctrl-C ended (the run has it) or from
a blank line in `history.txt`; the client itself adds no empty line, since it does not
parse. `CompletionsFit` says that completions are shorter than the
buffer, which `completeLine` relies on.

`LineEditor` says what each key is for: it has a text and a cursor and no buffer.
`KeysAsPromised` maps `LineOf(l)` and `l.pos` to them.

### LineScreen and TerminalWidth

`Terminal` is a sheet of cells and a cursor with the VT100's pending wrap.
`LineScreen` produces the operations the refresh functions write and compares the
sheet with what should be on it. Which edits change the line is left to
`LinePrompt`: here any byte, part or whole line may change, as long as it fits the buffer
(`LinesFit`). `mode` is what the program has set before the line: `mlmode`, `maskmode` and the hints callback. The prompt has between
one byte and a column less than the terminal (`PromptAssumption`): an empty one is
drawn a column too far, and a wider one takes `refreshSingleLine` below zero.

In `TerminalWidth` the terminal's answers and the user's keys arrive in one input,
directly in raw mode, line by line in cooked mode, where `linenoiseEditStart` normally
calls `getColumns`. Raw is what it finds when the program that started it left the
terminal raw, or after a refused restore. An answer is its bytes, but for the row and
its semicolon, which are one; a digit of the column carries the number that the digits
up to it make, and `ColumnRead` is what `sscanf` takes when the rest is missing. A read
that fails is not told from the end of the answer, so a failure between two digits
(`cut`) gives a width that is a beginning of the right one, with success, and leaves the
rest of the column and its R to be read as keys: `WidthIsRight` says that this is the
only way either can happen. Keys that send an ESC are left out (`WidthAssumption`): some
of them look like an answer, `ESC [1;2R` is shift-F3 on xterm.

In `LineScreen` the ghost `above` is what others have written to the rows above the
prompt: the row that is there at the start, and what the program prints while the line
is hidden. `AboveUntouched` compares these rows with it in every column, until Ctrl-L
clears the screen.

### HistoryFile and LineSource

Each client has its own array and its own offset in one file. The stdio buffer is
written in blocks; a failed write (a full disk) loses the rest, and nobody looks at it. A client can exit or be killed in
every state. `Prompt` does to the array what a session does, as `LinePrompt` has
it. `snap`, `torn` and `overlap` are ghosts that say which save the file is from.
`Load` is the loop of `linenoiseHistoryLoad`, as a recursive function of its turns.

`LineSource` reads an input byte by byte with the allocation's size beside the
line; `NoTTYFails` is a failing `realloc`, which ends the program's input early.

### S8String and KafkaConsumer

`S8String` cuts two strings out of one memory, so they may overlap. A read past
the memory gives any byte. `KafkaConsumer` has main and the goroutine; every
external call may fail, `ReadMessage` may never return, a panic of the goroutine
ends the process without main's deferred cleanup.

## Runs

| run | bounds | shows |
|---|---|---|
| `cask_kv` | one storing and two loading threads, 2 keys, 2 values, 3 stores | `ImplementsKVStore`, `CursorAtEnd` |
| `cask_torn` | a storing and loading thread and one that only loads, the empty key and the empty value, 3 stores, size fields of two bytes, positions to 15 | cuts inside size fields and u32 overflow: `IndexPointsAtLatest`, `OpensUnlessTornOrTooLong`, `LoadsAnswerLatest`, `OnlyEmptyKeyForgets`, and that the scan ends (`OpenTerminates`) |
| `cask_assert_seq` | one thread, u32 of one byte (max 15) | violation: store, store, load the first key, store, load: the assertion in `seekPosAndRead` fails |
| `cask_dir` | 3 processes, one open each | `AtMostOneUser`, `CreateNeverCollides`, `ServingClosesCleanly`, `WaitersGetIn` |
| `cask_dir_locked` | 1 process, two opens | violation: it waits for its own lock |
| `vfs_latency` | 2 threads of one process and 1 of another, 4 reads, map of 1, queue of 1, kretprobe for 2 | `ExactWhenSingleThreaded`, `MissedOnlyFullOrClosing`, `NoStaleEntry`, `StopsWhenQuiet` |
| `pure_functions` | replies of every kind and arrays of up to 3 items from 9 (nil, texts that look like replies or a nil, one that ends in CR, one of ten bytes, the empty one, one with a CR LF), cut at every byte; lines of up to 5 words from 9, every command with 120 to 130 values, words of 2026 and 2027 bytes, which make requests of 2048 and 2049; two strings in 3 bytes of memory, letters at the ends of the alphabet and their neighbours | `WholeRepliesAreRight`, `CutIsNoticed`; `TypedIsSent`, `WellFormedIsSent`; `CmpIsOrder` |
| `redis_session` | 2 commands, requests of 2 pieces, 2 replies of 4 and 7 bytes, a buffer of 7, 2 closes | `AtMostOnce`, `StartsInSync`, `ShownIsTheAnswer`, `AnswersOrExits` |
| `line_prompt` | buffer of 3 bytes, keys a letter, a byte above 127, tab and all control keys, history of up to 2, limit 1 set in between, commands in the order long, short, long, `tcsetattr` may fail | `LineWellFormed`, `HistoryKept`, `CompletionStands`, `CookedOutside`, `OffersRight`, `TypedComesBack`, `KeysAsPromised` |
| `line_screen` | 3 columns, lines of up to 5 bytes, 2 recalled lines and 2 previews; single and multi line, plain and masked with a hint | `ScreenShowsLine`, `CursorOnPos`, `AboveUntouched` |
| `line_io` | 2 clients, histories of 2, lines of 1 and 2 bytes and with CR and LF, blocks of 3; inputs of up to 6 bytes over a letter, CR and LF, allocations of 2, 4, 8; 11 columns, which has two digits, a buffer of 7 for an answer of 6, 3 keys out of a letter, R, newline and end of file | `FileIsSaved`, `PlainHistoryReturns`; `InputArrives`; `WidthIsRight` |
| `kafka_stop` | 3 messages | `OneMoreAtMost`, `InterruptEnds` |

A line that fills the buffer, one that is empty and one in between are three
different lengths, hence a buffer of 3; what Ctrl-W tells apart, words and the
spaces between them, needs longer lines and is proved for every length
(`LinePromptProofs`). A history of two has an entry to lose and the session's own.
Lines of 5 bytes behind a prompt of 1 in 3 columns end before, at and behind the
margin. Blocks of 3 cut lines and histories in the middle. The 4096 bytes of a line
and the 31 of an answer are constants of the modules and stand for nothing but their
boundaries.

Two instances leave out combinations that would multiply their states and have no
step of their own (`Focus`). In `MCLinePrompt` all bytes are typed with a history
limit of 1, and with a limit of 2, where browsing and popping need entries and not
their letters, the lines hold tabs only. In `MCLineIO` a line with CR or LF appears
while one client runs.

The real limits of the request (an i8 counter, 2048 bytes) are used as they are.
Two commands are enough for a late or left-over reply to meet the next command,
and two closes for a resend that loses its connection again. Three stores are enough to have two whole records, one of them superseded, and a
third that is cut, misplaced or beyond the u32. A map of one slot makes "full"
and "reused by another process" happen with two processes.

## Fairness

* `OpenTerminates`: the thread in `DB.open` keeps running (nothing blocks it).
* `WaitersGetIn`: `main` is straight-line code, so every step of it is weakly
  fair; `flock` queues its waiters in the kernel, hence strong fairness. No
  fairness on failures and kills. It holds because each process opens once.
* `StopsWhenQuiet`: `main`'s loop runs; Go's `select` picks at random among
  ready cases, hence strong fairness of the context case; probes run to the end.

* `AnswersOrExits`: every system call of the client returns, because the socket
  has timeouts in both directions; no fairness for the server and the network. It
  assumes finitely many resets (`MaxCloses`), since `sendTo` reconnects each time.

* `InterruptEnds`: main is scheduled (weak fairness of its steps). Nothing is
  assumed of the consumer or of `ReadMessage`, which is the point of it.

## Proofs

All constants are arbitrary, under the named assumptions of the modules:
`WidthAssumption`, `CodecAssumption` and `ClientAssumption`; `ProcAssumption`; `TracerAssumption`; `LengthAssumption`,
`BoundAssumption` and `ReplyAssumption`; `BufLenAssumption`, `BytesAssumption`,
`KeysAssumption`, `HistoryAssumption`, `CompletionsFit`, `CommandsAssumption` and
`CallbackAssumption`; `HistoryFileAssumption`, `SourceAssumption` and the
`WidthAssumption` of `LineIO`; `MessagesAssumption`, `WordsAssumption`,
`TextsAssumption`, `LengthsAssumption` and `MemoryAssumption`; `SheetAssumption`, `PromptAssumption`, `ModeAssumption`,
`GlyphsAssumption`, `LinesFit` and `SheetIsEnough`. TLC evaluates each of them for the
values of the runs. `StoreImplemented` has the hypothesis `NonEmptyKeys`, which TLC
evaluates in `MCCaskKV`.

| theorem | states | in |
|---|---|---|
| `IndexCorrect`, `CursorCorrect`, `OpensCorrect`, `LoadsCorrect`, `ForgetsCorrect` | `IndexPointsAtLatest`, `CursorAtEnd`, `OpensUnlessTornOrTooLong`, `LoadsAnswerLatest`, `OnlyEmptyKeyForgets` | `CaskDBProofs` |
| `StoreImplemented` | `ImplementsKVStore` | `CaskDBProofs` |
| `MutualExclusion`, `NoCollision`, `CleanClose` | `AtMostOneUser`, `CreateNeverCollides`, `ServingClosesCleanly` | `CaskDirProofs` |
| `NoStale`, `Exact`, `Missed` | `NoStaleEntry`, `ExactWhenSingleThreaded`, `MissedOnlyFullOrClosing` | `VfsReadLatencyProofs` |
| `NeverTwice`, `InSync`, `RightAnswer` | `AtMostOnce`, `StartsInSync`, `ShownIsTheAnswer` | `RedisSessionProofs` |
| `LineStaysWellFormed`, `CompletionStaysValid`, `TypedLineReturns`, `EditorImplemented`, `HistoryIsKept`, `TerminalIsRestored`, `OffersAreRight` | `LineWellFormed`, `CompletionStands`, `TypedComesBack`, `KeysAsPromised`, `HistoryKept`, `CookedOutside`, `OffersRight` | `LinePromptProofs` |
| `ScreenIsRight`, `CursorIsRight`, `AboveIsKept` | `ScreenShowsLine`, `CursorOnPos`, `AboveUntouched` | `LineScreenProofs` |
| `ColumnsAreRight`, `FileHoldsHistory`, `PlainHistoryComesBack`, `InputIsGiven` | `WidthIsRight`, `FileIsSaved`, `PlainHistoryReturns`, `InputArrives` | `LineIOProofs` |
| `OneMoreMessage`, `CmpCorrect`, `RequestIsTyped`, `WellFormedLinesAreSent`, `WholeRepliesShown`, `CutsAreNoticed` | `OneMoreAtMost`, `CmpIsOrder`, `TypedIsSent`, `WellFormedIsSent`, `WholeRepliesAreRight`, `CutIsNoticed` | `SmallProgramsProofs` |

The arguments, module by module:

* `CaskDBProofs` begins with what `Serialize`, `WriteAt`, `ReadAt` and `IntAt`
  return, and with `TypeCorrect`: types, strengthened by what a running store has in
  its hands (otherwise the bytes it writes are not known to be bytes). `ProtocolInv`
  then says what the index, the offset and the scan do, for any number of keys,
  stores and threads, while the client has not misused the store: the file is the
  concatenation of `recs` and at most one cut-short record behind them (`FileInv`);
  the scan stands between two records and has indexed those before it (`ScanInv`); an
  idle, undisplaced store has `cursor`, `lastPos` and the end of the file together
  (`IdleInv`, `EndInv`); entries lead to the newest records (`IndexInv`); open has
  failed only for a reason in the file (`OpenInv`); and each thread's locals agree
  with the file (`ThreadInv`). It is needed because what the scan of the *next* open
  reads back depends on where every earlier store wrote its bytes. The lemmas
  `RecordReadsBack` and `AppendHolds` carry a record through the writes behind it.
* `CaskDBProofs`, the map: the initial states map to an empty map, and every step to a step of
  `KVStore` or a stutter. A `Put` happens at the write, not at the index
  (`WriteIsPut`): what is in `recs` is what the next open will find. A `Get` is
  right at its last step because `ThreadInv` ties the thread's position to the newest
  record of its key. Beside `ProtocolInv` it needs `LoadKeys`: a load has a key of the
  client in its hands. What releases the store from its promise, a cut-short write of
  the key or misuse, is part of `KVStore` (`unsure`, `void`).
* `CaskDirProofs`: the inductive invariant says that whoever works in the
  directory holds the lock and that handles are not closed before open fails;
  mutual exclusion, the absence of create collisions and the clean close follow.
* `VfsReadLatencyProofs`: `NoStaleEntry` is inductive with the types; exactness
  needs `StampInv`, which follows a read's timestamp from the map's element to
  the local of `do_return`. A followed read of a single-threaded process whose entry
  found room has its own element until its `do_return` deletes it, or began in the
  closing window, which only a signal opens; this gives `Missed`.
* `RedisSessionProofs`: `OnceInv` says that whole requests executed or under way
  belong to different commands, `SendInv` that while `sendTo` is running no whole
  copy of its request has left; together they are inductive and give
  `NeverTwice`. `SyncInv` lists what may be under way in each state of `main`, and
  gives `InSync` and `RightAnswer`. `ReplyAssumption` (the parser understands a
  whole reply and refuses an empty one) is evaluated by TLC for the replies of the run,
  and `ParserServesSession` proves it for `RedisReply` and all replies of plain texts
  without a nil.
* `LinePromptProofs` begins with what each editing function makes of a good line, that
  is a C string of the right length with the cursor inside it: it is good again, and as
  a text it is what the abstract editor says. The loops of Ctrl-W are defined as the
  offset they stop at. `IInv` is inductive if byte 0 is not typed: types, a good line
  at all times, a valid completion index, and what makes `TypedComesBack` hold:
  while browsing has left it, the newest entry is the line that was typed
  (`NewestIsTyped`), and the saved settings are not `unset` in raw mode. The terminal
  may refuse its settings in all that follows from it. `HInv` adds `HistoryKept`, whose
  halves `SlotHeld` and `HistorySurvives` need each other: what Enter leaves is what the
  session owes only if the entry it pops is the one behind that. `TInv` says that, until the terminal refuses something,
  raw mode is on exactly while a session runs and the initial settings are saved then;
  it gives `TerminalIsRestored`, whatever is typed. One case analysis,
  `DispatchOutcome`, lists the few kinds of step that the switch on the key can be, and
  serves all three. `OffersAreRight` is about the callback: by induction over its loop
  the completions are the matching commands among those it looks at (`AddedAre`), and
  it looks at all of them unless one is shorter than the line; `IInv` says that it is
  asked about the line.
* `LineScreenProofs` is about every width of at least two columns, every prompt that is
  narrower, every line and every hint. A refresh knows what it has to erase only from
  the `oldrows` and `oldpos` that the last one left, and it writes over the rest without
  looking. So `Inv` says what is on the sheet in terms of the line that was last *drawn*,
  which is not always the line of the editor (a completion, a line that is hidden):
  from the prompt on the cells are those of `Shown`, below them everything is blank,
  `oldrows` is the number of rows they take and the cursor is on the byte `oldpos`
  (`Drawing`); a hidden line has left blank rows and the cursor in the first of them
  (`Bare`); after enter the cursor is in an empty row below the line (`Ended`); and the
  rows above the prompt are those of `above` (`Kept`). It is needed because
  `ScreenShowsLine` alone says nothing of `oldrows`: a refresh that counted one row less
  would still show the line, and leave a row behind at the next. The lemmas say what
  each piece that is written does to a sheet: text that wraps at the margin, byte by byte
  (`WriteBytes`), going up while erasing (`WriteUps`, `Cleaned`), the moves that put the
  cursor on its byte; and with the arithmetic of rows and columns (`DivMod`, `IdxOnce`)
  they give one lemma for each of the refresh functions and flags.
* `LineIOProofs`, the width: `WidthInv` says in which order the bytes that
  `getCursorPosition` has not dropped lie in its buffer, in the input and in the line
  discipline, and that at most one answer is among them while it reads; after a read
  that failed within a column, the end of that answer may lie before it. This is what
  makes `WidthIsRight` inductive: an answer that is parsed is the one that was asked
  for, and not a late one to the question before; and behind the end of a column that
  was cut no answer parses.
* `LineIOProofs`, the file: `FileInv` says that while one client saves alone, what it
  has written is all the file has (`Saving`); without the exclusion of `overlap`
  and `torn` nothing can be said of the file. That a plain history is read back as it
  was saved needs what `Load` computes: each of its turns finds the next line feed
  where the writer put it (`LineIsRead`), and by induction over the lines the array is
  the history again (`LoadReturns`).
* `LineIOProofs`, the input: `SourceInv` says that the lines returned and the one being
  built are the input read so far, or all of it, with a last line that had no newline.
* `SmallProgramsProofs`: `QuitInv` says that the consumer has printed nothing after the
  quit signal unless it is past the read that the signal found it in. `CmpCorrect`
  proves `s8Cmp` to be the lexicographic order of strings of any length wherever they
  lie in memory, overlapping too, unless `b` is a proper prefix of `a`, where the loop
  runs past the end of `b`.
  `RequestInv` says that a line is parsed and what was accepted is serialized; the rest
  is what the two functions return (`ParseTakes`, `BulksAreAll`, `SerializeSends`,
  `WellFormedParses`, `TooManyPanic`), for lines and commands of any length. By
  induction over the bulks the buffer's end is behind each of them where `WireLen` has
  it (`EndsAre`), and as it only grows, all of them fit if and only if the last does
  (`SerializeFits`).
* `SmallProgramsProofs`, the replies: what was read is the beginning of the reply on the
  wire (`Begun`), and the lemmas follow the lines the tokenizer gives of it. A line of
  the reply is found where it begins, whole or cut (`ReadsLine`, `CutTo`), and the
  iterator is then in front of the next one or at the end of what was read
  (`NextBefore`). What is left of a length is a number that parses, unless nothing of
  it is left or its CR is (`CutNumber`); this needs that the decimal digits of a number
  read back as the number (`NumValue`). The turns of the array loop keep an invariant:
  until the cut, the items are those of the reply and the iterator is in front of the
  next one (`GoodTurn`); behind it, the loop has failed, or the item that was cut is
  complete, or its length could not be read (`CutTurn`), and another turn fails
  (`OneTurn`, `ItemsParsed`). `RepliesAnswered` puts the kinds of replies together.
  `ParserServesSession` draws from it what `RedisSessionProofs` takes from the parser.

The library's induction theorems take an operator, which the installed provers cannot
instantiate. Induction is therefore done on sets: a set of numbers that has 0 and, with
each number, the next one is all of `Nat` (`SetInduction`, from `LeastNat` and the
well-foundedness of `<`); the set is the numbers for which the claim holds. `RecFcn`
shows in the same way that a function defined by recursion over `0 .. N` exists, so
that the loops of `Load`, `linenoiseHistorySave`, `completionCallback`, `parse` and the
clean-up of `refreshMultiLine`, the digits of a number, and the sequence of what a
terminal does for a `write`, can be unfolded.

The type invariants (`TypeCorrect` of `CaskDB`, `CaskDir`, `VfsReadLatency` and
`RedisSession`, `Typing` of `LinePrompt`) are proved and not in a run.

Every safety invariant and action property of the passing runs is stated by a theorem.
Only model-checked are the liveness properties (`OpenTerminates`, `WaitersGetIn`,
`StopsWhenQuiet`, `AnswersOrExits`, `InterruptEnds`), since fairness is out of the
prover's reach, and the two properties that the code violates.

## What the models show beside the runs

Behaviours that the modules have, that no test reaches, and that the properties are
conditional on or that a reader of the code would want to know:

* a value cut by a crash is indexed at the next open and its `load` fails the
  assertion (`LoadAssertFails`; `disk.zig:150`);
* a read error becomes an empty reply, where the comment says it is returned
  (`client.zig:68`);
* an array reply that fails after its first item frees `res` and then reads it
  (`rsp.zig:155`); `segmentFileDir` is only written in part (`option.zig:27`);
* a byte above 127 during completion ends the session without an errno
  (`linenoise.c:945`), byte 0 cuts the line (`linenoise.c:963`), and a line that
  fills the buffer loses its last byte when it is recalled (`linenoise.c:803`);
* a session that starts after a refused restore saves raw settings as the original
  (`linenoise.c:228`); one whose start failed pops an entry that is not its own at
  Enter, or `history[-1]` (`linenoise.c:1112`);
* a missing history file gives -1, where the comment says 0 (`linenoise.c:1336`), and
  a save that could not be written gives 0 (`linenoise.c:1323`);
* the width query leaves the cursor at the margin when its second answer is bad
  (`linenoise.c:302`), and takes a width that a failing read has cut short for the
  whole one (`linenoise.c:274`);
* Enter removes the program's newest history line if that is empty (`linenoise.c:953`,
  `1262`);
* a read that begins while the tracer detaches is not reported (`main.go:41`);
* a panic of the consumer leaves the container running (`main.go:85`).

## Not modelled

* caskdb: archive and merge segments (the code never creates a second segment), and
  the options nothing reads.
* linenoise: `linenoisePrintKeyCodes` (a debugging loop without state), the one-line
  setters (their values are constants here), failing `malloc` and `strdup` (except
  in `linenoiseNoTTY`), a window that is resized while a line is edited, the leak in
  `refreshLineWithCompletion`.
* `go-context`, `go-http-timeout-patch`: constant sleeps and assertions about real
  time; what happens is decided by the Go runtime and net/http.
* `find-func-entry-exit`, `pcinttab`, `utils/pahole.py`, `test-kafka/capture.py`:
  straight-line use of libraries on files, without state.
* `wu`: a drawing loop that ends on `q`; its data never changes.
* Printing, generated bindings, the experiment scripts.
* `headers/vmlinux.h` and the libbpf headers beside it are generated or vendored type
  declarations without behaviour. They are 139,000 of the repository's 141,000 lines
  of C, so counted by lines this project can cover only a small part; of the C code
  with behaviour (`linenoise.c`, `cstring.c`, `vfs_read_latency.c`) the map covers
  most lines that are not comments.

## Further work

1. a database with several segment files, if the code comes to write them.
2. the width query composed with the editor: an answer that getColumns has given up
   on is later read as keys.
