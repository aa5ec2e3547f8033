---------------------------- MODULE KafkaConsumer -----------------------------
(***************************************************************************)
(* test-kafka/main.go: main starts a broker in a container, produces a few  *)
(* messages, starts Consumer in a goroutine and waits for Ctrl-C; then it   *)
(* closes quitSig and returns, which terminates the container and ends the  *)
(* process wherever Consumer is.  The container, the broker and kafka-go    *)
(* are external: each call may fail, and ReadMessage, which is given a      *)
(* context without a deadline, may also never return.                       *)
(***************************************************************************)
EXTENDS Naturals

CONSTANT Messages    \* how many messages Produce writes
ASSUME MessagesAssumption == Messages \in Nat \ {0}

VARIABLES
    main,        \* where main is
    consumer,    \* where the goroutine is
    status,      \* of the process: running, or how it ended
    container,
    topic,       \* messages the broker has stored
    committed,   \* messages ReadMessage has returned and committed
    interrupted, \* whether c holds a signal
    quit,        \* whether quitSig is closed
    afterQuit    \* how often Consumer has printed since

vars == <<main, consumer, status, container, topic, committed, interrupted, quit, afterQuit>>

Init ==
    /\ main = "setup" /\ consumer = "unborn" /\ status = "running"
    /\ container = "none" /\ topic = 0 /\ committed = 0
    /\ interrupted = FALSE /\ quit = FALSE /\ afterQuit = 0

-----------------------------------------------------------------------------
(* main.                                                                    *)

\* RunContainer fails, or Brokers fails with the container running, before
\* the deferred cleanup is in place.
SetupContainer ==
    /\ main = "setup"
    /\ \/ container' = "up" /\ main' = "produce" /\ UNCHANGED status
       \/ container' \in {"none", "up"} /\ status' = "main panicked" /\ UNCHANGED main
    /\ UNCHANGED <<consumer, topic, committed, interrupted, quit, afterQuit>>

\* The result of WriteMessages is ignored: the topic may stay empty.  A panic
\* runs the deferred cleanup.
Produce ==
    /\ main = "produce"
    /\ \/ topic' = 0 /\ main' = "unwinding"
       \/ topic' \in {0, Messages} /\ main' \in {"start", "unwinding"}
    /\ UNCHANGED <<consumer, status, container, committed, interrupted, quit, afterQuit>>

\* signal.Notify and go Consumer(...).
Start ==
    /\ main = "start"
    /\ main' = "wait" /\ consumer' = "top"
    /\ UNCHANGED <<status, container, topic, committed, interrupted, quit, afterQuit>>

\* <-c, then close(quitSig).
Wait ==
    /\ main = "wait" /\ interrupted
    /\ main' = "close" /\ interrupted' = FALSE
    /\ UNCHANGED <<consumer, status, container, topic, committed, quit, afterQuit>>

\* Mutant: main waits for the consumer before it returns.
CloseAndJoin ==
    \/ /\ main = "close" /\ ~quit
       /\ quit' = TRUE
       /\ UNCHANGED <<main, consumer, status, container, topic, committed, interrupted, afterQuit>>
    \/ /\ main = "close" /\ quit /\ consumer = "gone"
       /\ main' = "returning"
       /\ UNCHANGED <<consumer, status, container, topic, committed, interrupted, quit, afterQuit>>

CloseQuit ==
    /\ main = "close"
    /\ main' = "returning" /\ quit' = TRUE
    /\ UNCHANGED <<consumer, status, container, topic, committed, interrupted, afterQuit>>

\* The deferred Terminate, and the end of the process with main.
Cleanup ==
    /\ main \in {"returning", "unwinding"}
    /\ \/ /\ container' = "down"
          /\ status' = IF main = "returning" THEN "ok" ELSE "main panicked"
       \/ status' = "main panicked" /\ UNCHANGED container
    /\ UNCHANGED <<main, consumer, topic, committed, interrupted, quit, afterQuit>>

\* Ctrl-C ends the process until Notify has been called; then c, which has
\* room for one signal, takes it or it is lost.
Interrupt ==
    /\ IF main \in {"setup", "produce", "unwinding", "start"}
       THEN status' = "killed" /\ UNCHANGED interrupted
       ELSE interrupted' = TRUE /\ UNCHANGED status
    /\ UNCHANGED <<main, consumer, container, topic, committed, quit, afterQuit>>

-----------------------------------------------------------------------------
(* Consumer.                                                                *)

\* Mutant: the channel is not looked at.
SelectBlind(next) == consumer' = next

\* select { case <-exitChan: return; default: }
Select(next) == consumer' = IF quit THEN "close" ELSE next

Loop ==
    /\ \/ consumer = "top" /\ Select("reading")
       \/ consumer = "bottom" /\ Select("top")
    /\ UNCHANGED <<main, status, container, topic, committed, interrupted, quit, afterQuit>>

\* A message, which is then committed; an error that ends the loop; or
\* DeadlineExceeded, which is passed over as if there were a message.
ReadMessage ==
    /\ consumer = "reading"
    /\ \/ /\ container = "up" /\ committed < topic
          /\ committed' = committed + 1 /\ consumer' = "print"
       \/ consumer' \in {"failed", "print"} /\ UNCHANGED committed
    /\ UNCHANGED <<main, status, container, topic, interrupted, quit, afterQuit>>

PrintMessage ==
    /\ consumer = "print"
    /\ consumer' = "bottom"
    /\ afterQuit' = IF quit THEN afterQuit + 1 ELSE afterQuit
    /\ UNCHANGED <<main, status, container, topic, committed, interrupted, quit>>

\* The deferred r.Close(), on return and on panic.  A panic of the goroutine
\* ends the process, and main's cleanup is not run.
CloseReader ==
    /\ consumer \in {"close", "failed"}
    /\ consumer' = "gone"
    /\ \/ status' = IF consumer = "failed" THEN "consumer panicked" ELSE status
       \/ status' = "consumer panicked"
    /\ UNCHANGED <<main, container, topic, committed, interrupted, quit, afterQuit>>

-----------------------------------------------------------------------------
MainStep == status = "running" /\ (SetupContainer \/ Produce \/ Start \/ Wait \/ CloseQuit \/ Cleanup)
ConsumerStep == status = "running" /\ (Loop \/ ReadMessage \/ PrintMessage \/ CloseReader)

Next == MainStep \/ ConsumerStep \/ (status = "running" /\ Interrupt)

\* main is scheduled; nothing is assumed of ReadMessage.
Spec == Init /\ [][Next]_vars /\ WF_vars(MainStep)

\* Once main has closed quitSig, Consumer prints at most once more: whatever
\* ReadMessage it is waiting in, it looks at exitChan before it waits again.
OneMoreAtMost == afterQuit <= 1

\* A signal that c has taken ends the process, although Consumer may be in a
\* ReadMessage that never returns.
InterruptEnds == interrupted ~> status # "running"
=============================================================================
