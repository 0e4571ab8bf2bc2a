---------------------------- MODULE CrawlStream ----------------------------
(***************************************************************************)
(* Crawl pipelines and the streams that follow them                        *)
(* (internal/modules/crawler: application/service/service.go and           *)
(* api/controller/controller.go).  A pipeline is a goroutine that          *)
(* broadcasts its progress into the channel the hub holds for its job; a   *)
(* stream is an HTTP handler that registers such a channel, writes what it *)
(* receives and unregisters when it returns.                               *)
(*                                                                         *)
(* broadcast and emitTerminalEvent look the channel up under the hub's     *)
(* lock and send after releasing it, so a stream may close the channel in  *)
(* between.  A send on a closed channel panics: some callers of            *)
(* RunPipeline recover, the goroutines of the controller do not and take   *)
(* the process down.                                                       *)
(***************************************************************************)
EXTENDS Naturals, Sequences

CONSTANTS
    Jobs,       \* crawl jobs, one pipeline each
    Streams,    \* GET .../stream requests; a stream also names its channel
    Cap,        \* capacity of a channel, 100 in the code
    Steps,      \* broadcasts of a pipeline that succeeds, 10 in the code
    Recovered,  \* jobs whose goroutine recovers (EnqueueURL)
    None

ASSUME StreamAssumption ==
    /\ Cap \in Nat /\ Steps \in Nat /\ 0 < Steps /\ Steps <= Cap
    /\ Recovered \subseteq Jobs
    /\ None \notin Streams /\ None \notin Jobs

VARIABLES
    clients,    \* SSEHub.clients: job -> channel or None
    drained,    \* SSEHub.drained
    buf,        \* what a channel holds
    closed,     \* channels that are closed
    pipes,      \* Service.pipes: job -> status, or "none"
    run,        \* the pipeline of a job
    stream,     \* the handler of a stream
    up,         \* the process is running
    broken      \* history: jobs one of whose streams was closed early, by its
                \* own client, by another stream of the job or by Drain

hub == <<clients, drained, buf, closed>>
vars == <<clients, drained, buf, closed, pipes, run, stream, up, broken>>

-----------------------------------------------------------------------------
Kinds == {"progress", "done", "error"}

\* Events of one pipeline are numbered in the order they are broadcast.
Event == [kind: Kinds, n: Nat]
Terminal(e) == e.kind \in {"done", "error"}

Statuses == {"none", "PENDING", "PROCESSING", "COMPLETED", "FAILED"}

\* n: the last event broadcast; ch: the channel that was looked up for it.
Run == [pc: {"idle", "work", "send", "finish", "sendError", "over", "leaked"},
        n: Nat, ch: Streams \cup {None}, success: BOOLEAN, panic: BOOLEAN]
NoRun == [pc |-> "idle", n |-> 0, ch |-> None, success |-> FALSE, panic |-> FALSE]

Stream == [pc: {"idle", "register", "open", "ended"}, job: Jobs \cup {None},
           got: Seq(Event)]
NoStream == [pc |-> "idle", job |-> None, got |-> <<>>]

TypeOK ==
    /\ clients \in [Jobs -> Streams \cup {None}]
    /\ drained \in BOOLEAN /\ up \in BOOLEAN
    /\ closed \subseteq Streams
    /\ buf \in [Streams -> Seq(Event)]
    /\ pipes \in [Jobs -> Statuses]
    /\ run \in [Jobs -> Run]
    /\ stream \in [Streams -> Stream]
    /\ broken \subseteq Jobs

Init ==
    /\ clients = [j \in Jobs |-> None]
    /\ drained = FALSE /\ up = TRUE
    /\ closed = {}
    /\ buf = [c \in Streams |-> <<>>]
    /\ pipes = [j \in Jobs |-> "none"]
    /\ run = [j \in Jobs |-> NoRun]
    /\ stream = [s \in Streams |-> NoStream]
    /\ broken = {}

-----------------------------------------------------------------------------
(* The pipeline.                                                           *)

Goto(j, label) == run' = [run EXCEPT ![j].pc = label]

\* beginPipeline
BeginPipeline(j) ==
    /\ run[j].pc = "idle"
    /\ pipes' = [pipes EXCEPT ![j] = "PENDING"]
    /\ Goto(j, "work")
    /\ UNCHANGED <<hub, stream, up, broken>>

\* broadcast: updatePipeline, then the lookup of the channel; with no client
\* the pipeline goes on, after its last event to the end.
Broadcast(j) ==
    /\ run[j].pc = "work"
    /\ run[j].n < Steps
    /\ pipes' = [pipes EXCEPT ![j] = IF @ = "none" THEN @ ELSE "PROCESSING"]
    /\ LET last == run[j].n + 1 = Steps
           next == IF clients[j] # None THEN "send"
                   ELSE IF last THEN "finish" ELSE "work"
       IN  run' = [run EXCEPT ![j].pc = next, ![j].n = @ + 1,
                              ![j].ch = clients[j],
                              ![j].success = last /\ clients[j] = None]
    /\ UNCHANGED <<hub, stream, up, broken>>

\* Faulty variant: one place of the channel is never used.
PutOneLess(c, e) == buf' = IF Len(buf[c]) + 1 < Cap
                           THEN [buf EXCEPT ![c] = Append(@, e)] ELSE buf

\* select { case ch <- evt: default: }
Put(c, e) == buf' = IF Len(buf[c]) < Cap THEN [buf EXCEPT ![c] = Append(@, e)]
                                         ELSE buf

\* A panic unwinds into the deferred finishPipeline.
Panic(j) ==
    /\ run[j].pc = "send"
    /\ run[j].ch \in closed
    /\ run' = [run EXCEPT ![j].pc = "finish", ![j].panic = TRUE]
    /\ UNCHANGED <<hub, pipes, stream, up, broken>>

\* The last event has type done and is sent before the result is a success.
Send(j) ==
    /\ run[j].pc = "send"
    /\ run[j].ch \notin closed
    /\ LET last == run[j].n = Steps
       IN  /\ Put(run[j].ch, [kind |-> IF last THEN "done" ELSE "progress",
                              n |-> run[j].n])
           /\ run' = [run EXCEPT ![j].pc = IF last THEN "finish" ELSE "work",
                                 ![j].success = last]
    /\ UNCHANGED <<clients, drained, closed, pipes, stream, up, broken>>

\* One of the early returns: blacklisted, not fetched, low quality, duplicate.
StopEarly(j) ==
    /\ run[j].pc = "work"
    /\ run[j].n \in 1 .. Steps - 1
    /\ Goto(j, "finish")
    /\ UNCHANGED <<hub, pipes, stream, up, broken>>

\* The goroutine returns, or its panic goes on and ends the process.
Return(j, label) ==
    /\ run' = [run EXCEPT ![j].pc = label, ![j].ch = None]
    /\ up' = (up /\ (run[j].panic => j \in Recovered))

\* Faulty variant: the error event is emitted whatever the result.
FinishAlwaysEmits(j) ==
    /\ run[j].pc = "finish"
    /\ pipes' = [pipes EXCEPT ![j] = IF run[j].success THEN "COMPLETED" ELSE "FAILED"]
    /\ IF clients[j] # None
       THEN /\ run' = [run EXCEPT ![j].pc = "sendError", ![j].ch = clients[j],
                                  ![j].n = @ + 1]
            /\ UNCHANGED up
       ELSE Return(j, "over")
    /\ UNCHANGED <<hub, stream, broken>>

\* Faulty variant: with no client to tell, the timer is not started.
FinishForgetsTimer(j) ==
    /\ run[j].pc = "finish"
    /\ pipes' = [pipes EXCEPT ![j] = IF run[j].success THEN "COMPLETED" ELSE "FAILED"]
    /\ IF ~ run[j].success /\ clients[j] # None
       THEN /\ run' = [run EXCEPT ![j].pc = "sendError", ![j].ch = clients[j],
                                  ![j].n = @ + 1]
            /\ UNCHANGED up
       ELSE Return(j, "leaked")
    /\ UNCHANGED <<hub, stream, broken>>

\* finishPipeline: the status, then the lookup for the error event; the timer
\* that deletes the entry is started after that event.
FinishPipeline(j) ==
    /\ run[j].pc = "finish"
    /\ pipes' = [pipes EXCEPT ![j] = IF @ = "none" THEN @
                                     ELSE IF run[j].success THEN "COMPLETED"
                                     ELSE "FAILED"]
    /\ IF ~ run[j].success /\ clients[j] # None
       THEN /\ run' = [run EXCEPT ![j].pc = "sendError", ![j].ch = clients[j],
                                  ![j].n = @ + 1]
            /\ UNCHANGED up
       ELSE Return(j, "over")
    /\ UNCHANGED <<hub, stream, broken>>

\* emitTerminalEvent's send
SendError(j) ==
    /\ run[j].pc = "sendError"
    /\ run[j].ch \notin closed
    /\ Put(run[j].ch, [kind |-> "error", n |-> run[j].n])
    /\ Return(j, "over")
    /\ UNCHANGED <<clients, drained, closed, pipes, stream, broken>>

\* A panic in the deferred call: the timer is never started.
PanicAgain(j) ==
    /\ run[j].pc = "sendError"
    /\ run[j].ch \in closed
    /\ run' = [run EXCEPT ![j].pc = "leaked", ![j].ch = None, ![j].panic = TRUE]
    /\ up' = (up /\ j \in Recovered)
    /\ UNCHANGED <<hub, pipes, stream, broken>>

\* The goroutine of finishPipeline, ten seconds later.
ForgetPipeline(j) ==
    /\ run[j].pc = "over"
    /\ pipes[j] # "none"
    /\ pipes' = [pipes EXCEPT ![j] = "none"]
    /\ UNCHANGED <<hub, run, stream, up, broken>>

-----------------------------------------------------------------------------
(* The stream handler and the hub.                                         *)

\* StreamCrawlProgress up to Register: the hub is not draining yet.
Connect(s, j) ==
    /\ stream[s].pc = "idle"
    /\ ~ drained
    /\ stream' = [stream EXCEPT ![s].pc = "register", ![s].job = j]
    /\ UNCHANGED <<hub, pipes, run, up, broken>>

\* Register: a second stream of a job takes the place of the first, whose
\* channel is left open and hears nothing more.
Register(s) ==
    /\ stream[s].pc = "register"
    /\ clients' = [clients EXCEPT ![stream[s].job] = s]
    /\ stream' = [stream EXCEPT ![s].pc = "open"]
    /\ broken' = IF clients[stream[s].job] = None THEN broken
                 ELSE broken \cup {stream[s].job}
    /\ UNCHANGED <<drained, buf, closed, pipes, run, up>>

\* Faulty variant: the entry of the job stays in the map.
UnregisterKeepsEntry(j) ==
    /\ closed' = IF clients[j] = None THEN closed ELSE closed \cup {clients[j]}
    /\ UNCHANGED clients

\* Faulty variant: the ok of the map lookup is not looked at.
UnregisterUnchecked(j) ==
    /\ closed' = closed \cup {clients[j]}
    /\ clients' = [clients EXCEPT ![j] = None]

\* Unregister closes and removes the channel the hub has for the job NOW,
\* which may be that of another stream.
Unregister(j) ==
    /\ closed' = IF clients[j] = None THEN closed ELSE closed \cup {clients[j]}
    /\ clients' = [clients EXCEPT ![j] = None]

\* Faulty variant: the handler returns after any event.
ReceiveOnce(s) ==
    /\ stream[s].pc = "open"
    /\ buf[s] # <<>>
    /\ stream' = [stream EXCEPT ![s].got = Append(@, Head(buf[s])), ![s].pc = "ended"]
    /\ Unregister(stream[s].job)
    /\ buf' = [buf EXCEPT ![s] = Tail(@)]
    /\ UNCHANGED <<drained, pipes, run, up, broken>>

\* The handler writes an event, and returns after a terminal one.
Receive(s) ==
    /\ stream[s].pc = "open"
    /\ buf[s] # <<>>
    /\ LET e == Head(buf[s])
       IN  /\ stream' = [stream EXCEPT
                           ![s].got = Append(@, e),
                           ![s].pc = IF Terminal(e) THEN "ended" ELSE "open"]
           /\ IF Terminal(e) THEN Unregister(stream[s].job)
                             ELSE UNCHANGED <<clients, closed>>
    /\ buf' = [buf EXCEPT ![s] = Tail(@)]
    /\ UNCHANGED <<drained, pipes, run, up, broken>>

End(s) == /\ stream' = [stream EXCEPT ![s].pc = "ended"]
          /\ Unregister(stream[s].job)

\* The channel was closed and emptied.
ReceiveClosed(s) ==
    /\ stream[s].pc = "open"
    /\ buf[s] = <<>>
    /\ s \in closed
    /\ End(s)
    /\ UNCHANGED <<drained, buf, pipes, run, up, broken>>

\* The client disconnects, or the five minutes of the request are over.
Leave(s) ==
    /\ stream[s].pc = "open"
    /\ End(s)
    /\ broken' = broken \cup {stream[s].job}
    /\ UNCHANGED <<drained, buf, pipes, run, up>>

\* Faulty variant: the map keeps the channels that were closed.
DrainKeepsMap ==
    /\ ~ drained
    /\ drained' = TRUE
    /\ closed' = closed \cup ({clients[j] : j \in Jobs} \ {None})
    /\ broken' = Jobs
    /\ UNCHANGED <<clients, buf, pipes, run, stream, up>>

\* Drain, on shutdown; Register does not look at drained.
Drain ==
    /\ ~ drained
    /\ drained' = TRUE
    /\ closed' = closed \cup ({clients[j] : j \in Jobs} \ {None})
    /\ clients' = [j \in Jobs |-> None]
    /\ broken' = Jobs
    /\ UNCHANGED <<buf, pipes, run, stream, up>>

-----------------------------------------------------------------------------
PipelineStep(j) ==
    \/ Broadcast(j) \/ Send(j) \/ Panic(j)
    \/ FinishPipeline(j) \/ SendError(j) \/ PanicAgain(j) \/ ForgetPipeline(j)

StreamStep(s) == Register(s) \/ Receive(s) \/ ReceiveClosed(s)

\* Everything is over, or the process is: nothing more happens.
Stopped ==
    /\ \/ ~ up
       \/ /\ \A j \in Jobs : run[j].pc \in {"over", "leaked"}
          /\ \A s \in Streams : stream[s].pc = "ended" \/ drained
    /\ UNCHANGED vars

Next ==
    \/ /\ up
       /\ \/ \E j \in Jobs : BeginPipeline(j) \/ StopEarly(j) \/ PipelineStep(j)
          \/ \E s \in Streams :
                StreamStep(s) \/ Leave(s) \/ \E j \in Jobs : Connect(s, j)
          \/ Drain
    \/ Stopped

Spec == Init /\ [][Next]_vars

\* Goroutines that can go on do; nobody has to connect, leave or shut down.
FairSpec ==
    /\ Spec
    /\ \A j \in Jobs : WF_vars(up /\ PipelineStep(j))
    /\ \A s \in Streams : WF_vars(up /\ StreamStep(s))

-----------------------------------------------------------------------------
(* Properties.                                                             *)

\* IsJobRunning, what GetCrawlStatus and GetJobStatus answer from
IsJobRunning(j) == pipes[j] \in {"PENDING", "PROCESSING"} \/ clients[j] # None

\* The channels in the hub are open and differ from job to job, whichever
\* stream of a job unregisters and whenever the hub is drained: no channel is
\* closed twice, which would panic inside a deferred call or in Drain.
HubChannelsOpen ==
    \A j \in Jobs : clients[j] # None =>
        /\ clients[j] \notin closed
        /\ \A k \in Jobs : clients[k] = clients[j] => k = j

\* A job is reported running only while its pipeline is at work or a stream
\* of it is connected: no crash of the pipeline, replacement of a stream or
\* shutdown leaves a job running for ever.
RunningMeansSomeone ==
    \A j \in Jobs : IsJobRunning(j) =>
        \/ run[j].pc \in {"work", "send", "finish"}
        \/ \E s \in Streams : stream[s].pc = "open" /\ stream[s].job = j

\* Only a stream that is closed early can bring a pipeline down: as long as
\* every stream of the job stays to the end, the job has one at a time and the
\* server is not shutting down, no send of broadcast or emitTerminalEvent
\* meets a closed channel.
PanicOnlyWhenBroken ==
    \A j \in Jobs : run[j].panic => j \in broken

\* A stream that nobody disturbs hears every event from its first one to the
\* terminal one, in order and without a gap: the non-blocking send never
\* drops one, and the stream never ends before the terminal one.
HeardInFull ==
    \A s \in Streams : stream[s].job \in Jobs \ broken =>
        LET got == stream[s].got
        IN  /\ \A i \in 1 .. Len(got) - 1 : /\ got[i + 1].n = got[i].n + 1
                                            /\ ~ Terminal(got[i])
            /\ stream[s].pc = "ended" => got # <<>> /\ Terminal(got[Len(got)])

\* A pipeline leaves the list of active ones in the end, unless a send of its
\* own panicked.
PipelinesForgotten ==
    \A j \in Jobs :
        (pipes[j] # "none") ~> (pipes[j] = "none" \/ run[j].panic \/ ~ up)

\* A stream the hub holds while the pipeline of its job is at work ends by
\* itself, whether the pipeline succeeds or returns early, unless it is
\* disturbed.
StreamsEnd ==
    \A s \in Streams : \A j \in Jobs :
        (stream[s].pc = "open" /\ clients[j] = s /\ run[j].pc = "work")
            ~> (stream[s].pc = "ended" \/ j \in broken \/ ~ up)

=============================================================================
