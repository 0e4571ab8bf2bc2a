------------------------- MODULE CrawlStreamProofs -------------------------
(***************************************************************************)
(* Theorems about CrawlStream, for any jobs and streams, any capacity of a *)
(* channel and any number of broadcasts that fit into it: the types,       *)
(* HubChannelsOpen, RunningMeansSomeone, PanicOnlyWhenBroken and           *)
(* HeardInFull.                                                            *)
(***************************************************************************)
EXTENDS CrawlStream, TLAPS

USE StreamAssumption

PipelineAction(j) == BeginPipeline(j) \/ StopEarly(j) \/ PipelineStep(j)
StreamAction(s) == StreamStep(s) \/ Leave(s) \/ \E j \in Jobs : Connect(s, j)

\* A pipeline that is about to send has a channel to send to.
Addressed == \A j \in Jobs : run[j].pc \in {"send", "sendError"} => run[j].ch \in Streams

\* A handler that is past Connect has a job.
HasJob == \A s \in Streams : stream[s].pc # "idle" => stream[s].job \in Jobs

Types == TypeOK /\ Addressed /\ HasJob

-----------------------------------------------------------------------------
(* Types.                                                                  *)

LEMMA NoRunType == NoRun \in Run
BY DEF NoRun, Run

LEMMA NoStreamType == NoStream \in Stream
BY DEF NoStream, Stream

LEMMA InitTypes == Init => Types
<1> SUFFICES ASSUME Init PROVE Types
    OBVIOUS
<1>1. <<>> \in Seq(Event)
    OBVIOUS
<1>2. buf \in [Streams -> Seq(Event)]
    BY <1>1 DEF Init
<1>3. run \in [Jobs -> Run] /\ stream \in [Streams -> Stream]
    BY NoRunType, NoStreamType DEF Init
<1>4. Addressed
    BY DEF Init, Addressed, NoRun
<1>5. HasJob
    BY DEF Init, HasJob, NoStream
<1> QED BY <1>2, <1>3, <1>4, <1>5 DEF Init, Types, TypeOK, Statuses

\* The new state of the pipeline that takes a step.
LEMMA RunStep ==
    ASSUME TypeOK, NEW j \in Jobs, PipelineAction(j)
    PROVE  run'[j] \in Run /\ run' = [run EXCEPT ![j] = run'[j]]
<1>q. run[j] \in Run /\ run \in [Jobs -> Run] /\ clients[j] \in Streams \cup {None}
    BY DEF TypeOK
<1>n. run[j].n + 1 \in Nat
    BY <1>q DEF Run
<1>1. CASE BeginPipeline(j)
    <2> DEFINE q == [run[j] EXCEPT !.pc = "work"]
    <2>1. q \in Run
        BY <1>q DEF Run
    <2>2. run' = [run EXCEPT ![j] = q]
        BY <1>1, <1>q DEF BeginPipeline, Goto
    <2> QED BY <2>1, <2>2, <1>q
<1>2. CASE StopEarly(j)
    <2> DEFINE q == [run[j] EXCEPT !.pc = "finish"]
    <2>1. q \in Run
        BY <1>q DEF Run
    <2>2. run' = [run EXCEPT ![j] = q]
        BY <1>2, <1>q DEF StopEarly, Goto
    <2> QED BY <2>1, <2>2, <1>q
<1>3. CASE Broadcast(j)
    <2> DEFINE last == run[j].n + 1 = Steps
               next == IF clients[j] # None THEN "send"
                       ELSE IF last THEN "finish" ELSE "work"
               q == [run[j] EXCEPT !.pc = next, !.n = @ + 1, !.ch = clients[j],
                                   !.success = last /\ clients[j] = None]
    <2>1. q \in Run
        BY <1>q, <1>n DEF Run
    <2>2. run' = [run EXCEPT ![j] = q]
        BY <1>3, <1>q DEF Broadcast
    <2> QED BY <2>1, <2>2, <1>q
<1>4. CASE Panic(j)
    <2> DEFINE q == [run[j] EXCEPT !.pc = "finish", !.panic = TRUE]
    <2>1. q \in Run
        BY <1>q DEF Run
    <2>2. run' = [run EXCEPT ![j] = q]
        BY <1>4, <1>q DEF Panic
    <2> QED BY <2>1, <2>2, <1>q
<1>5. CASE Send(j)
    <2> DEFINE last == run[j].n = Steps
               q == [run[j] EXCEPT !.pc = IF last THEN "finish" ELSE "work",
                                   !.success = last]
    <2>1. q \in Run
        BY <1>q DEF Run
    <2>2. run' = [run EXCEPT ![j] = q]
        BY <1>5, <1>q DEF Send
    <2> QED BY <2>1, <2>2, <1>q
<1>r. ASSUME NEW l \in {"over", "leaked"}, Return(j, l)
      PROVE  run'[j] \in Run /\ run' = [run EXCEPT ![j] = run'[j]]
    <2> DEFINE q == [run[j] EXCEPT !.pc = l, !.ch = None]
    <2>1. q \in Run
        BY <1>q DEF Run
    <2>2. run' = [run EXCEPT ![j] = q]
        BY <1>r, <1>q DEF Return
    <2> QED BY <2>1, <2>2, <1>q
<1>6. CASE FinishPipeline(j)
    <2>1. CASE Return(j, "over")
        BY <2>1, <1>r
    <2>2. CASE ~ Return(j, "over")
        <3> DEFINE q == [run[j] EXCEPT !.pc = "sendError", !.ch = clients[j], !.n = @ + 1]
        <3>1. q \in Run
            BY <1>q, <1>n DEF Run
        <3>2. run' = [run EXCEPT ![j] = q]
            BY <1>6, <2>2, <1>q DEF FinishPipeline
        <3> QED BY <3>1, <3>2, <1>q
    <2> QED BY <2>1, <2>2
<1>7. CASE SendError(j)
    BY <1>7, <1>r DEF SendError
<1>8. CASE PanicAgain(j)
    <2> DEFINE q == [run[j] EXCEPT !.pc = "leaked", !.ch = None, !.panic = TRUE]
    <2>1. q \in Run
        BY <1>q DEF Run
    <2>2. run' = [run EXCEPT ![j] = q]
        BY <1>8, <1>q DEF PanicAgain
    <2> QED BY <2>1, <2>2, <1>q
<1>9. CASE ForgetPipeline(j)
    BY <1>9, <1>q DEF ForgetPipeline
<1> QED BY <1>1, <1>2, <1>3, <1>4, <1>5, <1>6, <1>7, <1>8, <1>9
        DEF PipelineAction, PipelineStep

\* What a pipeline leaves alone.
LEMMA RunFrame ==
    ASSUME TypeOK, NEW j \in Jobs, PipelineAction(j)
    PROVE  /\ UNCHANGED <<clients, drained, closed, stream, broken>>
           /\ \A k \in Jobs \ {j} : run'[k] = run[k]
<1>1. UNCHANGED <<clients, drained, closed, stream, broken>>
    BY DEF PipelineAction, PipelineStep, BeginPipeline, StopEarly, Broadcast, Panic, Send,
           FinishPipeline, SendError, PanicAgain, ForgetPipeline, hub
<1>2. run' = [run EXCEPT ![j] = run'[j]] /\ run \in [Jobs -> Run]
    BY RunStep DEF TypeOK
<1> QED BY <1>1, <1>2

LEMMA PutType ==
    ASSUME TypeOK, NEW c \in Streams, NEW e \in Event, Put(c, e)
    PROVE  buf' \in [Streams -> Seq(Event)]
<1>1. buf \in [Streams -> Seq(Event)] /\ Append(buf[c], e) \in Seq(Event)
    BY DEF TypeOK
<1> QED BY <1>1 DEF Put

LEMMA PipelineTypes ==
    ASSUME Types, NEW j \in Jobs, PipelineAction(j)
    PROVE  Types'
<1>q. run[j] \in Run /\ run \in [Jobs -> Run] /\ clients[j] \in Streams \cup {None}
    BY DEF Types, TypeOK
<1>1. run' \in [Jobs -> Run]
    BY <1>q, RunStep DEF Types
<1>2. pipes' \in [Jobs -> Statuses]
    BY DEF PipelineAction, PipelineStep, BeginPipeline, StopEarly, Broadcast, Panic, Send,
           FinishPipeline, SendError, PanicAgain, ForgetPipeline, Types, TypeOK, Statuses
<1>3. up' \in BOOLEAN
    BY DEF PipelineAction, PipelineStep, BeginPipeline, StopEarly, Broadcast, Panic, Send,
           FinishPipeline, SendError, PanicAgain, ForgetPipeline, Return, Types, TypeOK
<1>4. buf' \in [Streams -> Seq(Event)]
    <2>1. CASE Send(j) \/ SendError(j)
        <3>1. run[j].ch \in Streams /\ run[j].n \in Nat
            BY <2>1, <1>q DEF Send, SendError, Types, Addressed, Run
        <3>2. PICK k \in Kinds : Put(run[j].ch, [kind |-> k, n |-> run[j].n])
            BY <2>1 DEF Send, SendError, Kinds
        <3>3. [kind |-> k, n |-> run[j].n] \in Event
            BY <3>1 DEF Event
        <3> QED BY <3>1, <3>2, <3>3, PutType DEF Types
    <2>2. CASE ~ (Send(j) \/ SendError(j))
        BY <2>2 DEF PipelineAction, PipelineStep, BeginPipeline, StopEarly, Broadcast, Panic,
                    FinishPipeline, PanicAgain, ForgetPipeline, hub, Types, TypeOK
    <2> QED BY <2>1, <2>2
<1>5. run'[j].pc \in {"send", "sendError"} => run'[j].ch \in Streams
    <2>1. CASE Broadcast(j) \/ FinishPipeline(j)
        <3>1. CASE clients[j] = None
            <4>1. run'[j].pc \notin {"send", "sendError"}
                BY <2>1, <3>1, <1>q DEF Broadcast, FinishPipeline, Return, Run
            <4> QED BY <4>1
        <3>2. CASE clients[j] # None
            <4>1. run'[j].ch \in {clients[j], None} /\ (run'[j].ch = None => run'[j].pc = "over")
                BY <2>1, <3>2, <1>q DEF Broadcast, FinishPipeline, Return, Run
            <4> QED BY <3>2, <4>1, <1>q
        <3> QED BY <3>1, <3>2
    <2>2. CASE ForgetPipeline(j)
        BY <2>2 DEF ForgetPipeline, Types, Addressed
    <2>3. CASE ~ (Broadcast(j) \/ FinishPipeline(j) \/ ForgetPipeline(j))
        <3>1. run'[j].pc \in {"work", "finish", "over", "leaked"}
            BY <2>3, <1>q DEF PipelineAction, PipelineStep, BeginPipeline, StopEarly, Goto,
                              Panic, Send, SendError, PanicAgain, Return, Run
        <3> QED BY <3>1
    <2> QED BY <2>1, <2>2, <2>3
<1>6. Addressed'
    BY <1>5, RunFrame DEF Types, Addressed
<1>7. UNCHANGED <<clients, drained, closed, stream, broken>>
    BY RunFrame DEF Types
<1> QED BY <1>1, <1>2, <1>3, <1>4, <1>6, <1>7 DEF Types, TypeOK, HasJob

\* The new state of the handler that takes a step.
LEMMA StreamShape ==
    ASSUME TypeOK, NEW s \in Streams, StreamAction(s)
    PROVE  /\ stream'[s] \in Stream /\ stream' = [stream EXCEPT ![s] = stream'[s]]
           /\ UNCHANGED <<drained, pipes, run, up>>
<1>q. stream[s] \in Stream /\ stream \in [Streams -> Stream] /\ buf[s] \in Seq(Event)
    BY DEF TypeOK
<1>u. UNCHANGED <<drained, pipes, run, up>>
    BY DEF StreamAction, StreamStep, Register, Receive, ReceiveClosed, Leave, Connect, hub
<1>1. ASSUME NEW j \in Jobs, Connect(s, j)
      PROVE  stream'[s] \in Stream /\ stream' = [stream EXCEPT ![s] = stream'[s]]
    <2> DEFINE q == [stream[s] EXCEPT !.pc = "register", !.job = j]
    <2>1. q \in Stream
        BY <1>q DEF Stream
    <2>2. stream' = [stream EXCEPT ![s] = q]
        BY <1>1, <1>q DEF Connect
    <2> QED BY <2>1, <2>2, <1>q
<1>2. CASE Register(s)
    <2> DEFINE q == [stream[s] EXCEPT !.pc = "open"]
    <2>1. q \in Stream
        BY <1>q DEF Stream
    <2>2. stream' = [stream EXCEPT ![s] = q]
        BY <1>2, <1>q DEF Register
    <2> QED BY <2>1, <2>2, <1>q, <1>u
<1>3. CASE ReceiveClosed(s) \/ Leave(s)
    <2> DEFINE q == [stream[s] EXCEPT !.pc = "ended"]
    <2>1. q \in Stream
        BY <1>q DEF Stream
    <2>2. stream' = [stream EXCEPT ![s] = q]
        BY <1>3, <1>q DEF ReceiveClosed, Leave, End
    <2> QED BY <2>1, <2>2, <1>q, <1>u
<1>4. CASE Receive(s)
    <2> DEFINE e == Head(buf[s])
               q == [stream[s] EXCEPT !.got = Append(@, e),
                                      !.pc = IF Terminal(e) THEN "ended" ELSE "open"]
    <2>0. buf[s] # <<>>
        BY <1>4 DEF Receive
    <2>1. e \in Event
        BY <2>0, <1>q
    <2>2. stream[s].got \in Seq(Event)
        BY <1>q DEF Stream
    <2>3. Append(stream[s].got, e) \in Seq(Event)
        BY <2>1, <2>2
    <2>4. q \in Stream
        BY <1>q, <2>3 DEF Stream
    <2>5. stream' = [stream EXCEPT ![s] = q]
        BY <1>4, <1>q DEF Receive
    <2> HIDE DEF q
    <2> QED BY <2>4, <2>5, <1>q, <1>u
<1> QED BY <1>1, <1>2, <1>3, <1>4, <1>u DEF StreamAction, StreamStep

LEMMA StreamTypes ==
    ASSUME Types, NEW s \in Streams, StreamAction(s)
    PROVE  Types'
<1>q. stream[s] \in Stream /\ stream \in [Streams -> Stream] /\ buf[s] \in Seq(Event)
      /\ buf \in [Streams -> Seq(Event)] /\ clients \in [Jobs -> Streams \cup {None}]
    BY DEF Types, TypeOK
<1>1. stream' \in [Streams -> Stream] /\ UNCHANGED <<drained, pipes, run, up>>
    BY <1>q, StreamShape DEF Types
<1>2. buf' \in [Streams -> Seq(Event)]
    <2>1. CASE Receive(s)
        <3>1. Tail(buf[s]) \in Seq(Event)
            BY <1>q, <2>1 DEF Receive
        <3> QED BY <1>q, <2>1, <3>1 DEF Receive
    <2>2. CASE ~ Receive(s)
        BY <1>q, <2>2 DEF StreamAction, StreamStep, Register, ReceiveClosed, Leave, Connect,
                          hub
    <2> QED BY <2>1, <2>2
<1>3. clients' \in [Jobs -> Streams \cup {None}] /\ closed' \subseteq Streams
    <2>1. CASE stream[s].pc = "idle"
        BY <1>q, <2>1 DEF StreamAction, StreamStep, Register, Receive, ReceiveClosed, Leave,
                          Connect, hub, Types, TypeOK
    <2>2. CASE stream[s].pc # "idle"
        <3>1. stream[s].job \in Jobs
            BY <2>2 DEF Types, HasJob
        <3>2. Unregister(stream[s].job) =>
                /\ clients' \in [Jobs -> Streams \cup {None}] /\ closed' \subseteq Streams
            BY <1>q, <3>1 DEF Unregister, Types, TypeOK
        <3>3. \/ Register(s) \/ UNCHANGED <<clients, closed>> \/ Unregister(stream[s].job)
            BY <2>2 DEF StreamAction, StreamStep, Receive, ReceiveClosed, Leave, Connect, End
        <3>4. CASE Register(s)
            BY <1>q, <3>1, <3>4 DEF Register, Types, TypeOK
        <3> QED BY <1>q, <3>2, <3>3, <3>4 DEF Types, TypeOK
    <2> QED BY <2>1, <2>2
<1>4. stream'[s].job \in Jobs
    <2>1. ASSUME NEW j \in Jobs, Connect(s, j) PROVE stream'[s].job \in Jobs
        BY <2>1, <1>q DEF Connect, Stream
    <2>2. CASE StreamStep(s) \/ Leave(s)
        <3>1. stream[s].job \in Jobs
            BY <2>2 DEF StreamStep, Register, Receive, ReceiveClosed, Leave, Types, HasJob
        <3>2. stream'[s].job = stream[s].job
            BY <2>2, <1>q DEF StreamStep, Register, Receive, ReceiveClosed, Leave, End, Stream
        <3> QED BY <3>1, <3>2
    <2> QED BY <2>1, <2>2 DEF StreamAction
<1>5. broken' \subseteq Jobs
    BY <1>4, <1>q DEF StreamAction, StreamStep, Register, Receive, ReceiveClosed, Leave,
                      Connect, hub, Types, TypeOK, HasJob
<1>6. HasJob'
    <2>1. \A t \in Streams \ {s} : stream'[t] = stream[t]
        BY <1>q, StreamShape DEF Types
    <2> QED BY <1>4, <2>1 DEF Types, HasJob
<1> QED BY <1>1, <1>2, <1>3, <1>5, <1>6 DEF Types, TypeOK, Addressed

LEMMA DrainTypes ==
    ASSUME Types, Drain
    PROVE  Types'
BY DEF Drain, Types, TypeOK, Addressed, HasJob

LEMMA NextTypes == Types /\ [Next]_vars => Types'
<1> SUFFICES ASSUME Types, [Next]_vars PROVE Types'
    OBVIOUS
<1>1. ASSUME NEW j \in Jobs, PipelineAction(j) PROVE Types'
    BY <1>1, PipelineTypes
<1>2. ASSUME NEW s \in Streams, StreamAction(s) PROVE Types'
    BY <1>2, StreamTypes
<1>3. CASE Drain
    BY <1>3, DrainTypes
<1>4. CASE UNCHANGED vars
    BY <1>4 DEF vars, Types, TypeOK, Addressed, HasJob
<1> QED BY <1>1, <1>2, <1>3, <1>4 DEF Next, Stopped, PipelineAction, StreamAction

\* The hub, the channels, the pipelines and the handlers keep their types.
THEOREM StreamTypesKept == Spec => []TypeOK
<1>1. Types /\ [Next]_vars => Types'
    BY NextTypes
<1>2. Types => TypeOK
    BY DEF Types
<1> QED BY InitTypes, <1>1, <1>2, PTL DEF Spec

-----------------------------------------------------------------------------
(* What the steps do, field by field.                                      *)

LEMMA RunFields ==
    ASSUME TypeOK, NEW j \in Jobs
    PROVE  /\ BeginPipeline(j) => /\ run[j].pc = "idle" /\ run'[j].pc = "work"
                                  /\ run'[j].n = run[j].n /\ run'[j].panic = run[j].panic
           /\ StopEarly(j) => /\ run[j].pc = "work" /\ run'[j].pc = "finish"
                              /\ run'[j].n = run[j].n /\ run'[j].panic = run[j].panic
           /\ Broadcast(j) =>
                /\ run[j].pc = "work" /\ run'[j].ch = clients[j] /\ run[j].n < Steps
                /\ run'[j].n = run[j].n + 1 /\ run'[j].panic = run[j].panic
                /\ run'[j].pc \in {"send", "finish", "work"}
                /\ run'[j].pc = "send" <=> clients[j] # None
                /\ run'[j].pc = "work" => run[j].n + 1 # Steps
                /\ run'[j].pc = "finish" => run'[j].success
           /\ Panic(j) => /\ run[j].pc = "send" /\ run[j].ch \in closed
                          /\ run'[j].pc = "finish"
           /\ Send(j) => /\ run[j].pc = "send" /\ run'[j].n = run[j].n
                         /\ run'[j].pc = IF run[j].n = Steps THEN "finish" ELSE "work"
                         /\ run'[j].success = (run[j].n = Steps)
                         /\ run'[j].panic = run[j].panic
           /\ FinishPipeline(j) =>
                /\ run[j].pc = "finish" /\ run'[j].panic = run[j].panic
                /\ \/ /\ run'[j].pc = "sendError" /\ ~ run[j].success /\ clients[j] # None
                      /\ run'[j].ch = clients[j] /\ run'[j].n = run[j].n + 1
                   \/ run'[j].pc = "over" /\ run'[j].n = run[j].n
           /\ SendError(j) => /\ run[j].pc = "sendError" /\ run'[j].pc = "over"
                              /\ run'[j].n = run[j].n /\ run'[j].panic = run[j].panic
           /\ PanicAgain(j) => /\ run[j].pc = "sendError" /\ run[j].ch \in closed
                               /\ run'[j].pc = "leaked"
<1>q. run[j] \in Run /\ run \in [Jobs -> Run]
    BY DEF TypeOK
<1>1. BeginPipeline(j) => /\ run[j].pc = "idle" /\ run'[j].pc = "work"
                          /\ run'[j].n = run[j].n /\ run'[j].panic = run[j].panic
    BY <1>q DEF BeginPipeline, Goto, Run
<1>2. StopEarly(j) => /\ run[j].pc = "work" /\ run'[j].pc = "finish"
                      /\ run'[j].n = run[j].n /\ run'[j].panic = run[j].panic
    BY <1>q DEF StopEarly, Goto, Run
<1>3. Broadcast(j) =>
        /\ run[j].pc = "work" /\ run'[j].ch = clients[j] /\ run[j].n < Steps
        /\ run'[j].n = run[j].n + 1 /\ run'[j].panic = run[j].panic
        /\ run'[j].pc \in {"send", "finish", "work"}
        /\ run'[j].pc = "send" <=> clients[j] # None
        /\ run'[j].pc = "work" => run[j].n + 1 # Steps
        /\ run'[j].pc = "finish" => run'[j].success
    BY <1>q DEF Broadcast, Run
<1>4. Panic(j) => /\ run[j].pc = "send" /\ run[j].ch \in closed /\ run'[j].pc = "finish"
    BY <1>q DEF Panic, Run
<1>5. Send(j) => /\ run[j].pc = "send" /\ run'[j].n = run[j].n
                 /\ run'[j].pc = IF run[j].n = Steps THEN "finish" ELSE "work"
                 /\ run'[j].success = (run[j].n = Steps)
                 /\ run'[j].panic = run[j].panic
    BY <1>q DEF Send, Run
<1>6. FinishPipeline(j) =>
        /\ run[j].pc = "finish" /\ run'[j].panic = run[j].panic
        /\ \/ /\ run'[j].pc = "sendError" /\ ~ run[j].success /\ clients[j] # None
              /\ run'[j].ch = clients[j] /\ run'[j].n = run[j].n + 1
           \/ run'[j].pc = "over" /\ run'[j].n = run[j].n
    BY <1>q DEF FinishPipeline, Return, Run
<1>7. SendError(j) => /\ run[j].pc = "sendError" /\ run'[j].pc = "over"
                      /\ run'[j].n = run[j].n /\ run'[j].panic = run[j].panic
    BY <1>q DEF SendError, Return, Run
<1>8. PanicAgain(j) => /\ run[j].pc = "sendError" /\ run[j].ch \in closed
                       /\ run'[j].pc = "leaked"
    BY <1>q DEF PanicAgain, Run
<1> QED BY <1>1, <1>2, <1>3, <1>4, <1>5, <1>6, <1>7, <1>8

LEMMA StreamFields ==
    ASSUME TypeOK, NEW s \in Streams
    PROVE  /\ \A j \in Jobs : Connect(s, j) =>
                /\ stream[s].pc = "idle" /\ stream'[s].pc = "register"
                /\ stream'[s].job = j /\ stream'[s].got = stream[s].got
           /\ Register(s) =>
                /\ stream[s].pc = "register" /\ stream'[s].pc = "open"
                /\ stream'[s].job = stream[s].job /\ stream'[s].got = stream[s].got
           /\ ReceiveClosed(s) \/ Leave(s) =>
                /\ stream[s].pc = "open" /\ stream'[s].pc = "ended"
                /\ stream'[s].job = stream[s].job /\ stream'[s].got = stream[s].got
           /\ Receive(s) =>
                /\ stream[s].pc = "open" /\ stream'[s].job = stream[s].job
                /\ stream'[s].got = Append(stream[s].got, Head(buf[s]))
                /\ stream'[s].pc = IF Terminal(Head(buf[s])) THEN "ended" ELSE "open"
                /\ \A t \in Streams \ {s} : buf'[t] = buf[t]
                /\ buf'[s] = Tail(buf[s])
<1>q. stream[s] \in Stream /\ stream \in [Streams -> Stream]
    BY DEF TypeOK
<1>1. \A j \in Jobs : Connect(s, j) =>
        /\ stream[s].pc = "idle" /\ stream'[s].pc = "register"
        /\ stream'[s].job = j /\ stream'[s].got = stream[s].got
    BY <1>q DEF Connect, Stream
<1>2. Register(s) =>
        /\ stream[s].pc = "register" /\ stream'[s].pc = "open"
        /\ stream'[s].job = stream[s].job /\ stream'[s].got = stream[s].got
    BY <1>q DEF Register, Stream
<1>3. ReceiveClosed(s) \/ Leave(s) =>
        /\ stream[s].pc = "open" /\ stream'[s].pc = "ended"
        /\ stream'[s].job = stream[s].job /\ stream'[s].got = stream[s].got
    BY <1>q DEF ReceiveClosed, Leave, End, Stream
<1>4. Receive(s) =>
        /\ stream[s].pc = "open" /\ stream'[s].job = stream[s].job
        /\ stream'[s].got = Append(stream[s].got, Head(buf[s]))
        /\ stream'[s].pc = IF Terminal(Head(buf[s])) THEN "ended" ELSE "open"
    BY <1>q DEF Receive, Stream
<1>5. Receive(s) => /\ \A t \in Streams \ {s} : buf'[t] = buf[t]
                    /\ buf'[s] = Tail(buf[s])
    BY DEF Receive, TypeOK
<1> QED BY <1>1, <1>2, <1>3, <1>4, <1>5

LEMMA StreamFrame ==
    ASSUME TypeOK, NEW s \in Streams, StreamAction(s), NEW t \in Streams \ {s}
    PROVE  stream'[t] = stream[t]
BY StreamShape DEF TypeOK

-----------------------------------------------------------------------------
(* The hub.                                                                *)

\* The hub holds channels of handlers that serve the job and are not closed.
Listening ==
    \A j \in Jobs : clients[j] # None =>
        /\ stream[clients[j]].pc = "open" /\ stream[clients[j]].job = j
        /\ clients[j] \notin closed

\* Only registered channels are closed.
ClosedUsed == \A s \in closed : stream[s].pc \in {"open", "ended"}

\* A handler that has not registered has heard nothing.
Fresh == \A s \in Streams : stream[s].pc \in {"idle", "register"} =>
            buf[s] = <<>> /\ stream[s].got = <<>>

\* A pipeline sends to a handler of its job.
Sending == \A j \in Jobs : run[j].pc \in {"send", "sendError"} =>
            /\ stream[run[j].ch].job = j
            /\ stream[run[j].ch].pc \in {"open", "ended"}

\* A status that counts as running belongs to a pipeline at work.
Reported == \A j \in Jobs : pipes[j] \in {"PENDING", "PROCESSING"} =>
            run[j].pc \in {"work", "send", "finish"}

HubInv == Listening /\ ClosedUsed /\ Fresh /\ Sending /\ Reported

LEMMA InitHub == Init => HubInv
BY DEF Init, HubInv, Listening, ClosedUsed, Fresh, Sending, Reported, NoStream, NoRun

\* A pipeline puts its event into the channel it looked up.
LEMMA BufFrame ==
    ASSUME Types, NEW j \in Jobs, PipelineAction(j), NEW t \in Streams, buf'[t] # buf[t]
    PROVE  run[j].pc \in {"send", "sendError"} /\ t = run[j].ch
<1>1. buf \in [Streams -> Seq(Event)]
    BY DEF Types, TypeOK
<1>2. Send(j) \/ SendError(j)
    BY DEF PipelineAction, PipelineStep, BeginPipeline, StopEarly, Broadcast, Panic,
           FinishPipeline, PanicAgain, ForgetPipeline, hub
<1>3. run[j].pc \in {"send", "sendError"} /\ run[j].ch \in Streams
    BY <1>2 DEF Send, SendError, Types, Addressed
<1>4. PICK e : Put(run[j].ch, e)
    BY <1>2 DEF Send, SendError
<1> QED BY <1>1, <1>3, <1>4 DEF Put

LEMMA PipelineHub ==
    ASSUME Types, HubInv, NEW j \in Jobs, PipelineAction(j)
    PROVE  HubInv'
<1>t. TypeOK
    BY DEF Types
<1>f. /\ UNCHANGED <<clients, closed, stream>>
      /\ \A k \in Jobs \ {j} : run'[k] = run[k]
    BY <1>t, RunFrame
<1>1. Listening' /\ ClosedUsed'
    BY <1>f DEF HubInv, Listening, ClosedUsed
<1>2. Fresh'
    <2>1. ASSUME NEW t \in Streams, stream[t].pc \in {"idle", "register"}
          PROVE  buf'[t] = buf[t]
        BY <2>1, BufFrame DEF HubInv, Sending
    <2> QED BY <1>f, <2>1 DEF HubInv, Fresh
<1>3. Sending'
    <2>1. CASE run'[j].pc \in {"send", "sendError"}
        <3>1. run'[j] = run[j] \/ (run'[j].ch = clients[j] /\ clients[j] # None)
            BY <2>1, <1>t, RunFields DEF PipelineAction, PipelineStep, ForgetPipeline
        <3> QED BY <1>f, <3>1 DEF HubInv, Sending, Listening
    <2>2. CASE run'[j].pc \notin {"send", "sendError"}
        BY <1>f, <2>2 DEF HubInv, Sending
    <2> QED BY <2>1, <2>2
<1>4. Reported'
    <2>p. pipes \in [Jobs -> Statuses]
        BY DEF Types, TypeOK
    <2>1. \A k \in Jobs \ {j} : pipes'[k] = pipes[k]
        BY <2>p DEF PipelineAction, PipelineStep, BeginPipeline, StopEarly, Broadcast, Panic,
               Send, FinishPipeline, SendError, PanicAgain, ForgetPipeline
    <2>2. pipes'[j] \in {"PENDING", "PROCESSING"} => run'[j].pc \in {"work", "send", "finish"}
        <3>1. CASE BeginPipeline(j) \/ StopEarly(j) \/ Broadcast(j) \/ Panic(j) \/ Send(j)
            BY <3>1, <1>t, RunFields
        <3>2. CASE FinishPipeline(j)
            BY <3>2, <2>p DEF FinishPipeline
        <3>3. CASE SendError(j) \/ PanicAgain(j)
            BY <3>3, <1>t, RunFields DEF SendError, PanicAgain, HubInv, Reported
        <3>4. CASE ForgetPipeline(j)
            BY <3>4, <2>p DEF ForgetPipeline
        <3> QED BY <3>1, <3>2, <3>3, <3>4 DEF PipelineAction, PipelineStep
    <2> QED BY <1>f, <2>1, <2>2 DEF HubInv, Reported
<1> QED BY <1>1, <1>2, <1>3, <1>4 DEF HubInv

\* What a stream may do to the hub: nothing, register, or unregister its job.
LEMMA HubSteps ==
    ASSUME Types, NEW s \in Streams, StreamAction(s)
    PROVE  \/ UNCHANGED <<clients, closed>> /\ ~ Register(s)
              /\ (stream[s].pc = "open" => stream'[s].pc = "open")
           \/ Register(s)
           \/ /\ Unregister(stream[s].job) /\ stream[s].pc = "open"
              /\ stream'[s].pc = "ended" /\ stream'[s].job = stream[s].job
<1>1. ASSUME NEW j \in Jobs, Connect(s, j)
      PROVE  UNCHANGED <<clients, closed>> /\ ~ Register(s) /\ stream[s].pc = "idle"
    BY <1>1 DEF Connect, Register, hub
<1>2. CASE Receive(s)
    <2>0. /\ stream[s].pc = "open" /\ stream'[s].job = stream[s].job
          /\ stream'[s].pc = IF Terminal(Head(buf[s])) THEN "ended" ELSE "open"
        BY <1>2, StreamFields DEF Types
    <2>1. CASE Terminal(Head(buf[s]))
        BY <1>2, <2>0, <2>1 DEF Receive
    <2>2. CASE ~ Terminal(Head(buf[s]))
        <3>1. UNCHANGED <<clients, closed>>
            BY <1>2, <2>2 DEF Receive
        <3>2. ~ Register(s)
            BY <2>0 DEF Register
        <3> QED BY <2>0, <2>2, <3>1, <3>2
    <2> QED BY <2>1, <2>2
<1>3. CASE ReceiveClosed(s) \/ Leave(s)
    BY <1>3, StreamFields DEF ReceiveClosed, Leave, End, Types
<1> QED BY <1>1, <1>2, <1>3 DEF StreamAction, StreamStep

LEMMA StreamHub ==
    ASSUME Types, HubInv, NEW s \in Streams, StreamAction(s)
    PROVE  HubInv'
<1>t. /\ TypeOK /\ clients \in [Jobs -> Streams \cup {None}] /\ closed \subseteq Streams
      /\ stream[s].pc # "idle" => stream[s].job \in Jobs
    BY DEF Types, TypeOK, HasJob
<1>f. \A t \in Streams \ {s} : stream'[t] = stream[t]
    BY <1>t, StreamFrame
<1>u. UNCHANGED <<pipes, run>>
    BY <1>t, StreamShape
<1>p. /\ stream[s].pc # "idle" => stream'[s].job = stream[s].job
      /\ stream[s].pc = "register" => stream'[s].pc = "open"
      /\ stream[s].pc \in {"open", "ended"} => stream'[s].pc \in {"open", "ended"}
    BY <1>t, StreamFields DEF StreamAction, StreamStep
<1>1. Listening' /\ ClosedUsed'
    <2>1. CASE UNCHANGED <<clients, closed>> /\ (stream[s].pc = "open" => stream'[s].pc = "open")
        <3>1. Listening'
            BY <2>1, <1>t, <1>f, <1>p DEF HubInv, Listening
        <3>2. ClosedUsed'
            BY <2>1, <1>t, <1>f, <1>p DEF HubInv, ClosedUsed
        <3> QED BY <3>1, <3>2
    <2>2. CASE Register(s)
        <3>1. /\ clients' = [clients EXCEPT ![stream[s].job] = s] /\ closed' = closed
              /\ stream[s].pc = "register" /\ stream'[s].pc = "open"
              /\ stream'[s].job = stream[s].job /\ stream[s].job \in Jobs
            BY <2>2, <1>t, StreamFields DEF Register
        <3>2. s \notin closed
            BY <3>1 DEF HubInv, ClosedUsed
        <3>3. Listening'
            <4>1. ASSUME NEW j \in Jobs, clients'[j] # None
                  PROVE  /\ stream'[clients'[j]].pc = "open" /\ stream'[clients'[j]].job = j
                         /\ clients'[j] \notin closed'
                <5>1. CASE j = stream[s].job
                    BY <3>1, <3>2, <5>1, <1>t
                <5>2. CASE j # stream[s].job
                    <6>1. clients'[j] = clients[j] /\ clients[j] \in Streams
                        BY <3>1, <5>2, <4>1, <1>t
                    <6>2. /\ stream[clients[j]].pc = "open" /\ stream[clients[j]].job = j
                          /\ clients[j] \notin closed
                        BY <4>1, <6>1 DEF HubInv, Listening
                    <6>3. clients[j] # s
                        BY <3>1, <6>2
                    <6> QED BY <3>1, <6>1, <6>2, <6>3, <1>f
                <5> QED BY <5>1, <5>2
            <4> QED BY <4>1 DEF Listening
        <3>4. ClosedUsed'
            BY <3>1, <1>t, <1>f, <1>p DEF HubInv, ClosedUsed
        <3> QED BY <3>3, <3>4
    <2>3. CASE /\ Unregister(stream[s].job) /\ stream[s].pc = "open"
               /\ stream'[s].pc = "ended" /\ stream'[s].job = stream[s].job
        <3> DEFINE k == stream[s].job
        <3>0. k \in Jobs
            BY <2>3, <1>t
        <3>1. Listening'
            <4>1. ASSUME NEW j \in Jobs, clients'[j] # None
                  PROVE  /\ stream'[clients'[j]].pc = "open" /\ stream'[clients'[j]].job = j
                         /\ clients'[j] \notin closed'
                <5>1. j # k /\ clients'[j] = clients[j] /\ clients[j] \in Streams
                    BY <2>3, <3>0, <4>1, <1>t DEF Unregister
                <5>2. /\ stream[clients[j]].pc = "open" /\ stream[clients[j]].job = j
                      /\ clients[j] \notin closed
                    BY <4>1, <5>1 DEF HubInv, Listening
                <5>3. clients[j] # s
                    BY <5>1, <5>2
                <5>4. clients[k] # clients[j]
                    BY <3>0, <5>1, <5>2, <1>t DEF HubInv, Listening
                <5>5. closed' \subseteq closed \cup {clients[k]}
                    BY <2>3 DEF Unregister
                <5> QED BY <5>1, <5>2, <5>3, <5>4, <5>5, <1>f
            <4> QED BY <4>1 DEF Listening
        <3>2. ClosedUsed'
            <4>1. closed' = closed \/ (closed' = closed \cup {clients[k]} /\ clients[k] # None)
                BY <2>3 DEF Unregister
            <4>2. clients[k] # None => clients[k] \in Streams /\ stream[clients[k]].pc = "open"
                BY <3>0, <1>t DEF HubInv, Listening
            <4>3. \A c \in closed' : c \in Streams /\ stream[c].pc \in {"open", "ended"}
                BY <4>1, <4>2, <1>t DEF HubInv, ClosedUsed
            <4> QED BY <4>3, <1>f, <1>p DEF ClosedUsed
        <3> QED BY <3>1, <3>2
    <2> QED BY <2>1, <2>2, <2>3, HubSteps
<1>2. Fresh'
    <2>1. \A t \in Streams \ {s} : buf'[t] = buf[t]
        BY <1>t, StreamFields
           DEF StreamAction, StreamStep, Register, ReceiveClosed, Leave, Connect, hub
    <2>2. stream'[s].pc \in {"idle", "register"} => buf'[s] = <<>> /\ stream'[s].got = <<>>
        <3>1. ASSUME NEW j \in Jobs, Connect(s, j)
              PROVE  buf'[s] = <<>> /\ stream'[s].got = <<>>
            BY <3>1, <1>t, StreamFields DEF Connect, hub, HubInv, Fresh
        <3>2. CASE StreamStep(s) \/ Leave(s)
            BY <3>2, <1>t, StreamFields DEF StreamStep
        <3> QED BY <3>1, <3>2 DEF StreamAction
    <2> QED BY <1>f, <2>1, <2>2 DEF HubInv, Fresh
<1>3. Sending'
    <2>1. ASSUME NEW j \in Jobs, run[j].pc \in {"send", "sendError"}
          PROVE  /\ stream'[run[j].ch].job = j
                 /\ stream'[run[j].ch].pc \in {"open", "ended"}
        <3>1. /\ stream[run[j].ch].job = j /\ stream[run[j].ch].pc \in {"open", "ended"}
              /\ run[j].ch \in Streams
            BY <2>1 DEF HubInv, Sending, Types, Addressed
        <3> QED BY <3>1, <1>f, <1>p
    <2> QED BY <1>u, <2>1 DEF Sending
<1>4. Reported'
    BY <1>u DEF HubInv, Reported
<1> QED BY <1>1, <1>2, <1>3, <1>4 DEF HubInv

LEMMA DrainHub ==
    ASSUME Types, HubInv, Drain
    PROVE  HubInv'
<1>1. Listening'
    BY DEF Drain, Listening
<1>2. ClosedUsed'
    BY DEF Drain, HubInv, ClosedUsed, Listening
<1>3. Fresh' /\ Sending' /\ Reported'
    BY DEF Drain, HubInv, Fresh, Sending, Reported
<1> QED BY <1>1, <1>2, <1>3 DEF HubInv

LEMMA NextHub == Types /\ HubInv /\ [Next]_vars => HubInv'
<1> SUFFICES ASSUME Types, HubInv, [Next]_vars PROVE HubInv'
    OBVIOUS
<1>1. ASSUME NEW j \in Jobs, PipelineAction(j) PROVE HubInv'
    BY <1>1, PipelineHub
<1>2. ASSUME NEW s \in Streams, StreamAction(s) PROVE HubInv'
    BY <1>2, StreamHub
<1>3. CASE Drain
    BY <1>3, DrainHub
<1>4. CASE UNCHANGED vars
    BY <1>4 DEF vars, HubInv, Listening, ClosedUsed, Fresh, Sending, Reported
<1> QED BY <1>1, <1>2, <1>3, <1>4 DEF Next, Stopped, PipelineAction, StreamAction

\* Whatever streams register, replace each other, end and leave, and whenever
\* the hub is drained, no channel the hub holds is closed or held twice: the
\* close of Unregister and of Drain never panics.
THEOREM ChannelsOpen == Spec => []HubChannelsOpen
<1> DEFINE Inv == Types /\ HubInv
<1>1. Init => Inv
    BY InitTypes, InitHub
<1>2. Inv /\ [Next]_vars => Inv'
    BY NextTypes, NextHub
<1>3. Inv => HubChannelsOpen
    BY DEF HubInv, Listening, HubChannelsOpen
<1> QED BY <1>1, <1>2, <1>3, PTL DEF Spec

\* IsJobRunning never answers for a pipeline that is over and a stream that
\* has gone: no entry of the two maps it looks at outlives its goroutine as
\* a running one.
THEOREM RunningIsServed == Spec => []RunningMeansSomeone
<1> DEFINE Inv == Types /\ HubInv
<1>1. Init => Inv
    BY InitTypes, InitHub
<1>2. Inv /\ [Next]_vars => Inv'
    BY NextTypes, NextHub
<1>3. Inv => RunningMeansSomeone
    <2> SUFFICES ASSUME Inv, NEW j \in Jobs, IsJobRunning(j)
                 PROVE  \/ run[j].pc \in {"work", "send", "finish"}
                        \/ \E s \in Streams : stream[s].pc = "open" /\ stream[s].job = j
        BY DEF RunningMeansSomeone
    <2>1. CASE clients[j] # None
        <3>1. clients[j] \in Streams
            BY <2>1 DEF Types, TypeOK
        <3> QED BY <2>1, <3>1 DEF HubInv, Listening
    <2>2. CASE clients[j] = None
        BY <2>2 DEF IsJobRunning, HubInv, Reported
    <2> QED BY <2>1, <2>2
<1> QED BY <1>1, <1>2, <1>3, PTL DEF Spec

-----------------------------------------------------------------------------
(* A job none of whose streams is closed early.                            *)

\* The number of the last event that reached its channel.
Sent(j) == IF run[j].pc \in {"send", "sendError"} THEN run[j].n - 1 ELSE run[j].n

\* Nothing more will be sent.
SaidAll(j) == run[j].pc = "over" \/ (run[j].pc = "finish" /\ run[j].success)

\* A buffer whose events lead up to number m, a terminal one the last.
BufOK(b, m) ==
    \A i \in 1 .. Len(b) :
        /\ b[i].n = m - (Len(b) - i) /\ b[i].n >= 1
        /\ Terminal(b[i]) => i = Len(b)

\* Events written without a gap, only the last of them terminal.
GotOK(g) ==
    \A i \in 1 .. Len(g) - 1 : g[i + 1].n = g[i].n + 1 /\ ~ Terminal(g[i])

\* The buffer goes on where the written events end.
Joins(g, b, m) == g # <<>> => ~ Terminal(g[Len(g)]) /\ g[Len(g)].n = m - Len(b)

Heard(s, j) ==
    /\ GotOK(stream[s].got)
    /\ stream[s].pc = "open" =>
           /\ BufOK(buf[s], Sent(j)) /\ Joins(stream[s].got, buf[s], Sent(j))
           /\ \A i \in 1 .. Len(buf[s]) : Terminal(buf[s][i]) => SaidAll(j)
    /\ stream[s].pc = "ended" =>
           /\ stream[s].got # <<>> /\ Terminal(stream[s].got[Len(stream[s].got)])

\* The open stream is the one the hub holds.
Sole(j) ==
    /\ \A s \in Streams : stream[s].job = j /\ stream[s].pc = "open" => clients[j] = s
    /\ run[j].pc \in {"send", "sendError"} => clients[j] = run[j].ch

Counting(j) ==
    /\ ~ run[j].panic
    /\ run[j].pc = "idle" => run[j].n = 0
    /\ run[j].pc = "work" \/ (run[j].pc = "finish" /\ ~ run[j].success) => run[j].n < Steps
    /\ run[j].pc \in {"send", "sendError"} => 1 <= run[j].n /\ run[j].n <= Steps

Calm(j) ==
    j \notin broken =>
        /\ Sole(j) /\ Counting(j)
        /\ \A s \in Streams : stream[s].job = j => Heard(s, j)

LEMMA BufLen ==
    ASSUME NEW b \in Seq(Event), NEW m \in Nat, BufOK(b, m)
    PROVE  Len(b) <= m
<1>1. CASE Len(b) = 0
    BY <1>1
<1>2. CASE Len(b) # 0
    <2>1. Len(b) \in Nat /\ 1 \in 1 .. Len(b)
        BY <1>2
    <2>2. b[1].n = m - (Len(b) - 1) /\ b[1].n >= 1
        BY <2>1 DEF BufOK
    <2> QED BY <2>1, <2>2
<1> QED BY <1>1, <1>2

LEMMA BufPut ==
    ASSUME NEW b \in Seq(Event), NEW m \in Nat, NEW e \in Event, BufOK(b, m),
           e.n = m + 1, \A i \in 1 .. Len(b) : ~ Terminal(b[i])
    PROVE  BufOK(Append(b, e), m + 1)
<1> DEFINE c == Append(b, e)
<1>1. /\ Len(b) \in Nat /\ Len(c) = Len(b) + 1 /\ c[Len(b) + 1] = e
      /\ \A i \in 1 .. Len(b) : c[i] = b[i]
    OBVIOUS
<1> HIDE DEF c
<1>2. ASSUME NEW i \in 1 .. Len(c)
      PROVE  /\ c[i].n = m + 1 - (Len(c) - i) /\ c[i].n >= 1
             /\ Terminal(c[i]) => i = Len(c)
    <2>1. CASE i = Len(c)
        BY <1>1, <2>1
    <2>2. CASE i # Len(c)
        <3>1. i \in 1 .. Len(b) /\ c[i] = b[i]
            BY <1>1, <2>2
        <3>2. b[i].n = m - (Len(b) - i) /\ b[i].n >= 1 /\ ~ Terminal(b[i])
            BY <3>1 DEF BufOK
        <3>3. m + 1 - (Len(c) - i) = m - (Len(b) - i)
            BY <1>1, <3>1
        <3> QED BY <3>1, <3>2, <3>3
    <2> QED BY <2>1, <2>2
<1>3. BufOK(c, m + 1)
    BY <1>2 DEF BufOK
<1> QED BY <1>3 DEF c

LEMMA BufTail ==
    ASSUME NEW b \in Seq(Event), NEW m \in Nat, BufOK(b, m), b # <<>>
    PROVE  /\ BufOK(Tail(b), m) /\ Len(Tail(b)) = Len(b) - 1
           /\ Head(b) \in Event /\ Head(b).n = m - (Len(b) - 1)
           /\ Terminal(Head(b)) => Len(b) = 1
           /\ \A i \in 1 .. Len(Tail(b)) : i + 1 \in 1 .. Len(b) /\ Tail(b)[i] = b[i + 1]
<1> DEFINE c == Tail(b)
<1>1. /\ Len(b) \in Nat /\ Len(b) >= 1 /\ Len(c) = Len(b) - 1 /\ Head(b) = b[1]
      /\ \A i \in 1 .. Len(c) : i + 1 \in 1 .. Len(b) /\ c[i] = b[i + 1]
      /\ b[1] \in Event
    OBVIOUS
<1> HIDE DEF c
<1>2. 1 \in 1 .. Len(b)
    BY <1>1
<1>3. b[1].n = m - (Len(b) - 1) /\ (Terminal(b[1]) => 1 = Len(b))
    BY <1>2 DEF BufOK
<1>4. ASSUME NEW i \in 1 .. Len(c)
      PROVE  /\ c[i].n = m - (Len(c) - i) /\ c[i].n >= 1
             /\ Terminal(c[i]) => i = Len(c)
    <2>1. i + 1 \in 1 .. Len(b) /\ c[i] = b[i + 1]
        BY <1>1
    <2>2. /\ b[i + 1].n = m - (Len(b) - (i + 1)) /\ b[i + 1].n >= 1
          /\ Terminal(b[i + 1]) => i + 1 = Len(b)
        BY <2>1 DEF BufOK
    <2> QED BY <1>1, <2>1, <2>2
<1>5. BufOK(c, m)
    BY <1>4 DEF BufOK
<1> QED BY <1>1, <1>3, <1>5 DEF c

LEMMA GotAppend ==
    ASSUME NEW g \in Seq(Event), NEW e \in Event, GotOK(g),
           g # <<>> => ~ Terminal(g[Len(g)]) /\ e.n = g[Len(g)].n + 1
    PROVE  /\ GotOK(Append(g, e)) /\ Append(g, e) # <<>>
           /\ Append(g, e)[Len(Append(g, e))] = e
<1> DEFINE c == Append(g, e)
<1>1. /\ Len(g) \in Nat /\ Len(c) = Len(g) + 1 /\ c[Len(g) + 1] = e /\ c # <<>>
      /\ \A i \in 1 .. Len(g) : c[i] = g[i]
    OBVIOUS
<1>2. Len(g) > 0 => g # <<>>
    OBVIOUS
<1> HIDE DEF c
<1>3. ASSUME NEW i \in 1 .. Len(c) - 1
      PROVE  c[i + 1].n = c[i].n + 1 /\ ~ Terminal(c[i])
    <2>1. i \in 1 .. Len(g) /\ c[i] = g[i]
        BY <1>1
    <2>2. CASE i = Len(g)
        <3>1. c[i + 1] = e /\ g # <<>>
            BY <1>1, <1>2, <2>1, <2>2
        <3> QED BY <2>1, <2>2, <3>1
    <2>3. CASE i # Len(g)
        <3>1. i \in 1 .. Len(g) - 1 /\ i + 1 \in 1 .. Len(g)
            BY <1>1, <2>1, <2>3
        <3>2. c[i + 1] = g[i + 1]
            BY <1>1, <3>1
        <3> QED BY <2>1, <3>1, <3>2 DEF GotOK
    <2> QED BY <2>2, <2>3
<1>4. GotOK(c)
    BY <1>3 DEF GotOK
<1>5. c[Len(c)] = e
    BY <1>1
<1> QED BY <1>1, <1>4, <1>5 DEF c

LEMMA InitCalm == Init => \A j \in Jobs : Calm(j)
BY DEF Init, Calm, Sole, Counting, NoRun, NoStream

LEMMA SentNat ==
    ASSUME Types, NEW j \in Jobs, Counting(j)
    PROVE  Sent(j) \in Nat
BY DEF Types, TypeOK, Run, Counting, Sent

\* A handler that takes no part in a step that sends nothing to it.
LEMMA HeardSame ==
    ASSUME NEW s \in Streams, NEW j \in Jobs, Heard(s, j),
           stream'[s] = stream[s], buf'[s] = buf[s],
           stream[s].pc = "open" => Sent(j)' = Sent(j) /\ (SaidAll(j) => SaidAll(j)')
    PROVE  Heard(s, j)'
<1>1. CASE stream[s].pc = "open"
    <2>1. Sent(j)' = Sent(j) /\ (SaidAll(j) => SaidAll(j)')
        BY <1>1
    <2>2. BufOK(buf'[s], Sent(j)') /\ Joins(stream'[s].got, buf'[s], Sent(j)')
        BY <1>1, <2>1 DEF Heard
    <2>3. \A i \in 1 .. Len(buf'[s]) : Terminal(buf'[s][i]) => SaidAll(j)'
        BY <1>1, <2>1 DEF Heard
    <2>4. GotOK(stream'[s].got)
        BY DEF Heard
    <2> QED BY <1>1, <2>2, <2>3, <2>4 DEF Heard, GotOK, BufOK, Joins, Terminal
<1>2. CASE stream[s].pc # "open"
    BY <1>2 DEF Heard, GotOK, Terminal
<1> QED BY <1>1, <1>2

\* The event of broadcast or emitTerminalEvent finds room and is appended.
LEMMA HeardPut ==
    ASSUME Types, HubInv, NEW j \in Jobs, Sole(j), Counting(j),
           \A s \in Streams : stream[s].job = j => Heard(s, j),
           run[j].pc \in {"send", "sendError"}, UNCHANGED <<stream, closed>>,
           run'[j].pc \notin {"send", "sendError"}, run'[j].n = run[j].n,
           NEW e \in Event, Put(run[j].ch, e), e.n = run[j].n, Terminal(e) => SaidAll(j)'
    PROVE  \A s \in Streams : stream'[s].job = j => Heard(s, j)'
<1>0. run[j].ch \in Streams /\ run[j].n \in Nat /\ 1 <= run[j].n
    BY DEF Types, TypeOK, Addressed, Run, Counting
<1>c. PICK c \in Streams : c = run[j].ch
    BY <1>0
<1>m. PICK m \in Nat : m = run[j].n - 1
    BY <1>0
<1>1. /\ c \in Streams /\ stream[c].job = j /\ clients[j] = c /\ stream[c].pc = "open"
      /\ buf \in [Streams -> Seq(Event)] /\ run[j].n \in Nat
    BY <1>0, <1>c DEF Types, TypeOK, HubInv, Sending, Listening, Sole
<1>2. m \in Nat /\ m < Steps /\ Sent(j) = m /\ Sent(j)' = m + 1
    BY <1>1, <1>m DEF Counting, Sent
<1>3. ~ SaidAll(j)
    BY DEF SaidAll
<1>4. /\ GotOK(stream[c].got) /\ BufOK(buf[c], m) /\ Joins(stream[c].got, buf[c], m)
      /\ \A i \in 1 .. Len(buf[c]) : ~ Terminal(buf[c][i])
    BY <1>1, <1>2, <1>3 DEF Heard
<1>5. Len(buf[c]) <= m
    BY <1>1, <1>2, <1>4, BufLen
<1>6. Len(buf[c]) < Cap
    <2>1. Len(buf[c]) \in Nat
        BY <1>1
    <2> QED BY <1>2, <1>5, <2>1
<1>7. buf' = [buf EXCEPT ![c] = Append(@, e)]
    BY <1>c, <1>6 DEF Put
<1>8. /\ buf'[c] = Append(buf[c], e) /\ \A s \in Streams \ {c} : buf'[s] = buf[s]
    BY <1>1, <1>7
<1>9. Heard(c, j)'
    <2>1. BufOK(buf'[c], Sent(j)')
        <3>1. e.n = m + 1
            BY <1>m, <1>0
        <3>2. BufOK(Append(buf[c], e), m + 1)
            BY <1>1, <1>2, <1>4, <3>1, BufPut
        <3> QED BY <1>2, <1>8, <3>2
    <2>2. Len(buf'[c]) = Len(buf[c]) + 1 /\ Len(buf[c]) \in Nat
        BY <1>1, <1>8
    <2>3. Joins(stream'[c].got, buf'[c], Sent(j)')
        <3>1. m + 1 - Len(buf'[c]) = m - Len(buf[c])
            BY <1>2, <2>2
        <3>2. stream'[c].got = stream[c].got
            OBVIOUS
        <3>3. stream[c].got # <<>> =>
                /\ ~ Terminal(stream[c].got[Len(stream[c].got)])
                /\ stream[c].got[Len(stream[c].got)].n = m - Len(buf[c])
            BY <1>4 DEF Joins
        <3>4. Sent(j)' - Len(buf'[c]) = m - Len(buf[c])
            BY <1>2, <3>1
        <3> QED BY <3>2, <3>3, <3>4 DEF Joins
    <2>4. \A i \in 1 .. Len(buf'[c]) : Terminal(buf'[c][i]) => SaidAll(j)'
        <3>1. ASSUME NEW i \in 1 .. Len(buf'[c]), Terminal(buf'[c][i]) PROVE buf'[c][i] = e
            <4>1. i \in 1 .. Len(buf[c]) \/ i = Len(buf[c]) + 1
                BY <2>2
            <4> QED BY <1>1, <1>4, <1>8, <3>1, <4>1
        <3> QED BY <3>1
    <2> QED BY <1>1, <1>4, <2>1, <2>3, <2>4 DEF Heard, GotOK, BufOK, Joins, Terminal
<1>10. ASSUME NEW s \in Streams \ {c}, stream[s].job = j PROVE Heard(s, j)'
    <2>1. stream[s].pc # "open"
        BY <1>1, <1>10 DEF Sole
    <2>2. Heard(s, j)
        BY <1>10
    <2> QED BY <1>8, <2>1, <2>2, HeardSame
<1> QED BY <1>9, <1>10

LEMMA PipelineCalm ==
    ASSUME Types, HubInv, NEW j \in Jobs, PipelineAction(j), NEW k \in Jobs, Calm(k)
    PROVE  Calm(k)'
<1>t. TypeOK /\ run[j] \in Run
    BY DEF Types, TypeOK
<1>f. /\ UNCHANGED <<clients, closed, stream, broken>>
      /\ \A i \in Jobs \ {j} : run'[i] = run[i]
    BY <1>t, RunFrame
<1>1. CASE k # j
    <2>1. ASSUME NEW s \in Streams, stream[s].job = k PROVE buf'[s] = buf[s]
        BY <1>1, <2>1, BufFrame DEF HubInv, Sending
    <2>2. run'[k] = run[k]
        BY <1>1, <1>f
    <2>3. ASSUME NEW s \in Streams, stream[s].job = k, Heard(s, k) PROVE Heard(s, k)'
        BY <2>1, <2>2, <2>3, <1>f, HeardSame DEF Sent, SaidAll
    <2> QED BY <1>f, <2>2, <2>3 DEF Calm, Sole, Counting
<1>2. CASE k = j /\ j \in broken
    BY <1>2, <1>f DEF Calm
<1>3. CASE k = j /\ j \notin broken
    <2>c. /\ Sole(j) /\ Counting(j) /\ run[j].n \in Nat
          /\ \A s \in Streams : stream[s].job = j => Heard(s, j)
        BY <1>3, <1>t DEF Calm, Run
    <2>o. run[j].pc \in {"send", "sendError"} => run[j].ch \notin closed
        BY <2>c DEF Sole, HubInv, Listening, Types, Addressed
    <2> SUFFICES /\ Sole(j)' /\ Counting(j)'
                 /\ \A s \in Streams : stream'[s].job = j => Heard(s, j)'
        BY <1>3 DEF Calm
    <2>h. ASSUME buf' = buf, Sent(j)' = Sent(j), SaidAll(j) => SaidAll(j)'
          PROVE  \A s \in Streams : stream'[s].job = j => Heard(s, j)'
        BY <2>h, <2>c, <1>f, HeardSame
    <2>s. run'[j].pc \notin {"send", "sendError"} => Sole(j)'
        BY <2>c, <1>f DEF Sole
    <2>1. CASE BeginPipeline(j)
        <3>1. buf' = buf
            BY <2>1 DEF BeginPipeline, hub
        <3>2. /\ run[j].pc = "idle" /\ run'[j].pc = "work"
              /\ run'[j].n = run[j].n /\ run'[j].panic = run[j].panic
            BY <2>1, <1>t, RunFields
        <3>3. Sent(j)' = Sent(j) /\ ~ SaidAll(j)
            BY <3>2 DEF Sent, SaidAll
        <3>4. Counting(j)'
            BY <2>c, <3>2 DEF Counting
        <3> QED BY <2>h, <2>s, <3>1, <3>2, <3>3, <3>4
    <2>2. CASE StopEarly(j)
        <3>1. buf' = buf
            BY <2>2 DEF StopEarly, hub
        <3>2. /\ run[j].pc = "work" /\ run'[j].pc = "finish"
              /\ run'[j].n = run[j].n /\ run'[j].panic = run[j].panic
            BY <2>2, <1>t, RunFields
        <3>3. Sent(j)' = Sent(j) /\ ~ SaidAll(j)
            BY <3>2 DEF Sent, SaidAll
        <3>4. Counting(j)'
            BY <2>c, <3>2 DEF Counting
        <3> QED BY <2>h, <2>s, <3>1, <3>2, <3>3, <3>4
    <2>3. CASE Broadcast(j)
        <3>1. buf' = buf
            BY <2>3 DEF Broadcast, hub
        <3>2. /\ run[j].pc = "work" /\ run'[j].ch = clients[j] /\ run[j].n < Steps
              /\ run'[j].n = run[j].n + 1 /\ run'[j].panic = run[j].panic
              /\ run'[j].pc \in {"send", "finish", "work"}
              /\ run'[j].pc = "send" <=> clients[j] # None
              /\ run'[j].pc = "work" => run[j].n + 1 # Steps
              /\ run'[j].pc = "finish" => run'[j].success
            BY <2>3, <1>t, RunFields
        <3>3. Counting(j)'
            BY <2>c, <3>2 DEF Counting
        <3>4. Sole(j)'
            BY <2>c, <1>f, <3>2 DEF Sole
        <3>5. CASE clients[j] # None
            <4>1. Sent(j)' = Sent(j) /\ ~ SaidAll(j)
                BY <2>c, <3>2, <3>5 DEF Sent, SaidAll
            <4> QED BY <2>h, <3>1, <3>3, <3>4, <4>1
        <3>6. CASE clients[j] = None
            <4>1. ASSUME NEW s \in Streams, stream[s].job = j PROVE Heard(s, j)'
                <5>1. stream[s].pc # "open"
                    BY <2>c, <3>6, <4>1 DEF Sole
                <5> QED BY <2>c, <3>1, <4>1, <5>1, <1>f, HeardSame
            <4> QED BY <3>3, <3>4, <4>1, <1>f
        <3> QED BY <3>5, <3>6
    <2>4. CASE Panic(j) \/ PanicAgain(j)
        BY <2>4, <2>o, <1>t, RunFields
    <2>5. CASE Send(j)
        <3> DEFINE e == [kind |-> IF run[j].n = Steps THEN "done" ELSE "progress",
                         n |-> run[j].n]
        <3>1. e \in Event /\ e.n = run[j].n /\ (Terminal(e) => run[j].n = Steps)
            BY <2>c DEF Event, Kinds, Terminal
        <3>2. /\ run[j].pc = "send" /\ run'[j].n = run[j].n
              /\ run'[j].pc = IF run[j].n = Steps THEN "finish" ELSE "work"
              /\ run'[j].success = (run[j].n = Steps)
              /\ run'[j].panic = run[j].panic
            BY <2>5, <1>t, RunFields
        <3>3. Put(run[j].ch, e)
            BY <2>5 DEF Send
        <3>4. Terminal(e) => SaidAll(j)'
            BY <3>1, <3>2 DEF SaidAll
        <3>5. Counting(j)'
            <4>1. CASE run[j].n = Steps
                BY <2>c, <3>2, <4>1 DEF Counting
            <4>2. CASE run[j].n # Steps
                <5>1. run'[j].pc = "work" /\ run'[j].n < Steps
                    BY <2>c, <3>2, <4>2 DEF Counting
                <5> QED BY <2>c, <3>2, <5>1 DEF Counting
            <4> QED BY <4>1, <4>2
        <3> HIDE DEF e
        <3>6. \A s \in Streams : stream'[s].job = j => Heard(s, j)'
            BY <2>c, <3>1, <3>2, <3>3, <3>4, <1>f, HeardPut
        <3> QED BY <2>s, <3>2, <3>5, <3>6
    <2>6. CASE FinishPipeline(j)
        <3>1. buf' = buf
            BY <2>6 DEF FinishPipeline, hub
        <3>2. /\ run[j].pc = "finish" /\ run'[j].panic = run[j].panic
              /\ \/ /\ run'[j].pc = "sendError" /\ ~ run[j].success /\ clients[j] # None
                    /\ run'[j].ch = clients[j] /\ run'[j].n = run[j].n + 1
                 \/ run'[j].pc = "over" /\ run'[j].n = run[j].n
            BY <2>6, <1>t, RunFields
        <3>3. Sent(j)' = Sent(j) /\ (SaidAll(j) => SaidAll(j)')
            BY <2>c, <3>2 DEF Sent, SaidAll
        <3>4. Counting(j)'
            BY <2>c, <3>2 DEF Counting
        <3>5. Sole(j)'
            BY <2>c, <1>f, <3>2 DEF Sole
        <3> QED BY <2>h, <3>1, <3>3, <3>4, <3>5
    <2>7. CASE SendError(j)
        <3> DEFINE e == [kind |-> "error", n |-> run[j].n]
        <3>1. e \in Event /\ e.n = run[j].n
            BY <2>c DEF Event, Kinds
        <3>2. /\ run[j].pc = "sendError" /\ run'[j].pc = "over"
              /\ run'[j].n = run[j].n /\ run'[j].panic = run[j].panic
            BY <2>7, <1>t, RunFields
        <3>3. Put(run[j].ch, e)
            BY <2>7 DEF SendError
        <3>4. SaidAll(j)'
            BY <3>2 DEF SaidAll
        <3>5. Counting(j)'
            BY <2>c, <3>2 DEF Counting
        <3> HIDE DEF e
        <3>6. \A s \in Streams : stream'[s].job = j => Heard(s, j)'
            BY <2>c, <3>1, <3>2, <3>3, <3>4, <1>f, HeardPut
        <3> QED BY <2>s, <3>2, <3>5, <3>6
    <2>8. CASE ForgetPipeline(j)
        <3>1. buf' = buf /\ run' = run
            BY <2>8 DEF ForgetPipeline, hub
        <3>2. Sent(j)' = Sent(j) /\ (SaidAll(j) => SaidAll(j)')
            BY <3>1 DEF Sent, SaidAll
        <3> QED BY <2>c, <2>h, <3>1, <3>2, <1>f DEF Sole, Counting
    <2> QED BY <2>1, <2>2, <2>3, <2>4, <2>5, <2>6, <2>7, <2>8
            DEF PipelineAction, PipelineStep
<1> QED BY <1>1, <1>2, <1>3

\* The streams of a job that take no part in a step of another stream.
LEMMA OthersHeard ==
    ASSUME Types, NEW s \in Streams, StreamAction(s), NEW k \in Jobs,
           NEW t \in Streams \ {s}, Heard(t, k)
    PROVE  Heard(t, k)'
<1>t. TypeOK
    BY DEF Types
<1>1. stream'[t] = stream[t] /\ run' = run
    BY <1>t, StreamFrame, StreamShape
<1>2. buf'[t] = buf[t]
    BY <1>t, StreamFields
       DEF StreamAction, StreamStep, Register, ReceiveClosed, Leave, Connect, hub
<1>3. Sent(k)' = Sent(k) /\ (SaidAll(k) => SaidAll(k)')
    BY <1>1 DEF Sent, SaidAll
<1> QED BY <1>1, <1>2, <1>3, HeardSame

\* The step of a stream does not disturb another job.
LEMMA OtherJobCalm ==
    ASSUME Types, HubInv, NEW s \in Streams, StreamStep(s) \/ Leave(s),
           NEW k \in Jobs, k # stream[s].job, Calm(k)
    PROVE  Calm(k)'
<1>a. StreamAction(s) /\ TypeOK /\ clients \in [Jobs -> Streams \cup {None}]
    BY DEF StreamAction, Types, TypeOK
<1>j. stream[s].job \in Jobs /\ stream'[s].job = stream[s].job
    BY <1>a, StreamFields DEF StreamStep, Register, Receive, ReceiveClosed, Leave, Types, HasJob
<1>f. run' = run /\ \A t \in Streams \ {s} : stream'[t] = stream[t]
    BY <1>a, StreamFrame, StreamShape
<1>c. clients'[k] = clients[k]
    BY <1>a, <1>j DEF StreamStep, Register, Receive, ReceiveClosed, Leave, End, Unregister
<1>b. k \notin broken' => k \notin broken
    BY DEF StreamStep, Register, Receive, ReceiveClosed, Leave
<1> SUFFICES ASSUME k \notin broken'
             PROVE  /\ Sole(k)' /\ Counting(k)'
                    /\ \A t \in Streams : stream'[t].job = k => Heard(t, k)'
    BY DEF Calm
<1>k. Sole(k) /\ Counting(k) /\ \A t \in Streams : stream[t].job = k => Heard(t, k)
    BY <1>b DEF Calm
<1>1. Counting(k)'
    BY <1>f, <1>k DEF Counting
<1>2. Sole(k)'
    BY <1>c, <1>f, <1>j, <1>k DEF Sole
<1>3. ASSUME NEW t \in Streams, stream'[t].job = k PROVE Heard(t, k)'
    <2>1. t # s
        BY <1>3, <1>j
    <2>2. Heard(t, k)
        BY <1>3, <1>f, <1>k, <2>1
    <2> QED BY <1>a, <2>1, <2>2, OthersHeard
<1> QED BY <1>1, <1>2, <1>3

LEMMA ConnectCalm ==
    ASSUME Types, HubInv, NEW s \in Streams, NEW j \in Jobs, Connect(s, j),
           NEW k \in Jobs, Calm(k)
    PROVE  Calm(k)'
<1>a. StreamAction(s) /\ TypeOK
    BY DEF StreamAction, Types
<1>f. run' = run /\ \A t \in Streams \ {s} : stream'[t] = stream[t]
    BY <1>a, StreamFrame, StreamShape
<1>s. /\ stream'[s].pc = "register" /\ stream'[s].got = <<>>
      /\ clients' = clients /\ broken' = broken
    <2>1. stream[s].pc = "idle" /\ clients' = clients /\ broken' = broken
        BY DEF Connect, hub
    <2>2. stream[s].got = <<>>
        BY <2>1 DEF HubInv, Fresh
    <2> QED BY <1>a, <2>1, <2>2, StreamFields
<1> SUFFICES ASSUME k \notin broken
             PROVE  /\ Sole(k)' /\ Counting(k)'
                    /\ \A t \in Streams : stream'[t].job = k => Heard(t, k)'
    BY <1>s DEF Calm
<1>k. Sole(k) /\ Counting(k) /\ \A t \in Streams : stream[t].job = k => Heard(t, k)
    BY DEF Calm
<1>1. Counting(k)' /\ Sole(k)'
    BY <1>f, <1>s, <1>k DEF Counting, Sole
<1>2. ASSUME NEW t \in Streams, stream'[t].job = k PROVE Heard(t, k)'
    <2>1. CASE t = s
        <3>1. GotOK(stream'[s].got)
            BY <1>s DEF GotOK
        <3> QED BY <1>s, <2>1, <3>1 DEF Heard, GotOK, Terminal
    <2>2. CASE t # s
        BY <1>a, <1>2, <1>f, <1>k, <2>2, OthersHeard
    <2> QED BY <2>1, <2>2
<1> QED BY <1>1, <1>2

LEMMA RegisterCalm ==
    ASSUME Types, HubInv, NEW s \in Streams, Register(s), NEW k \in Jobs,
           k = stream[s].job, Calm(k)
    PROVE  Calm(k)'
<1>a. StreamAction(s) /\ TypeOK /\ clients \in [Jobs -> Streams \cup {None}]
    BY DEF StreamAction, StreamStep, Types, TypeOK
<1>f. run' = run /\ \A t \in Streams \ {s} : stream'[t] = stream[t]
    BY <1>a, StreamFrame, StreamShape
<1>s. /\ stream[s].pc = "register" /\ stream'[s].pc = "open" /\ stream'[s].job = k
      /\ stream'[s].got = <<>> /\ buf'[s] = <<>> /\ clients'[k] = s
    BY <1>a, StreamFields DEF Register, HubInv, Fresh
<1> SUFFICES ASSUME k \notin broken'
             PROVE  /\ Sole(k)' /\ Counting(k)'
                    /\ \A t \in Streams : stream'[t].job = k => Heard(t, k)'
    BY DEF Calm
<1>b. k \notin broken /\ clients[k] = None
    BY DEF Register
<1>k. Sole(k) /\ Counting(k) /\ \A t \in Streams : stream[t].job = k => Heard(t, k)
    BY <1>b DEF Calm
<1>1. Counting(k)'
    BY <1>f, <1>k DEF Counting
<1>2. run[k].pc \notin {"send", "sendError"}
    BY <1>b, <1>k DEF Sole, Types, Addressed
<1>3. Sole(k)'
    BY <1>b, <1>f, <1>s, <1>k, <1>2 DEF Sole
<1>4. ASSUME NEW t \in Streams, stream'[t].job = k PROVE Heard(t, k)'
    <2>1. CASE t = s
        <3>1. Sent(k)' \in Nat
            BY <1>f, <1>k, SentNat DEF Sent
        <3>2. GotOK(stream'[s].got)
            BY <1>s DEF GotOK
        <3>3. BufOK(buf'[s], Sent(k)')
            BY <1>s DEF BufOK
        <3>4. Joins(stream'[s].got, buf'[s], Sent(k)')
            BY <1>s DEF Joins
        <3>5. \A i \in 1 .. Len(buf'[s]) : Terminal(buf'[s][i]) => SaidAll(k)'
            BY <1>s
        <3> QED BY <1>s, <2>1, <3>2, <3>3, <3>4, <3>5 DEF Heard, GotOK, BufOK, Joins, Terminal
    <2>2. CASE t # s
        BY <1>a, <1>4, <1>f, <1>k, <2>2, OthersHeard
    <2> QED BY <2>1, <2>2
<1> QED BY <1>1, <1>3, <1>4

LEMMA ReceiveCalm ==
    ASSUME Types, HubInv, NEW s \in Streams, Receive(s), NEW k \in Jobs,
           k = stream[s].job, Calm(k)
    PROVE  Calm(k)'
<1>a. /\ StreamAction(s) /\ TypeOK /\ clients \in [Jobs -> Streams \cup {None}]
      /\ stream[s].got \in Seq(Event) /\ buf[s] \in Seq(Event)
    BY DEF StreamAction, StreamStep, Types, TypeOK, Stream
<1>f. run' = run /\ \A t \in Streams \ {s} : stream'[t] = stream[t]
    BY <1>a, StreamFrame, StreamShape
<1>e. PICK e : e = Head(buf[s])
    OBVIOUS
<1>m. PICK m : m = Sent(k)
    OBVIOUS
<1>s. /\ stream[s].pc = "open" /\ stream'[s].job = k /\ buf[s] # <<>>
      /\ stream'[s].got = Append(stream[s].got, e) /\ buf'[s] = Tail(buf[s])
      /\ stream'[s].pc = IF Terminal(e) THEN "ended" ELSE "open"
    <2>1. buf[s] # <<>>
        BY DEF Receive
    <2> QED BY <1>a, <1>e, <2>1, StreamFields
<1>b. broken' = broken
    BY DEF Receive
<1> SUFFICES ASSUME k \notin broken
             PROVE  /\ Sole(k)' /\ Counting(k)'
                    /\ \A t \in Streams : stream'[t].job = k => Heard(t, k)'
    BY <1>b DEF Calm
<1>k. Sole(k) /\ Counting(k) /\ \A t \in Streams : stream[t].job = k => Heard(t, k)
    BY DEF Calm
<1>n. m \in Nat /\ Sent(k)' = m /\ (SaidAll(k) => SaidAll(k)')
    BY <1>f, <1>k, <1>m, SentNat DEF Sent, SaidAll
<1>h. /\ GotOK(stream[s].got) /\ BufOK(buf[s], m) /\ Joins(stream[s].got, buf[s], m)
      /\ \A i \in 1 .. Len(buf[s]) : Terminal(buf[s][i]) => SaidAll(k)
    BY <1>s, <1>k, <1>m DEF Heard
<1>1. Counting(k)'
    BY <1>f, <1>k DEF Counting
<1>2. /\ BufOK(Tail(buf[s]), m) /\ Len(Tail(buf[s])) = Len(buf[s]) - 1
      /\ e \in Event /\ e.n = m - (Len(buf[s]) - 1)
      /\ \A i \in 1 .. Len(Tail(buf[s])) :
            i + 1 \in 1 .. Len(buf[s]) /\ Tail(buf[s])[i] = buf[s][i + 1]
    BY <1>a, <1>s, <1>e, <1>n, <1>h, BufTail
<1>3. Terminal(e) => SaidAll(k)
    <2>1. e = buf[s][1] /\ 1 \in 1 .. Len(buf[s])
        BY <1>a, <1>s, <1>e
    <2> QED BY <2>1, <1>h
<1>4. Sole(k)'
    <2>1. CASE Terminal(e)
        <3>1. run[k].pc \notin {"send", "sendError"}
            BY <1>3, <2>1 DEF SaidAll
        <3> QED BY <1>f, <1>s, <1>k, <2>1, <3>1 DEF Sole
    <2>2. CASE ~ Terminal(e)
        <3>1. clients' = clients
            BY <1>e, <2>2 DEF Receive
        <3> QED BY <1>f, <1>s, <1>k, <3>1 DEF Sole
    <2> QED BY <2>1, <2>2
<1>5. Heard(s, k)'
    <2> DEFINE g == stream[s].got
    <2>1. Len(buf[s]) \in Nat
        BY <1>a
    <2>2. g # <<>> => ~ Terminal(g[Len(g)]) /\ e.n = g[Len(g)].n + 1
        <3>1. g # <<>> => ~ Terminal(g[Len(g)]) /\ g[Len(g)].n = m - Len(buf[s])
            BY <1>h DEF Joins
        <3>2. e.n = m - Len(buf[s]) + 1
            BY <1>n, <1>2, <2>1
        <3> HIDE DEF g
        <3> QED BY <3>1, <3>2
    <2>3. /\ GotOK(stream'[s].got) /\ stream'[s].got # <<>>
          /\ stream'[s].got[Len(stream'[s].got)] = e
        BY <1>a, <1>s, <1>h, <1>2, <2>2, GotAppend
    <2>4. CASE Terminal(e)
        BY <1>s, <2>3, <2>4 DEF Heard, GotOK, Terminal
    <2>5. CASE ~ Terminal(e)
        <3>1. BufOK(buf'[s], Sent(k)')
            BY <1>s, <1>n, <1>2
        <3>2. e.n = Sent(k)' - Len(buf'[s])
            BY <1>s, <1>n, <1>2, <2>1
        <3>3. Joins(stream'[s].got, buf'[s], Sent(k)')
            BY <2>3, <2>5, <3>2 DEF Joins
        <3>4. \A i \in 1 .. Len(buf'[s]) : Terminal(buf'[s][i]) => SaidAll(k)'
            BY <1>s, <1>n, <1>h, <1>2
        <3> QED BY <1>s, <2>3, <2>5, <3>1, <3>3, <3>4 DEF Heard, GotOK, BufOK, Joins, Terminal
    <2> QED BY <2>4, <2>5
<1>6. ASSUME NEW t \in Streams, stream'[t].job = k PROVE Heard(t, k)'
    <2>1. CASE t = s
        BY <1>5, <2>1
    <2>2. CASE t # s
        BY <1>a, <1>6, <1>f, <1>k, <2>2, OthersHeard
    <2> QED BY <2>1, <2>2
<1> QED BY <1>1, <1>4, <1>6

LEMMA StreamCalm ==
    ASSUME Types, HubInv, NEW s \in Streams, StreamAction(s), NEW k \in Jobs, Calm(k)
    PROVE  Calm(k)'
<1>1. ASSUME NEW j \in Jobs, Connect(s, j) PROVE Calm(k)'
    BY <1>1, ConnectCalm
<1>2. CASE (StreamStep(s) \/ Leave(s)) /\ k # stream[s].job
    BY <1>2, OtherJobCalm
<1>3. CASE Register(s) /\ k = stream[s].job
    BY <1>3, RegisterCalm
<1>4. CASE Receive(s) /\ k = stream[s].job
    BY <1>4, ReceiveCalm
<1>5. CASE ReceiveClosed(s) /\ k = stream[s].job
    <2>1. stream[s].pc = "open" /\ s \in closed /\ broken' = broken
        BY <1>5 DEF ReceiveClosed
    <2>2. clients[k] # s
        BY <2>1 DEF HubInv, Listening
    <2>3. k \in broken
        BY <1>5, <2>1, <2>2 DEF Calm, Sole
    <2> QED BY <2>1, <2>3 DEF Calm
<1>6. CASE Leave(s) /\ k = stream[s].job
    BY <1>6 DEF Leave, Calm
<1> QED BY <1>1, <1>2, <1>3, <1>4, <1>5, <1>6 DEF StreamAction, StreamStep

CalmInv == \A j \in Jobs : Calm(j)

LEMMA NextCalm == Types /\ HubInv /\ CalmInv /\ [Next]_vars => CalmInv'
<1> SUFFICES ASSUME Types, HubInv, CalmInv, [Next]_vars, NEW k \in Jobs PROVE Calm(k)'
    BY DEF CalmInv
<1>0. Calm(k)
    BY DEF CalmInv
<1>1. ASSUME NEW j \in Jobs, PipelineAction(j) PROVE Calm(k)'
    BY <1>0, <1>1, PipelineCalm
<1>2. ASSUME NEW s \in Streams, StreamAction(s) PROVE Calm(k)'
    BY <1>0, <1>2, StreamCalm
<1>3. CASE Drain
    BY <1>3 DEF Drain, Calm
<1>4. CASE UNCHANGED vars
    <2>1. \A s \in Streams : Heard(s, k) => Heard(s, k)'
        BY <1>4, HeardSame DEF vars, Sent, SaidAll
    <2> QED BY <1>0, <1>4, <2>1 DEF vars, Calm, Sole, Counting
<1> QED BY <1>1, <1>2, <1>3, <1>4 DEF Next, Stopped, PipelineAction, StreamAction

LEMMA CalmSpec == Spec => [](Types /\ HubInv /\ CalmInv)
<1> DEFINE Inv == Types /\ HubInv /\ CalmInv
<1>1. Init => Inv
    BY InitTypes, InitHub, InitCalm DEF CalmInv
<1>2. Inv /\ [Next]_vars => Inv'
    BY NextTypes, NextHub, NextCalm
<1> QED BY <1>1, <1>2, PTL DEF Spec

\* No send of broadcast or emitTerminalEvent meets a closed channel while the
\* streams of the job come one at a time and stay to the end and the server is
\* not shutting down, although both send after releasing the hub's lock.
THEOREM PanicsNeedABreak == Spec => []PanicOnlyWhenBroken
<1>1. CalmInv => PanicOnlyWhenBroken
    BY DEF CalmInv, Calm, Counting, PanicOnlyWhenBroken
<1> QED BY CalmSpec, <1>1, PTL

\* An undisturbed stream writes every event from its first one to the terminal
\* one, without a gap and in order, for every capacity that holds the events
\* of one pipeline.
THEOREM StreamsHearInFull == Spec => []HeardInFull
<1>1. Types /\ CalmInv => HeardInFull
    <2> SUFFICES ASSUME Types, CalmInv, NEW s \in Streams, stream[s].job \in Jobs \ broken
                 PROVE  LET got == stream[s].got
                        IN  /\ \A i \in 1 .. Len(got) - 1 : /\ got[i + 1].n = got[i].n + 1
                                                            /\ ~ Terminal(got[i])
                            /\ stream[s].pc = "ended" => got # <<>> /\ Terminal(got[Len(got)])
        BY DEF HeardInFull
    <2>1. Heard(s, stream[s].job)
        BY DEF CalmInv, Calm
    <2> QED BY <2>1 DEF Heard, GotOK
<1> QED BY CalmSpec, <1>1, PTL

=============================================================================
