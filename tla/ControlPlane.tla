---------------------------- MODULE ControlPlane ----------------------------
(***************************************************************************)
(* src/control.rs and run_bot of src/main.rs: how a bot process takes the  *)
(* control socket, serves it, is asked to stop through it or by SIGTERM,   *)
(* and shuts down.  Instances are the bot processes that share one socket  *)
(* path, started again after they ended; Clients are the connections made  *)
(* by `oo-bot control`, the operator TUI or anything else.                 *)
(***************************************************************************)
EXTENDS Integers, FiniteSets

CONSTANTS Instances, Clients,
          QueueCapacity,  \* of the mpsc channel of commands (8)
          MaxStarts,      \* bound: processes started
          MaxFaults       \* bound: crashes, failing accepts and failing chmods

NoSocket == "NoSocket"

ASSUME ControlPlaneAssumption ==
    /\ NoSocket \notin Instances
    /\ QueueCapacity \in Nat \ {0} /\ MaxStarts \in Nat /\ MaxFaults \in Nat

VARIABLES
    path,    \* what the socket path names: the socket a process bound there, or nothing
    proc,    \* the processes: the main task, the tasks it spawned, the channel, the client
    conn,    \* the connections
    starts, faults,
    raced    \* history: two processes were starting at the same time

controlVars == <<path, proc, conn, starts, faults, raced>>

Starting == {"Check", "Connect", "Remove", "Bind"}
Joining == {"JoinSupervisor", "JoinServer"}

NotRunning(main) == [main |-> main, gateway |-> "Stopped", supervisor |-> "Ended",
                     signal |-> "Ended", server |-> "Ended", queue |-> 0]

JustBound == [main |-> "Running", gateway |-> "Connecting", supervisor |-> "Waiting",
              signal |-> "Listening", server |-> "Serving", queue |-> 0]

\* The listener lives as long as serve_runtime_control.
Serving(i) == proc[i].server = "Serving"

\* The connection tasks: each holds a sender of the command channel.
Handled == {"Reading", "Sending", "Replying"}

NoConnection == [state |-> "None", to |-> NoSocket]

\* The connections as they are when the ones to i in one of these states break.
Broken(i, states) == [c \in Clients |-> IF conn[c].to = i /\ conn[c].state \in states
                                        THEN [conn[c] EXCEPT !.state = "Failed"] ELSE conn[c]]

Main(i, from, to) == proc[i].main = from /\ proc' = [proc EXCEPT ![i].main = to]

----------------------------------------------------------------------------
(* bind_runtime_control_listener *)

Start(i) ==
    /\ starts < MaxStarts /\ starts' = starts + 1
    /\ proc[i].main \in {"Off", "Exited"}
    /\ proc' = [proc EXCEPT ![i] = NotRunning("Check")]
    /\ raced' = (raced \/ \E other \in Instances : proc[other].main \in Starting)
    /\ UNCHANGED <<path, conn, faults>>

CheckPath(i) ==
    /\ Main(i, "Check", IF path = NoSocket THEN "Bind" ELSE "Connect")
    /\ UNCHANGED <<path, conn, starts, faults, raced>>

\* Mutation: whatever is at the path is taken for stale.
SkipProbe(i) ==
    /\ Main(i, "Connect", "Remove")
    /\ UNCHANGED <<path, conn, starts, faults, raced>>

\* "runtime control socket already active", unless nobody answers.
ProbeListener(i) ==
    /\ Main(i, "Connect", IF path # NoSocket /\ Serving(path) THEN "Off" ELSE "Remove")
    /\ UNCHANGED <<path, conn, starts, faults, raced>>

\* remove_file fails when the file has gone in the meantime.
RemoveStale(i) ==
    /\ Main(i, "Remove", IF path = NoSocket THEN "Off" ELSE "Bind")
    /\ path' = NoSocket
    /\ UNCHANGED <<conn, starts, faults, raced>>

\* bind fails when the path exists.
Bind(i) ==
    /\ proc[i].main = "Bind"
    /\ proc' = [proc EXCEPT ![i] = IF path = NoSocket THEN JustBound ELSE NotRunning("Off")]
    /\ path' = IF path = NoSocket THEN i ELSE path
    /\ UNCHANGED <<conn, starts, faults, raced>>

----------------------------------------------------------------------------
(* The Discord client, which is the serenity library's. *)

ShardsRun(i) ==
    /\ proc[i].gateway = "Connecting"
    /\ proc' = [proc EXCEPT ![i].gateway = "Running"]
    /\ UNCHANGED <<path, conn, starts, faults, raced>>

\* client.start() returns, after shutdown_all or with an error of its own.
ClientReturns(i) ==
    /\ proc[i].gateway \in {"Connecting", "Running", "Closing"}
    /\ proc' = [proc EXCEPT ![i].gateway = "Stopped"]
    /\ UNCHANGED <<path, conn, starts, faults, raced>>

----------------------------------------------------------------------------
(* The supervisors. *)

\* The signal supervisor; it listens for one SIGTERM (SIGINT is only logged).
ReceiveTerm(i) ==
    /\ proc[i].main = "Running" /\ proc[i].signal = "Listening"
    /\ proc' = [proc EXCEPT ![i].signal = "Sending"]
    /\ UNCHANGED <<path, conn, starts, faults, raced>>

\* Mutation: an unbounded channel.
AlwaysSend(i) == TRUE

\* A send waits for room; it fails when the receiver is gone, which nobody is told.
CanSend(i) == proc[i].queue < QueueCapacity \/ proc[i].supervisor = "Ended"

Queued(i) == IF proc[i].supervisor = "Ended" THEN proc[i].queue ELSE proc[i].queue + 1

ForwardTerm(i) ==
    /\ proc[i].signal = "Sending" /\ CanSend(i)
    /\ proc' = [proc EXCEPT ![i].signal = "Ended", ![i].queue = Queued(i)]
    /\ UNCHANGED <<path, conn, starts, faults, raced>>

\* The shutdown supervisor takes one command and no second one.
TakeStop(i) ==
    /\ proc[i].supervisor = "Waiting" /\ proc[i].queue > 0
    /\ proc' = [proc EXCEPT ![i].supervisor = "Stopping", ![i].queue = @ - 1]
    /\ UNCHANGED <<path, conn, starts, faults, raced>>

\* Mutation: the supervisor takes the command and only logs it.
ShutdownLogged(i) ==
    /\ proc[i].supervisor = "Stopping"
    /\ proc' = [proc EXCEPT ![i].supervisor = "Ended", ![i].queue = 0]
    /\ UNCHANGED <<path, conn, starts, faults, raced>>

\* shutdown_all closes the shards that run. Whether it does anything before there are any
\* is the library's business; here it may or may not. The receiver is dropped with the task.
ShutdownAll(i) ==
    /\ proc[i].supervisor = "Stopping"
    /\ \E gateway \in CASE proc[i].gateway = "Running" -> {"Closing"}
                        [] proc[i].gateway = "Connecting" -> {"Connecting", "Closing"}
                        [] OTHER -> {proc[i].gateway} :
           proc' = [proc EXCEPT ![i].supervisor = "Ended", ![i].gateway = gateway,
                                ![i].queue = 0]
    /\ UNCHANGED <<path, conn, starts, faults, raced>>

\* recv() is None once every sender is dropped: that of run_bot, of the signal supervisor,
\* of the server, and of each connection it handles.
SendersLeft(i) ==
    \/ proc[i].main = "Running"
    \/ proc[i].signal # "Ended"
    \/ Serving(i)
    \/ \E c \in Clients : conn[c].to = i /\ conn[c].state \in Handled

SupervisorEnds(i) ==
    /\ proc[i].supervisor = "Waiting" /\ proc[i].queue = 0
    /\ ~SendersLeft(i)
    /\ proc' = [proc EXCEPT ![i].supervisor = "Ended"]
    /\ UNCHANGED <<path, conn, starts, faults, raced>>

----------------------------------------------------------------------------
(* The end of run_bot. *)

\* Mutation: the signal supervisor is not aborted.
BeginShutdownWithoutAbort(i) ==
    /\ proc[i].main = "Running" /\ proc[i].gateway = "Stopped"
    /\ proc' = [proc EXCEPT ![i].main = "JoinSupervisor"]
    /\ UNCHANGED <<path, conn, starts, faults, raced>>

\* The shutdown is announced, the signal supervisor aborted and joined, the sender dropped.
BeginShutdown(i) ==
    /\ proc[i].main = "Running" /\ proc[i].gateway = "Stopped"
    /\ proc' = [proc EXCEPT ![i].main = "JoinSupervisor", ![i].signal = "Ended"]
    /\ UNCHANGED <<path, conn, starts, faults, raced>>

JoinSupervisor(i) ==
    /\ proc[i].supervisor = "Ended"
    /\ Main(i, "JoinSupervisor", "JoinServer")
    /\ UNCHANGED <<path, conn, starts, faults, raced>>

\* serve_runtime_control sees the shutdown and removes what is at its path by now.
ServerEnds(i) ==
    /\ Serving(i) /\ proc[i].main \in Joining
    /\ proc' = [proc EXCEPT ![i].server = "Ended"]
    /\ path' = NoSocket
    /\ conn' = Broken(i, {"Queued"})
    /\ UNCHANGED <<starts, faults, raced>>

\* The process ends, and with it the runtime and what it still runs.
JoinServer(i) ==
    /\ ~Serving(i)
    /\ Main(i, "JoinServer", "Exited")
    /\ conn' = Broken(i, Handled)
    /\ UNCHANGED <<path, starts, faults, raced>>

----------------------------------------------------------------------------
(* A connection: handle_connection, under its timeout. *)

ConnectClient(c) ==
    /\ conn[c].state = "None"
    /\ path # NoSocket /\ Serving(path)
    /\ conn' = [conn EXCEPT ![c] = [state |-> "Queued", to |-> path]]
    /\ UNCHANGED <<path, proc, starts, faults, raced>>

ConnGoes(c, from, to) ==
    /\ conn[c].state \in from
    /\ conn' = [conn EXCEPT ![c].state = to]

Accept(c) ==
    /\ ConnGoes(c, {"Queued"}, "Reading")
    /\ UNCHANGED <<path, proc, starts, faults, raced>>

\* The request is Stop; or it is Status and answered, or nothing that can be parsed.
ReadRequest(c) ==
    /\ \E state \in {"Sending", "Answered", "Failed"} : ConnGoes(c, {"Reading"}, state)
    /\ UNCHANGED <<path, proc, starts, faults, raced>>

SendStop(c) ==
    LET i == conn[c].to IN
    /\ ConnGoes(c, {"Sending"}, IF proc[i].supervisor = "Ended" THEN "Failed" ELSE "Replying")
    /\ CanSend(i)
    /\ proc' = [proc EXCEPT ![i].queue = Queued(i)]
    /\ UNCHANGED <<path, starts, faults, raced>>

ReplyAck(c) ==
    /\ ConnGoes(c, {"Replying"}, "Acked")
    /\ UNCHANGED <<path, proc, starts, faults, raced>>

\* After CONTROL_CONNECTION_TIMEOUT_SECS, whatever the task waits for.
TimeOut(c) ==
    /\ ConnGoes(c, Handled, "TimedOut")
    /\ UNCHANGED <<path, proc, starts, faults, raced>>

----------------------------------------------------------------------------
(* Faults. *)

\* A process is killed, or panics: its socket stays at the path and answers nobody.
Crash(i) ==
    /\ proc[i].main \notin {"Off", "Exited"}
    /\ proc' = [proc EXCEPT ![i] = NotRunning("Off")]
    /\ conn' = Broken(i, {"Queued"} \cup Handled)
    /\ UNCHANGED path

\* An error of accept() ends the server at once, before it removes its socket.
AcceptFails(i) ==
    /\ Serving(i)
    /\ proc' = [proc EXCEPT ![i].server = "Ended"]
    /\ conn' = Broken(i, {"Queued"})
    /\ UNCHANGED path

\* set_permissions fails after the socket was made.
ChmodFails(i) ==
    /\ path = NoSocket
    /\ Main(i, "Bind", "Off")
    /\ path' = i
    /\ UNCHANGED conn

Fault(i) ==
    /\ faults < MaxFaults /\ faults' = faults + 1
    /\ Crash(i) \/ AcceptFails(i) \/ ChmodFails(i)
    /\ UNCHANGED <<starts, raced>>

ControlInit ==
    /\ path = NoSocket
    /\ proc = [i \in Instances |-> NotRunning("Off")]
    /\ conn = [c \in Clients |-> NoConnection]
    /\ starts = 0 /\ faults = 0 /\ raced = FALSE

\* What a running process does by itself.
Proceed(i) ==
    \/ ForwardTerm(i) \/ TakeStop(i) \/ ShutdownAll(i) \/ SupervisorEnds(i)
    \/ BeginShutdown(i) \/ JoinSupervisor(i) \/ JoinServer(i)

Handle(c) == ReadRequest(c) \/ SendStop(c) \/ ReplyAck(c) \/ TimeOut(c)

ControlNext ==
    \/ \E i \in Instances :
           \/ Start(i) \/ CheckPath(i) \/ ProbeListener(i) \/ RemoveStale(i) \/ Bind(i)
           \/ ShardsRun(i) \/ ClientReturns(i) \/ ReceiveTerm(i)
           \/ Proceed(i) \/ ServerEnds(i)
           \/ Fault(i)
    \/ \E c \in Clients : ConnectClient(c) \/ Accept(c) \/ Handle(c)

\* The runtime polls the tasks that can go on (the two ends of one select! are both looked
\* at), a connection is given up after its timeout, and a client whose shards were told to
\* close returns. Nobody has to connect, send a request, send a signal or fail.
ControlFairness ==
    /\ \A i \in Instances :
           /\ WF_controlVars(Proceed(i)) /\ WF_controlVars(ServerEnds(i))
           /\ WF_controlVars(proc[i].gateway = "Closing" /\ ClientReturns(i))
    /\ \A c \in Clients : WF_controlVars(Handle(c))

ControlSpec == ControlInit /\ [][ControlNext]_controlVars /\ ControlFairness

----------------------------------------------------------------------------
(* Properties. *)

\* The types of the processes and connections; only a process that has bound the socket
\* serves or queues anything, and the channel never holds more than its capacity.
ControlTypeOK ==
    /\ path \in Instances \cup {NoSocket}
    /\ proc \in [Instances ->
           [main : Starting \cup Joining \cup {"Off", "Running", "Exited"},
            gateway : {"Connecting", "Running", "Closing", "Stopped"},
            supervisor : {"Waiting", "Stopping", "Ended"},
            signal : {"Listening", "Sending", "Ended"},
            server : {"Serving", "Ended"},
            queue : 0 .. QueueCapacity]]
    /\ \A i \in Instances : Serving(i) \/ proc[i].queue > 0
                                => proc[i].main \in {"Running"} \cup Joining
    /\ conn \in [Clients ->
           [state : {"None", "Queued", "Answered", "Acked", "Failed", "TimedOut"} \cup Handled,
            to : Instances \cup {NoSocket}]]
    /\ starts \in 0 .. MaxStarts /\ faults \in 0 .. MaxFaults /\ raced \in BOOLEAN

\* The path names the socket of the one process that serves, whatever sockets crashed
\* processes left there and however starts and shutdowns interleave - as long as no two
\* processes start at the same time, since bind_runtime_control_listener checks, removes
\* and binds in separate steps.
ServerIsReachable == ~raced => \A i \in Instances : Serving(i) => path = i

Ended(i) == proc[i].main \in {"Off", "Exited"}

StopPending(i) == /\ proc[i].supervisor = "Waiting" /\ proc[i].gateway = "Running"
                  /\ proc[i].queue > 0 \/ proc[i].signal = "Sending"

\* A stop that was accepted over the socket, or a SIGTERM, does end a process whose shards
\* run, although the supervisor takes a single command and later ones are discarded.
StopTakesEffect == \A i \in Instances : StopPending(i) ~> Ended(i)

\* Once the client has returned the process ends: of all who hold a sender of the channel
\* the supervisor waits on, none holds it for ever.
ShutdownCompletes == \A i \in Instances : proc[i].main \in Joining ~> Ended(i)
=============================================================================
