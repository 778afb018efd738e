------------------------- MODULE ControlPlaneProofs -------------------------
(***************************************************************************)
(* The control plane for any number of processes and connections: the      *)
(* types, and that a process that serves the socket can be reached at its  *)
(* path as long as no two processes start at the same time.                *)
(***************************************************************************)
EXTENDS ControlPlane, TLAPS

Bound == {"Running"} \cup Joining

\* A process that has not bound the socket has no listener, and nothing in its channel; the
\* shutdown supervisor drops the channel when it ends, and is joined before the server is.
ProcShape(i) ==
    /\ proc[i].signal # "Ended" => proc[i].main = "Running"
    /\ proc[i].supervisor = "Ended" => proc[i].queue = 0
    /\ proc[i].main = "JoinServer" => proc[i].supervisor = "Ended"

\* A connection that waits or is handled is to a process that is still there to do so.
ConnShape(c) ==
    conn[c].state \in {"Queued"} \cup Handled =>
        /\ conn[c].to \in Instances
        /\ proc[conn[c].to].main \in Bound
        /\ conn[c].state = "Queued" => Serving(conn[c].to)

\* While no two processes have started at the same time, nobody serves when one of them is
\* about to remove what it found at the path.
ReachInv ==
    ~raced =>
        /\ \A i, j \in Instances : proc[i].main \in Starting /\ proc[j].main \in Starting => i = j
        /\ \A i \in Instances : proc[i].main = "Remove" => \A j \in Instances : ~Serving(j)
        /\ \A i \in Instances : Serving(i) => path = i

ControlInv ==
    /\ ControlTypeOK
    /\ \A i \in Instances : ProcShape(i)
    /\ \A c \in Clients : ConnShape(c)
    /\ ReachInv

----------------------------------------------------------------------------
(* What a step does to the processes and the connections. *)

Proc == [main : Starting \cup Joining \cup {"Off", "Running", "Exited"},
         gateway : {"Connecting", "Running", "Closing", "Stopped"},
         supervisor : {"Waiting", "Stopping", "Ended"},
         signal : {"Listening", "Sending", "Ended"},
         server : {"Serving", "Ended"},
         queue : 0 .. QueueCapacity]

Conn == [state : {"None", "Queued", "Answered", "Acked", "Failed", "TimedOut"} \cup Handled,
         to : Instances \cup {NoSocket}]

Open == {"Queued"} \cup Handled

OneProc(i, r) ==
    /\ r \in Proc /\ proc' \in [Instances -> Proc]
    /\ proc'[i] = r
    /\ \A j \in Instances : j # i => proc'[j] = proc[j]

LEMMA SetProc ==
    ASSUME ControlTypeOK, NEW i \in Instances, NEW r \in Proc, proc' = [proc EXCEPT ![i] = r]
    PROVE  OneProc(i, r)
<1>1. proc \in [Instances -> Proc]
  BY DEF ControlTypeOK, Proc
<1> QED
  BY <1>1 DEF OneProc

\* The types of a process's fields.
LEMMA ProcType ==
    ASSUME ControlTypeOK, NEW i \in Instances
    PROVE  /\ proc[i] \in Proc /\ proc \in [Instances -> Proc]
           /\ Serving(i) \/ proc[i].queue > 0 => proc[i].main \in Bound
           /\ QueueCapacity \in Nat \ {0}
BY ControlPlaneAssumption DEF ControlTypeOK, Proc, Bound

LEMMA ConnType ==
    ASSUME ControlTypeOK
    PROVE  conn \in [Clients -> Conn]
BY DEF ControlTypeOK, Conn

\* Everything but the process i and the connections.
FrameTyped ==
    /\ path' \in Instances \cup {NoSocket}
    /\ starts' \in 0 .. MaxStarts /\ faults' \in 0 .. MaxFaults /\ raced' \in BOOLEAN

\* A step of one process keeps the shapes if it leaves that process in shape and breaks the
\* connections that lose what they are connected to.
LEMMA ProcStep ==
    ASSUME ControlInv, NEW i \in Instances, NEW r, OneProc(i, r), FrameTyped,
           r.server = "Serving" \/ r.queue > 0 => r.main \in Bound,
           r.signal # "Ended" => r.main = "Running",
           r.supervisor = "Ended" => r.queue = 0,
           r.main = "JoinServer" => r.supervisor = "Ended",
           conn' \in [Clients -> Conn],
           \A c \in Clients : conn'[c].state \in Open =>
               /\ conn[c].state \in Open /\ conn'[c].to = conn[c].to
               /\ conn'[c].state = "Queued" => conn[c].state = "Queued"
               /\ conn[c].to = i => /\ r.main \in Bound
                                    /\ conn'[c].state = "Queued" => r.server = "Serving"
    PROVE  /\ ControlTypeOK'
           /\ \A j \in Instances : ProcShape(j)'
           /\ \A c \in Clients : ConnShape(c)'
<1>1. ASSUME NEW j \in Instances
      PROVE  /\ ProcShape(j)'
             /\ Serving(j)' \/ proc'[j].queue > 0 => proc'[j].main \in Bound
  <2>1. CASE j = i
    BY <2>1 DEF OneProc, ProcShape, Serving
  <2>2. CASE j # i
    <3>1. proc'[j] = proc[j]
      BY <2>2 DEF OneProc
    <3> QED
      BY <3>1, ProcType DEF ProcShape, Serving, ControlInv
  <2> QED
    BY <2>1, <2>2
<1>2. ASSUME NEW c \in Clients PROVE ConnShape(c)'
  <2> SUFFICES ASSUME conn'[c].state \in Open
               PROVE  /\ conn'[c].to \in Instances
                      /\ proc'[conn'[c].to].main \in Bound
                      /\ conn'[c].state = "Queued" => proc'[conn'[c].to].server = "Serving"
    BY DEF ConnShape, Serving, Open
  <2>1. /\ conn'[c].to = conn[c].to /\ conn[c].to \in Instances
        /\ proc[conn[c].to].main \in Bound
        /\ conn'[c].state = "Queued" => proc[conn[c].to].server = "Serving"
    BY DEF ControlInv, ConnShape, Serving, Open
  <2>2. CASE conn[c].to = i
    BY <2>1, <2>2 DEF OneProc
  <2>3. CASE conn[c].to # i
    BY <2>1, <2>3 DEF OneProc
  <2> QED
    BY <2>2, <2>3
<1>3. ControlTypeOK'
  BY <1>1 DEF ControlTypeOK, FrameTyped, OneProc, Proc, Conn, Bound
<1> QED
  BY <1>1, <1>2, <1>3

\* The same for a step that breaks no connection.
LEMMA QuietStep ==
    ASSUME ControlInv, NEW i \in Instances, NEW r, OneProc(i, r), FrameTyped, UNCHANGED conn,
           r.server = "Serving" \/ r.queue > 0 => r.main \in Bound,
           r.signal # "Ended" => r.main = "Running",
           r.supervisor = "Ended" => r.queue = 0,
           r.main = "JoinServer" => r.supervisor = "Ended",
           proc[i].main \in Bound => r.main \in Bound,
           Serving(i) => r.server = "Serving"
    PROVE  /\ ControlTypeOK'
           /\ \A j \in Instances : ProcShape(j)'
           /\ \A c \in Clients : ConnShape(c)'
<1>1. conn' \in [Clients -> Conn]
  BY ConnType DEF ControlInv
<1>2. ASSUME NEW c \in Clients, conn'[c].state \in Open
      PROVE  /\ conn[c].state \in Open /\ conn'[c].to = conn[c].to
             /\ conn'[c].state = "Queued" => conn[c].state = "Queued"
             /\ conn[c].to = i => /\ r.main \in Bound
                                  /\ conn'[c].state = "Queued" => r.server = "Serving"
  BY <1>2 DEF ControlInv, ConnShape, Open
<1> QED
  BY <1>1, <1>2, ProcStep

\* A step of one connection keeps the shapes if that connection still has its process.
LEMMA ConnStep ==
    ASSUME ControlInv, NEW c \in Clients, NEW r \in Conn, conn' = [conn EXCEPT ![c] = r],
           UNCHANGED proc, FrameTyped,
           r.state \in Open => /\ r.to \in Instances /\ proc[r.to].main \in Bound
                               /\ r.state = "Queued" => Serving(r.to)
    PROVE  /\ ControlTypeOK'
           /\ \A j \in Instances : ProcShape(j)'
           /\ \A d \in Clients : ConnShape(d)'
<1>1. /\ conn' \in [Clients -> Conn] /\ conn'[c] = r
      /\ \A d \in Clients : d # c => conn'[d] = conn[d]
  BY ConnType DEF ControlInv
<1>2. ASSUME NEW d \in Clients PROVE ConnShape(d)'
  <2>1. CASE d = c
    BY <1>1, <2>1 DEF ConnShape, Serving, Open
  <2>2. CASE d # c
    BY <1>1, <2>2 DEF ConnShape, Serving, ControlInv
  <2> QED
    BY <2>1, <2>2
<1>3. \A j \in Instances : ProcShape(j)'
  BY DEF ControlInv, ProcShape
<1>4. ControlTypeOK'
  BY <1>1 DEF ControlInv, ControlTypeOK, Serving, FrameTyped, Conn
<1> QED
  BY <1>2, <1>3, <1>4

\* Connections that break are no longer open, the others stay as they were.
LEMMA BrokenConns ==
    ASSUME ControlInv, NEW i \in Instances, NEW states, conn' = Broken(i, states)
    PROVE  /\ conn' \in [Clients -> Conn]
           /\ \A c \in Clients : conn'[c].state \in Open =>
                  conn'[c] = conn[c] /\ ~(conn[c].to = i /\ conn[c].state \in states)
<1>1. conn \in [Clients -> Conn]
  BY ConnType DEF ControlInv
<1>2. \A c \in Clients : conn[c] \in Conn /\ [conn[c] EXCEPT !.state = "Failed"] \in Conn
  BY <1>1 DEF Conn
<1>3. \A c \in Clients : [conn[c] EXCEPT !.state = "Failed"].state = "Failed"
  BY <1>1 DEF Conn
<1>4. "Failed" \notin Open
  BY DEF Open, Handled
<1> QED
  BY <1>2, <1>3, <1>4 DEF Broken

\* What a process's step may do to the path and to the processes without anybody losing the
\* socket that they serve.
LEMMA ReachStep ==
    ASSUME ControlInv, NEW i \in Instances, NEW r, OneProc(i, r), UNCHANGED <<path, raced>>,
           r.main \in Starting => proc[i].main \in Starting,
           r.server = "Serving" => Serving(i),
           r.main = "Remove" => \/ proc[i].main = "Remove"
                                \/ ~raced => \A j \in Instances : ~Serving(j)
    PROVE  ReachInv'
<1> SUFFICES ASSUME ~raced
             PROVE  /\ \A j, k \in Instances :
                          proc'[j].main \in Starting /\ proc'[k].main \in Starting => j = k
                    /\ \A j \in Instances :
                          proc'[j].main = "Remove" => \A k \in Instances : ~Serving(k)'
                    /\ \A j \in Instances : Serving(j)' => path = j
  BY DEF ReachInv
<1>1. ASSUME NEW j \in Instances
      PROVE  /\ proc'[j].main \in Starting => proc[j].main \in Starting
             /\ Serving(j)' => Serving(j)
             /\ proc'[j].main = "Remove" => \/ proc[j].main = "Remove"
                                            \/ \A k \in Instances : ~Serving(k)
  <2>1. CASE j = i
    BY <2>1 DEF OneProc, Serving
  <2>2. CASE j # i
    BY <2>2 DEF OneProc, Serving
  <2> QED
    BY <2>1, <2>2
<1> QED
  BY <1>1 DEF ControlInv, ReachInv

----------------------------------------------------------------------------
(* Taking the socket. *)

LEMMA StartKeeps ==
    ASSUME ControlInv, NEW i \in Instances, Start(i)
    PROVE  ControlInv'
<1> DEFINE r == NotRunning("Check")
<1>1. /\ proc[i].main \in {"Off", "Exited"} /\ proc' = [proc EXCEPT ![i] = r]
      /\ UNCHANGED <<path, conn, faults>>
      /\ starts < MaxStarts /\ starts' = starts + 1
      /\ raced' = (raced \/ \E other \in Instances : proc[other].main \in Starting)
  BY DEF Start
<1>2. /\ r \in Proc /\ r.main = "Check" /\ r.server = "Ended" /\ r.queue = 0
      /\ r.signal = "Ended"
  BY ProcType DEF NotRunning, Proc, Starting, ControlInv
<1> HIDE DEF r
<1>3. OneProc(i, r)
  BY <1>1, <1>2, SetProc DEF ControlInv
<1>4. FrameTyped
  BY <1>1, ControlPlaneAssumption DEF FrameTyped, ControlInv, ControlTypeOK
<1>5. ~(proc[i].main \in Bound) /\ ~Serving(i)
  BY <1>1, ProcType DEF Bound, Joining, ControlInv
<1>6. /\ ControlTypeOK' /\ \A j \in Instances : ProcShape(j)'
      /\ \A c \in Clients : ConnShape(c)'
  BY <1>1, <1>2, <1>3, <1>4, <1>5, QuietStep
<1>7. ReachInv'
  <2> SUFFICES ASSUME ~raced'
               PROVE  /\ \A j, k \in Instances :
                            proc'[j].main \in Starting /\ proc'[k].main \in Starting => j = k
                      /\ \A j \in Instances :
                            proc'[j].main = "Remove" => \A k \in Instances : ~Serving(k)'
                      /\ \A j \in Instances : Serving(j)' => path' = j
    BY DEF ReachInv
  <2>1. ~raced /\ \A j \in Instances : ~(proc[j].main \in Starting)
    BY <1>1 DEF ControlInv, ControlTypeOK
  <2>2. \A j \in Instances : j # i => ~(proc'[j].main \in Starting)
    BY <1>3, <2>1 DEF OneProc
  <2>3. \A j \in Instances : proc'[j].main # "Remove"
    BY <1>2, <1>3, <2>2 DEF OneProc, Starting
  <2>4. \A j \in Instances : Serving(j)' => Serving(j)
    BY <1>2, <1>3 DEF OneProc, Serving
  <2> QED
    BY <1>1, <2>1, <2>2, <2>3, <2>4 DEF ControlInv, ReachInv
<1> QED
  BY <1>6, <1>7 DEF ControlInv

\* The main task goes on, and nothing of its process runs yet.
LEMMA MainKeeps ==
    ASSUME ControlInv, NEW i \in Instances,
           NEW from \in Starting, NEW to \in Starting \cup {"Off"}, Main(i, from, to),
           UNCHANGED <<conn, starts, raced>>, path' \in Instances \cup {NoSocket},
           faults' \in 0 .. MaxFaults
    PROVE  /\ OneProc(i, [proc[i] EXCEPT !.main = to])
           /\ [proc[i] EXCEPT !.main = to].main = to
           /\ [proc[i] EXCEPT !.main = to].server = "Ended" /\ ~Serving(i)
           /\ ControlTypeOK' /\ \A j \in Instances : ProcShape(j)'
           /\ \A c \in Clients : ConnShape(c)'
<1> DEFINE r == [proc[i] EXCEPT !.main = to]
<1>1. proc[i].main = from /\ proc' = [proc EXCEPT ![i] = r] /\ proc[i] \in Proc
  BY ProcType DEF Main, ControlInv
<1>2. /\ r \in Proc /\ r.main = to /\ r.queue = proc[i].queue /\ r.signal = proc[i].signal
      /\ r.server = proc[i].server /\ r.supervisor = proc[i].supervisor
  BY <1>1 DEF Proc
<1> HIDE DEF r
<1>3. ~(proc[i].main \in Bound) /\ ~Serving(i) /\ ~(proc[i].queue > 0) /\ r.server = "Ended"
  BY <1>1, <1>2, ProcType DEF Bound, Starting, Joining, ControlInv, Serving, Proc
<1>4. proc[i].signal = "Ended"
  BY <1>1, <1>2 DEF ControlInv, ProcShape, Starting
<1>5. OneProc(i, r)
  BY <1>1, <1>2, SetProc DEF ControlInv
<1>6. FrameTyped
  BY DEF FrameTyped, ControlInv, ControlTypeOK
<1>7. r.supervisor = "Ended" => r.queue = 0
  BY <1>2 DEF ControlInv, ProcShape
<1>8. r.main # "JoinServer"
  BY <1>2 DEF Starting
<1>9. /\ ControlTypeOK' /\ \A j \in Instances : ProcShape(j)'
      /\ \A c \in Clients : ConnShape(c)'
  BY <1>2, <1>3, <1>4, <1>5, <1>6, <1>7, <1>8, QuietStep
<1> QED
  BY <1>2, <1>3, <1>5, <1>9 DEF r

LEMMA CheckKeeps ==
    ASSUME ControlInv, NEW i \in Instances, CheckPath(i)
    PROVE  ControlInv'
<1>1. PICK to \in {"Bind", "Connect"} : Main(i, "Check", to)
  BY DEF CheckPath
<1>2. "Check" \in Starting /\ to \in Starting \cup {"Off"} /\ to # "Remove"
  BY DEF Starting
<1>3. /\ UNCHANGED <<path, conn, starts, faults, raced>>
      /\ path' \in Instances \cup {NoSocket} /\ faults' \in 0 .. MaxFaults
  BY DEF CheckPath, ControlInv, ControlTypeOK
<1> DEFINE r == [proc[i] EXCEPT !.main = to]
<1>4. /\ OneProc(i, r) /\ r.main = to /\ r.server = "Ended"
      /\ ControlTypeOK' /\ \A j \in Instances : ProcShape(j)'
      /\ \A c \in Clients : ConnShape(c)'
  BY <1>1, <1>2, <1>3, MainKeeps
<1> HIDE DEF r
<1>5. ReachInv'
  BY <1>1, <1>2, <1>3, <1>4, ReachStep DEF Main
<1> QED
  BY <1>4, <1>5 DEF ControlInv

\* A listener that answers is at the path, unless two processes raced: so when nobody does,
\* nobody serves.
LEMMA ProbeKeeps ==
    ASSUME ControlInv, NEW i \in Instances, ProbeListener(i)
    PROVE  ControlInv'
<1>1. PICK to \in {"Off", "Remove"} :
         Main(i, "Connect", to) /\ (to = "Remove" => ~(path # NoSocket /\ Serving(path)))
  BY DEF ProbeListener
<1>2. "Connect" \in Starting /\ to \in Starting \cup {"Off"}
  BY DEF Starting
<1>3. /\ UNCHANGED <<path, conn, starts, faults, raced>>
      /\ path' \in Instances \cup {NoSocket} /\ faults' \in 0 .. MaxFaults
  BY DEF ProbeListener, ControlInv, ControlTypeOK
<1> DEFINE r == [proc[i] EXCEPT !.main = to]
<1>4. /\ OneProc(i, r) /\ r.main = to /\ r.server = "Ended"
      /\ ControlTypeOK' /\ \A j \in Instances : ProcShape(j)'
      /\ \A c \in Clients : ConnShape(c)'
  BY <1>1, <1>2, <1>3, MainKeeps
<1> HIDE DEF r
<1>5. to = "Remove" /\ ~raced => \A j \in Instances : ~Serving(j)
  BY <1>1, ControlPlaneAssumption DEF ControlInv, ReachInv
<1>6. ReachInv'
  BY <1>1, <1>2, <1>3, <1>4, <1>5, ReachStep DEF Main
<1> QED
  BY <1>4, <1>6 DEF ControlInv

\* remove_file takes away nobody's socket.
LEMMA RemoveKeeps ==
    ASSUME ControlInv, NEW i \in Instances, RemoveStale(i)
    PROVE  ControlInv'
<1>1. PICK to \in {"Off", "Bind"} : Main(i, "Remove", to)
  BY DEF RemoveStale
<1>2. "Remove" \in Starting /\ to \in Starting \cup {"Off"} /\ to # "Remove"
  BY DEF Starting
<1>3. /\ UNCHANGED <<conn, starts, faults, raced>> /\ path' = NoSocket
      /\ path' \in Instances \cup {NoSocket} /\ faults' \in 0 .. MaxFaults
  BY DEF RemoveStale, ControlInv, ControlTypeOK
<1> DEFINE r == [proc[i] EXCEPT !.main = to]
<1>4. /\ OneProc(i, r) /\ r.main = to /\ r.server = "Ended"
      /\ ControlTypeOK' /\ \A j \in Instances : ProcShape(j)'
      /\ \A c \in Clients : ConnShape(c)'
  BY <1>1, <1>2, <1>3, MainKeeps
<1> HIDE DEF r
<1>5. ReachInv'
  <2> SUFFICES ASSUME ~raced
               PROVE  /\ \A j, k \in Instances :
                            proc'[j].main \in Starting /\ proc'[k].main \in Starting => j = k
                      /\ \A j \in Instances : ~Serving(j)'
    BY <1>3 DEF ReachInv
  <2>1. proc[i].main = "Remove"
    BY <1>1 DEF Main
  <2>2. \A j \in Instances : ~Serving(j)
    BY <2>1 DEF ControlInv, ReachInv
  <2>3. \A j \in Instances : ~Serving(j)'
    BY <1>4, <2>2 DEF OneProc, Serving
  <2>4. \A j \in Instances : proc'[j].main \in Starting => proc[j].main \in Starting
    BY <1>2, <1>4, <2>1 DEF OneProc
  <2> QED
    BY <2>3, <2>4 DEF ControlInv, ReachInv
<1> QED
  BY <1>4, <1>5 DEF ControlInv

\* bind makes a socket only where there is none; and then nobody serves.
LEMMA BindKeeps ==
    ASSUME ControlInv, NEW i \in Instances, Bind(i)
    PROVE  ControlInv'
<1> DEFINE r == IF path = NoSocket THEN JustBound ELSE NotRunning("Off")
<1>1. /\ proc[i].main = "Bind" /\ proc' = [proc EXCEPT ![i] = r]
      /\ path' = (IF path = NoSocket THEN i ELSE path)
      /\ UNCHANGED <<conn, starts, faults, raced>>
  BY DEF Bind
<1>2. /\ r \in Proc
      /\ path = NoSocket => r = JustBound
      /\ path # NoSocket => r.server = "Ended"
      /\ r.main \in {"Running", "Off"} /\ r.queue = 0
      /\ r.server = "Serving" => r.main = "Running"
      /\ r.signal # "Ended" => r.main = "Running"
  BY ProcType DEF NotRunning, JustBound, Proc, ControlInv
<1> HIDE DEF r
<1>3. ~(proc[i].main \in Bound) /\ ~Serving(i) /\ ~(r.main \in Starting) /\ r.main # "JoinServer"
  BY <1>1, <1>2, ProcType DEF Bound, Joining, Starting, ControlInv
<1>4. OneProc(i, r)
  BY <1>1, <1>2, SetProc DEF ControlInv
<1>5. FrameTyped
  BY <1>1 DEF FrameTyped, ControlInv, ControlTypeOK
<1>6. /\ ControlTypeOK' /\ \A j \in Instances : ProcShape(j)'
      /\ \A c \in Clients : ConnShape(c)'
  <2>1. r.server = "Serving" \/ r.queue > 0 => r.main \in Bound
    BY <1>2 DEF Bound
  <2> QED
    BY <1>1, <1>2, <1>3, <1>4, <1>5, <2>1, QuietStep
<1>7. ReachInv'
  <2> SUFFICES ASSUME ~raced
               PROVE  /\ \A j, k \in Instances :
                            proc'[j].main \in Starting /\ proc'[k].main \in Starting => j = k
                      /\ \A j \in Instances :
                            proc'[j].main = "Remove" => \A k \in Instances : ~Serving(k)'
                      /\ \A j \in Instances : Serving(j)' => path' = j
    BY <1>1 DEF ReachInv
  <2>1. \A j \in Instances : ~(proc'[j].main \in Starting)
    BY <1>1, <1>3, <1>4 DEF OneProc, ControlInv, ReachInv, Starting
  <2>2. \A j \in Instances : proc'[j].main # "Remove"
    BY <2>1 DEF Starting
  <2>3. ASSUME NEW j \in Instances, Serving(j)' PROVE path' = j
    <3>1. CASE j = i
      <4>1. r.server = "Serving"
        BY <1>4, <2>3, <3>1 DEF OneProc, Serving
      <4> QED
        BY <1>1, <1>2, <3>1, <4>1
    <3>2. CASE j # i
      <4>1. Serving(j) /\ path = j
        BY <1>4, <2>3, <3>2 DEF OneProc, Serving, ControlInv, ReachInv
      <4> QED
        BY <1>1, <4>1, ControlPlaneAssumption
    <3> QED
      BY <3>1, <3>2
  <2> QED
    BY <2>1, <2>2, <2>3
<1> QED
  BY <1>6, <1>7 DEF ControlInv

----------------------------------------------------------------------------
(* The running process. *)

\* A step of the tasks of one process that neither starts it nor ends its server.
LEMMA TaskStep ==
    ASSUME ControlInv, NEW i \in Instances, NEW r \in Proc, proc' = [proc EXCEPT ![i] = r],
           UNCHANGED <<path, conn, starts, faults, raced>>,
           \/ r.main = proc[i].main
           \/ proc[i].main \in Bound /\ r.main \in Bound,
           r.server = proc[i].server,
           r.queue > 0 => r.main \in Bound,
           r.signal # "Ended" => r.main = "Running",
           r.supervisor = "Ended" => r.queue = 0,
           r.main = "JoinServer" => r.supervisor = "Ended"
    PROVE  ControlInv'
<1>1. OneProc(i, r)
  BY SetProc DEF ControlInv
<1>2. FrameTyped
  BY DEF FrameTyped, ControlInv, ControlTypeOK
<1>3. r.server = "Serving" => r.main \in Bound
  BY ProcType DEF ControlInv, Serving
<1>4. /\ ControlTypeOK' /\ \A j \in Instances : ProcShape(j)'
      /\ \A c \in Clients : ConnShape(c)'
  <2>1. r.server = "Serving" \/ r.queue > 0 => r.main \in Bound
    BY <1>3
  <2>2. proc[i].main \in Bound => r.main \in Bound
    OBVIOUS
  <2>3. Serving(i) => r.server = "Serving"
    BY DEF Serving
  <2> QED
    BY <1>1, <1>2, <2>1, <2>2, <2>3, QuietStep
<1>5. ReachInv'
  <2>1. r.main \in Starting => proc[i].main \in Starting
    BY DEF Bound, Joining, Starting
  <2>2. r.server = "Serving" => Serving(i)
    BY DEF Serving
  <2>3. r.main = "Remove" => proc[i].main = "Remove"
    BY DEF Bound, Joining
  <2> QED
    BY <1>1, <2>1, <2>2, <2>3, ReachStep
<1> QED
  BY <1>4, <1>5 DEF ControlInv

\* What the invariant says of one process.
LEMMA ProcFacts ==
    ASSUME ControlInv, NEW i \in Instances
    PROVE  /\ proc[i] \in Proc
           /\ proc[i].queue > 0 => proc[i].main \in Bound
           /\ proc[i].server = "Serving" => proc[i].main \in Bound
           /\ proc[i].signal # "Ended" => proc[i].main = "Running"
           /\ proc[i].supervisor = "Ended" => proc[i].queue = 0
           /\ proc[i].main = "JoinServer" => proc[i].supervisor = "Ended"
BY ProcType DEF ControlInv, ProcShape, Serving

LEMMA GatewayKeeps ==
    ASSUME ControlInv, NEW i \in Instances, ShardsRun(i) \/ ClientReturns(i)
    PROVE  ControlInv'
<1>1. PICK to \in {"Running", "Stopped"} : proc' = [proc EXCEPT ![i] = [@ EXCEPT !.gateway = to]]
  BY DEF ShardsRun, ClientReturns
<1>2. UNCHANGED <<path, conn, starts, faults, raced>>
  BY DEF ShardsRun, ClientReturns
<1> DEFINE r == [proc[i] EXCEPT !.gateway = to]
<1>3. /\ r \in Proc /\ r.main = proc[i].main /\ r.server = proc[i].server
      /\ r.queue = proc[i].queue /\ r.signal = proc[i].signal
      /\ r.supervisor = proc[i].supervisor
  BY ProcFacts DEF Proc
<1>4. proc' = [proc EXCEPT ![i] = r]
  BY <1>1
<1> HIDE DEF r
<1> QED
  BY <1>2, <1>3, <1>4, ProcFacts, TaskStep

LEMMA ReceiveTermKeeps ==
    ASSUME ControlInv, NEW i \in Instances, ReceiveTerm(i)
    PROVE  ControlInv'
<1> DEFINE r == [proc[i] EXCEPT !.signal = "Sending"]
<1>1. /\ r \in Proc /\ r.main = proc[i].main /\ r.server = proc[i].server
      /\ r.queue = proc[i].queue /\ r.supervisor = proc[i].supervisor
  BY ProcFacts DEF Proc
<1>2. /\ proc' = [proc EXCEPT ![i] = r] /\ proc[i].main = "Running"
      /\ UNCHANGED <<path, conn, starts, faults, raced>>
  BY DEF ReceiveTerm
<1> HIDE DEF r
<1> QED
  BY <1>1, <1>2, ProcFacts, TaskStep

\* What a send leaves in the channel: no more than there is room for, and nothing where
\* nobody receives.
LEMMA SendFits ==
    ASSUME ControlInv, NEW i \in Instances, CanSend(i)
    PROVE  /\ Queued(i) \in 0 .. QueueCapacity
           /\ proc[i].supervisor = "Ended" => Queued(i) = 0
<1>1. proc[i].queue \in 0 .. QueueCapacity /\ QueueCapacity \in Nat
  BY ProcFacts, ControlPlaneAssumption DEF Proc
<1> QED
  BY <1>1, ProcFacts DEF CanSend, Queued

LEMMA ForwardTermKeeps ==
    ASSUME ControlInv, NEW i \in Instances, ForwardTerm(i)
    PROVE  ControlInv'
<1> DEFINE r == [proc[i] EXCEPT !.signal = "Ended", !.queue = Queued(i)]
<1>1. /\ proc[i].signal = "Sending" /\ CanSend(i)
      /\ proc' = [proc EXCEPT ![i] = r] 
      /\ UNCHANGED <<path, conn, starts, faults, raced>>
  BY DEF ForwardTerm
<1>2. /\ Queued(i) \in 0 .. QueueCapacity
      /\ proc[i].supervisor = "Ended" => Queued(i) = 0
  BY <1>1, SendFits
<1>3. /\ r \in Proc /\ r.main = proc[i].main /\ r.server = proc[i].server
      /\ r.queue = Queued(i) /\ r.supervisor = proc[i].supervisor /\ r.signal = "Ended"
  BY <1>2, ProcFacts DEF Proc
<1> HIDE DEF r
<1>4. proc[i].main = "Running"
  BY <1>1, ProcFacts
<1>5. r.main \in Bound
  BY <1>3, <1>4 DEF Bound
<1> QED
  BY <1>1, <1>2, <1>3, <1>4, <1>5, TaskStep

LEMMA TakeStopKeeps ==
    ASSUME ControlInv, NEW i \in Instances, TakeStop(i)
    PROVE  ControlInv'
<1> DEFINE r == [proc[i] EXCEPT !.supervisor = "Stopping", !.queue = @ - 1]
<1>1. /\ proc[i].supervisor = "Waiting" /\ proc[i].queue > 0
      /\ proc' = [proc EXCEPT ![i] = r]
      /\ UNCHANGED <<path, conn, starts, faults, raced>>
  BY DEF TakeStop
<1>2. proc[i].queue - 1 \in 0 .. QueueCapacity
  BY <1>1, ProcFacts, ControlPlaneAssumption DEF Proc
<1>3. /\ r \in Proc /\ r.main = proc[i].main /\ r.server = proc[i].server
      /\ r.supervisor = "Stopping" /\ r.signal = proc[i].signal
  BY <1>2, ProcFacts DEF Proc
<1> HIDE DEF r
<1>4. r.main \in Bound /\ r.main # "JoinServer"
  BY <1>1, <1>3, ProcFacts
<1> QED
  BY <1>1, <1>3, <1>4, ProcFacts, TaskStep

LEMMA ShutdownAllKeeps ==
    ASSUME ControlInv, NEW i \in Instances, ShutdownAll(i)
    PROVE  ControlInv'
<1>1. proc[i] \in Proc /\ 0 \in 0 .. QueueCapacity
  BY ProcFacts, ControlPlaneAssumption
<1>2. proc[i].gateway \in {"Connecting", "Running", "Closing", "Stopped"}
  BY <1>1 DEF Proc
<1> DEFINE after == CASE proc[i].gateway = "Running" -> {"Closing"}
                      [] proc[i].gateway = "Connecting" -> {"Connecting", "Closing"}
                      [] OTHER -> {proc[i].gateway}
<1>3. after \subseteq {"Connecting", "Running", "Closing", "Stopped"}
  <2>1. CASE proc[i].gateway = "Running"
    BY <2>1
  <2>2. CASE proc[i].gateway = "Connecting"
    BY <2>2
  <2>3. CASE proc[i].gateway \notin {"Running", "Connecting"}
    <3>1. after = {proc[i].gateway}
      BY <2>3
    <3> QED
      BY <1>2, <3>1
  <2> QED
    BY <2>1, <2>2, <2>3
<1>4. PICK gateway \in after :
          proc' = [proc EXCEPT ![i].supervisor = "Ended", ![i].gateway = gateway,
                               ![i].queue = 0]
  BY Zenon DEF ShutdownAll
<1> HIDE DEF after
<1> DEFINE r == [proc[i] EXCEPT !.supervisor = "Ended", !.gateway = gateway, !.queue = 0]
<1>5. gateway \in {"Connecting", "Running", "Closing", "Stopped"}
  BY <1>3, <1>4
<1>6. /\ r \in Proc /\ r.main = proc[i].main /\ r.server = proc[i].server /\ r.queue = 0
      /\ r.supervisor = "Ended" /\ r.signal = proc[i].signal
  BY <1>1, <1>5 DEF Proc
<1>7. proc' = [proc EXCEPT ![i] = r]
  BY <1>4
<1>8. UNCHANGED <<path, conn, starts, faults, raced>>
  BY DEF ShutdownAll
<1> HIDE DEF r
<1>9. ~(r.queue > 0) /\ (r.signal # "Ended" => r.main = "Running")
  BY <1>6, ProcFacts
<1> QED
  BY <1>6, <1>7, <1>8, <1>9, TaskStep

LEMMA SupervisorEndsKeeps ==
    ASSUME ControlInv, NEW i \in Instances, SupervisorEnds(i)
    PROVE  ControlInv'
<1> DEFINE r == [proc[i] EXCEPT !.supervisor = "Ended"]
<1>1. /\ proc[i].queue = 0 /\ proc' = [proc EXCEPT ![i] = r]
      /\ UNCHANGED <<path, conn, starts, faults, raced>>
  BY DEF SupervisorEnds
<1>2. /\ r \in Proc /\ r.main = proc[i].main /\ r.server = proc[i].server
      /\ r.queue = proc[i].queue /\ r.supervisor = "Ended" /\ r.signal = proc[i].signal
  BY ProcFacts DEF Proc
<1> HIDE DEF r
<1> QED
  BY <1>1, <1>2, ProcFacts, TaskStep

----------------------------------------------------------------------------
(* The end of run_bot. *)

LEMMA BeginShutdownKeeps ==
    ASSUME ControlInv, NEW i \in Instances, BeginShutdown(i)
    PROVE  ControlInv'
<1> DEFINE r == [proc[i] EXCEPT !.main = "JoinSupervisor", !.signal = "Ended"]
<1>1. /\ proc[i].main = "Running" /\ proc' = [proc EXCEPT ![i] = r]
      /\ UNCHANGED <<path, conn, starts, faults, raced>>
  BY DEF BeginShutdown
<1>2. /\ r \in Proc /\ r.main = "JoinSupervisor" /\ r.server = proc[i].server
      /\ r.queue = proc[i].queue /\ r.supervisor = proc[i].supervisor /\ r.signal = "Ended"
  BY ProcFacts DEF Proc, Joining
<1> HIDE DEF r
<1>3. proc[i].main \in Bound /\ r.main \in Bound
  BY <1>1, <1>2 DEF Bound, Joining
<1> QED
  BY <1>1, <1>2, <1>3, ProcFacts, TaskStep

LEMMA JoinSupervisorKeeps ==
    ASSUME ControlInv, NEW i \in Instances, JoinSupervisor(i)
    PROVE  ControlInv'
<1> DEFINE r == [proc[i] EXCEPT !.main = "JoinServer"]
<1>1. /\ proc[i].main = "JoinSupervisor" /\ proc[i].supervisor = "Ended"
      /\ proc' = [proc EXCEPT ![i] = r]
      /\ UNCHANGED <<path, conn, starts, faults, raced>>
  BY DEF JoinSupervisor, Main
<1>2. /\ r \in Proc /\ r.main = "JoinServer" /\ r.server = proc[i].server
      /\ r.queue = proc[i].queue /\ r.supervisor = "Ended" /\ r.signal = proc[i].signal
  BY <1>1, ProcFacts DEF Proc, Joining
<1> HIDE DEF r
<1>3. proc[i].main \in Bound /\ r.main \in Bound
  BY <1>1, <1>2 DEF Bound, Joining
<1>4. r.signal = "Ended"
  BY <1>1, <1>2, ProcFacts
<1> QED
  BY <1>1, <1>2, <1>3, <1>4, ProcFacts, TaskStep

\* The supervisor has been joined, so the channel is empty; the server too, so that no
\* connection waits to be accepted; those that are handled break with the runtime.
LEMMA JoinServerKeeps ==
    ASSUME ControlInv, NEW i \in Instances, JoinServer(i)
    PROVE  ControlInv'
<1> DEFINE r == [proc[i] EXCEPT !.main = "Exited"]
<1>1. /\ proc[i].main = "JoinServer" /\ proc' = [proc EXCEPT ![i] = r]
      /\ ~Serving(i) /\ conn' = Broken(i, Handled)
      /\ UNCHANGED <<path, starts, faults, raced>>
  BY DEF JoinServer, Main
<1>2. /\ r \in Proc /\ r.main = "Exited" /\ r.server = proc[i].server
      /\ r.queue = proc[i].queue /\ r.supervisor = proc[i].supervisor
      /\ r.signal = proc[i].signal
  BY ProcFacts DEF Proc
<1> HIDE DEF r
<1>3. /\ r.server # "Serving" /\ r.supervisor = "Ended" /\ r.queue = 0 /\ r.signal = "Ended"
      /\ ~(r.main \in Starting) /\ r.main # "JoinServer"
  BY <1>1, <1>2, ProcFacts DEF Serving, Starting
<1>4. OneProc(i, r) /\ FrameTyped
  BY <1>1, <1>2, SetProc DEF FrameTyped, ControlInv, ControlTypeOK
<1>5. /\ conn' \in [Clients -> Conn]
      /\ \A c \in Clients : conn'[c].state \in Open =>
             conn'[c] = conn[c] /\ ~(conn[c].to = i /\ conn[c].state \in Handled)
  BY <1>1, BrokenConns
<1>6. ASSUME NEW c \in Clients, conn'[c].state \in Open
      PROVE  conn[c].state \in Open /\ conn'[c] = conn[c] /\ conn[c].to # i
  BY <1>1, <1>5, <1>6 DEF ControlInv, ConnShape, Open
<1>7. ~(r.server = "Serving" \/ r.queue > 0)
  BY <1>3
<1>8. /\ ControlTypeOK' /\ \A j \in Instances : ProcShape(j)'
      /\ \A c \in Clients : ConnShape(c)'
  BY <1>3, <1>4, <1>5, <1>6, <1>7, ProcStep
<1>9. ReachInv'
  BY <1>1, <1>2, <1>3, <1>4, ReachStep DEF Starting
<1> QED
  BY <1>8, <1>9 DEF ControlInv

\* A server that ends, with what it does to the path: nobody else serves, or processes raced.
LEMMA ServerStops ==
    ASSUME ControlInv, NEW i \in Instances, Serving(i),
           proc' = [proc EXCEPT ![i].server = "Ended"], conn' = Broken(i, {"Queued"}),
           UNCHANGED <<starts, raced>>, path' \in {path, NoSocket}, faults' \in 0 .. MaxFaults
    PROVE  ControlInv'
<1> DEFINE r == [proc[i] EXCEPT !.server = "Ended"]
<1>1. proc' = [proc EXCEPT ![i] = r] /\ proc[i].server = "Serving"
  BY DEF Serving
<1>2. /\ r \in Proc /\ r.main = proc[i].main /\ r.server = "Ended" /\ r.queue = proc[i].queue
      /\ r.supervisor = proc[i].supervisor /\ r.signal = proc[i].signal
  BY ProcFacts DEF Proc
<1> HIDE DEF r
<1>3. r.main \in Bound /\ ~(r.main \in Starting)
  BY <1>1, <1>2, ProcFacts DEF Bound, Joining, Starting
<1>4. OneProc(i, r) /\ FrameTyped
  BY <1>1, <1>2, SetProc DEF FrameTyped, ControlInv, ControlTypeOK
<1>5. /\ conn' \in [Clients -> Conn]
      /\ \A c \in Clients : conn'[c].state \in Open =>
             conn'[c] = conn[c] /\ ~(conn[c].to = i /\ conn[c].state \in {"Queued"})
  BY BrokenConns
<1>6. /\ ControlTypeOK' /\ \A j \in Instances : ProcShape(j)'
      /\ \A c \in Clients : ConnShape(c)'
  BY <1>2, <1>3, <1>4, <1>5, ProcFacts, ProcStep
<1>7. ReachInv'
  <2> SUFFICES ASSUME ~raced
               PROVE  /\ \A j, k \in Instances :
                            proc'[j].main \in Starting /\ proc'[k].main \in Starting => j = k
                      /\ \A j \in Instances :
                            proc'[j].main = "Remove" => \A k \in Instances : ~Serving(k)'
                      /\ \A j \in Instances : Serving(j)' => path' = j
    BY DEF ReachInv
  <2>1. \A j \in Instances : ~Serving(j)'
    <3>1. \A j \in Instances : Serving(j) => j = i
      BY DEF ControlInv, ReachInv
    <3> QED
      BY <1>2, <1>4, <3>1 DEF OneProc, Serving
  <2>2. \A j \in Instances : proc'[j].main \in Starting => proc[j].main \in Starting
    BY <1>3, <1>4 DEF OneProc
  <2> QED
    BY <2>1, <2>2 DEF ControlInv, ReachInv
<1> QED
  BY <1>6, <1>7 DEF ControlInv

----------------------------------------------------------------------------
(* The faults. *)

LEMMA CrashKeeps ==
    ASSUME ControlInv, NEW i \in Instances, Crash(i), UNCHANGED <<starts, raced>>,
           faults' \in 0 .. MaxFaults
    PROVE  ControlInv'
<1> DEFINE r == NotRunning("Off")
<1>1. /\ proc' = [proc EXCEPT ![i] = r] /\ conn' = Broken(i, {"Queued"} \cup Handled)
      /\ UNCHANGED <<path, raced>>
  BY DEF Crash
<1>2. /\ r \in Proc /\ r.main = "Off" /\ r.server = "Ended" /\ r.queue = 0
      /\ r.signal = "Ended" /\ r.supervisor = "Ended" /\ ~(r.main \in Starting)
  BY ControlPlaneAssumption DEF NotRunning, Proc, Starting
<1> HIDE DEF r
<1>3. OneProc(i, r) /\ FrameTyped
  BY <1>1, <1>2, SetProc DEF FrameTyped, ControlInv, ControlTypeOK
<1>4. /\ conn' \in [Clients -> Conn]
      /\ \A c \in Clients : conn'[c].state \in Open =>
             conn'[c] = conn[c] /\ ~(conn[c].to = i /\ conn[c].state \in Open)
  BY <1>1, BrokenConns DEF Open
<1>5. ~(r.server = "Serving" \/ r.queue > 0)
  BY <1>2
<1>6. /\ ControlTypeOK' /\ \A j \in Instances : ProcShape(j)'
      /\ \A c \in Clients : ConnShape(c)'
  BY <1>2, <1>3, <1>4, <1>5, ProcStep
<1>7. ReachInv'
  BY <1>1, <1>2, <1>3, ReachStep DEF Starting
<1> QED
  BY <1>6, <1>7 DEF ControlInv

\* The socket that is made, and is nobody's, is made where there is none.
LEMMA ChmodKeeps ==
    ASSUME ControlInv, NEW i \in Instances, ChmodFails(i), UNCHANGED <<starts, raced>>,
           faults' \in 0 .. MaxFaults
    PROVE  ControlInv'
<1>1. Main(i, "Bind", "Off") /\ path = NoSocket /\ path' = i /\ UNCHANGED conn
  BY DEF ChmodFails
<1>2. "Bind" \in Starting /\ "Off" \in Starting \cup {"Off"} /\ ~("Off" \in Starting)
  BY DEF Starting
<1>3. path' \in Instances \cup {NoSocket} /\ UNCHANGED <<conn, starts, raced>>
  BY <1>1
<1> DEFINE r == [proc[i] EXCEPT !.main = "Off"]
<1>4. /\ OneProc(i, r) /\ r.main = "Off" /\ r.server = "Ended"
      /\ ControlTypeOK' /\ \A j \in Instances : ProcShape(j)'
      /\ \A c \in Clients : ConnShape(c)'
  BY <1>1, <1>2, <1>3, MainKeeps
<1> HIDE DEF r
<1>5. ReachInv'
  <2> SUFFICES ASSUME ~raced
               PROVE  /\ \A j, k \in Instances :
                            proc'[j].main \in Starting /\ proc'[k].main \in Starting => j = k
                      /\ \A j \in Instances : ~Serving(j)'
    BY <1>3 DEF ReachInv
  <2>1. \A j \in Instances : ~Serving(j)
    BY <1>1, ControlPlaneAssumption DEF ControlInv, ReachInv
  <2>2. \A j \in Instances : ~Serving(j)'
    BY <1>4, <2>1 DEF OneProc, Serving
  <2>3. \A j \in Instances : proc'[j].main \in Starting => proc[j].main \in Starting
    BY <1>2, <1>4 DEF OneProc
  <2> QED
    BY <2>2, <2>3 DEF ControlInv, ReachInv
<1> QED
  BY <1>4, <1>5 DEF ControlInv

LEMMA FaultKeeps ==
    ASSUME ControlInv, NEW i \in Instances, Fault(i)
    PROVE  ControlInv'
<1>1. faults' \in 0 .. MaxFaults
  BY ControlPlaneAssumption DEF Fault, ControlInv, ControlTypeOK
<1>2. UNCHANGED <<starts, raced>>
  BY DEF Fault
<1>3. CASE Crash(i)
  BY <1>1, <1>2, <1>3, CrashKeeps
<1>4. CASE AcceptFails(i)
  BY <1>1, <1>2, <1>4, ServerStops DEF AcceptFails
<1>5. CASE ChmodFails(i)
  BY <1>1, <1>2, <1>5, ChmodKeeps
<1> QED
  BY <1>3, <1>4, <1>5 DEF Fault

LEMMA ServerEndsKeeps ==
    ASSUME ControlInv, NEW i \in Instances, ServerEnds(i)
    PROVE  ControlInv'
<1>1. /\ Serving(i) /\ proc' = [proc EXCEPT ![i].server = "Ended"]
      /\ conn' = Broken(i, {"Queued"}) /\ UNCHANGED <<starts, raced>>
      /\ path' \in {path, NoSocket} /\ faults' \in 0 .. MaxFaults
  BY DEF ServerEnds, ControlInv, ControlTypeOK
<1> QED
  BY <1>1, ServerStops

----------------------------------------------------------------------------
(* The connections. *)

\* Nothing that is said of the path depends on the connections.
LEMMA ReachStays ==
    ASSUME ControlInv, UNCHANGED <<path, raced>>, NEW i \in Instances, NEW queue,
           proc' = [proc EXCEPT ![i].queue = queue]
    PROVE  ReachInv'
<1>1. ASSUME NEW j \in Instances
      PROVE  proc'[j].main = proc[j].main /\ proc'[j].server = proc[j].server
  <2>1. proc \in [Instances -> Proc]
    BY ProcType DEF ControlInv
  <2>2. CASE j = i
    BY <2>1, <2>2 DEF Proc
  <2>3. CASE j # i
    BY <2>1, <2>3
  <2> QED
    BY <2>2, <2>3
<1> QED
  BY <1>1 DEF ControlInv, ReachInv, Serving

\* A step of a connection that exists.
LEMMA ConnGoesKeeps ==
    ASSUME ControlInv, NEW c \in Clients, NEW from, NEW to, from \subseteq Open,
           to \in {"Answered", "Acked", "Failed", "TimedOut"} \cup Handled,
           ConnGoes(c, from, to), UNCHANGED <<path, proc, starts, faults, raced>>
    PROVE  ControlInv'
<1> DEFINE r == [conn[c] EXCEPT !.state = to]
<1>1. conn[c] \in Conn /\ conn[c].state \in Open /\ conn' = [conn EXCEPT ![c] = r]
  BY ConnType DEF ConnGoes, ControlInv
<1>2. r \in Conn /\ r.state = to /\ r.to = conn[c].to
  BY <1>1 DEF Conn
<1> HIDE DEF r
<1>3. r.state # "Queued"
  BY <1>2 DEF Handled
<1>4. r.to \in Instances /\ proc[r.to].main \in Bound
  BY <1>1, <1>2 DEF ControlInv, ConnShape, Open
<1>5. FrameTyped
  BY DEF FrameTyped, ControlInv, ControlTypeOK
<1>6. /\ ControlTypeOK' /\ \A j \in Instances : ProcShape(j)'
      /\ \A d \in Clients : ConnShape(d)'
  BY <1>1, <1>2, <1>3, <1>4, <1>5, ConnStep
<1>7. ReachInv'
  BY DEF ControlInv, ReachInv, Serving
<1> QED
  BY <1>6, <1>7 DEF ControlInv

LEMMA ConnectKeeps ==
    ASSUME ControlInv, NEW c \in Clients, ConnectClient(c)
    PROVE  ControlInv'
<1> DEFINE r == [state |-> "Queued", to |-> path]
<1>1. /\ path # NoSocket /\ Serving(path) /\ conn' = [conn EXCEPT ![c] = r]
      /\ UNCHANGED <<path, proc, starts, faults, raced>>
  BY DEF ConnectClient
<1>2. path \in Instances
  BY <1>1 DEF ControlInv, ControlTypeOK
<1>3. r \in Conn /\ r.to = path
  BY <1>2 DEF Conn
<1> HIDE DEF r
<1>4. proc[path].main \in Bound
  BY <1>1, <1>2, ProcFacts DEF Serving
<1>5. FrameTyped
  BY <1>1 DEF FrameTyped, ControlInv, ControlTypeOK
<1>6. /\ ControlTypeOK' /\ \A j \in Instances : ProcShape(j)'
      /\ \A d \in Clients : ConnShape(d)'
  BY <1>1, <1>2, <1>3, <1>4, <1>5, ConnStep
<1>7. ReachInv'
  BY <1>1 DEF ControlInv, ReachInv, Serving
<1> QED
  BY <1>6, <1>7 DEF ControlInv

\* A connection sends only while its process, which owns the channel, is there.
LEMMA SendStopKeeps ==
    ASSUME ControlInv, NEW c \in Clients, SendStop(c)
    PROVE  ControlInv'
<1> DEFINE i == conn[c].to
           to == IF proc[i].supervisor = "Ended" THEN "Failed" ELSE "Replying"
           p == [proc[i] EXCEPT !.queue = Queued(i)]
           r == [conn[c] EXCEPT !.state = to]
<1>1. /\ conn[c].state = "Sending" /\ conn' = [conn EXCEPT ![c] = r] /\ CanSend(i)
      /\ proc' = [proc EXCEPT ![i].queue = Queued(i)]
      /\ UNCHANGED <<path, starts, faults, raced>>
  BY DEF SendStop, ConnGoes
<1>2. i \in Instances /\ proc[i].main \in Bound
  BY <1>1 DEF ControlInv, ConnShape, Handled
<1>3. conn \in [Clients -> Conn] /\ r \in Conn /\ r.state = to /\ r.to = i
  BY ConnType DEF ControlInv, Conn, Handled
<1>4. /\ Queued(i) \in 0 .. QueueCapacity
      /\ proc[i].supervisor = "Ended" => Queued(i) = 0
  BY <1>1, <1>2, SendFits
<1>5. /\ p \in Proc /\ p.main = proc[i].main /\ p.server = proc[i].server
      /\ p.queue = Queued(i) /\ p.supervisor = proc[i].supervisor
      /\ p.signal = proc[i].signal
  BY <1>2, <1>4, ProcFacts DEF Proc
<1>6. OneProc(i, p) /\ FrameTyped
  <2>1. proc' = [proc EXCEPT ![i] = p]
    BY <1>1
  <2> HIDE DEF p, i, r
  <2> QED
    BY <1>1, <1>2, <1>5, <2>1, SetProc DEF FrameTyped, ControlInv, ControlTypeOK
<1>7. ReachInv'
  BY <1>1, <1>2, ReachStays
<1>8. to # "Queued"
  OBVIOUS
<1> HIDE DEF p, r, to, i
<1>9. /\ conn' \in [Clients -> Conn] /\ conn'[c] = r
      /\ \A d \in Clients : d # c => conn'[d] = conn[d]
  BY <1>1, <1>3
<1>10. ASSUME NEW d \in Clients, conn'[d].state \in Open
       PROVE  /\ conn[d].state \in Open /\ conn'[d].to = conn[d].to
              /\ conn'[d].state = "Queued" => conn[d].state = "Queued"
              /\ conn[d].to = i => /\ p.main \in Bound
                                   /\ conn'[d].state = "Queued" => p.server = "Serving"
  <2>1. CASE d = c
    <3>1. conn[c].state \in Open
      BY <1>1 DEF Open, Handled
    <3>2. conn[c].to = i
      BY DEF i
    <3> QED
      BY <1>2, <1>3, <1>5, <1>8, <1>9, <2>1, <3>1, <3>2
  <2>2. CASE d # c
    BY <1>2, <1>5, <1>9, <1>10, <2>2 DEF ControlInv, ConnShape, Serving, Open
  <2> QED
    BY <2>1, <2>2
<1>11. /\ ControlTypeOK' /\ \A j \in Instances : ProcShape(j)'
       /\ \A d \in Clients : ConnShape(d)'
  <2>1. /\ p.server = "Serving" \/ p.queue > 0 => p.main \in Bound
        /\ p.signal # "Ended" => p.main = "Running"
        /\ p.supervisor = "Ended" => p.queue = 0
        /\ p.main = "JoinServer" => p.supervisor = "Ended"
    BY <1>2, <1>4, <1>5, ProcFacts
  <2> QED
    BY <1>2, <1>6, <1>9, <1>10, <2>1, ProcStep
<1> QED
  BY <1>7, <1>11 DEF ControlInv

LEMMA ClientKeeps ==
    ASSUME ControlInv, NEW c \in Clients, ConnectClient(c) \/ Accept(c) \/ Handle(c)
    PROVE  ControlInv'
<1>1. CASE ConnectClient(c)
  BY <1>1, ConnectKeeps
<1>2. CASE Accept(c)
  BY <1>2, ConnGoesKeeps DEF Accept, Open, Handled
<1>3. CASE ReadRequest(c)
  <2>1. PICK to \in {"Sending", "Answered", "Failed"} : ConnGoes(c, {"Reading"}, to)
    BY <1>3 DEF ReadRequest
  <2> QED
    BY <1>3, <2>1, ConnGoesKeeps DEF ReadRequest, Open, Handled
<1>4. CASE SendStop(c)
  BY <1>4, SendStopKeeps
<1>5. CASE ReplyAck(c)
  BY <1>5, ConnGoesKeeps DEF ReplyAck, Open, Handled
<1>6. CASE TimeOut(c)
  BY <1>6, ConnGoesKeeps DEF TimeOut, Open, Handled
<1> QED
  BY <1>1, <1>2, <1>3, <1>4, <1>5, <1>6 DEF Handle

----------------------------------------------------------------------------
(* The theorems. *)

LEMMA ControlInvInit == ControlInit => ControlInv
<1> SUFFICES ASSUME ControlInit PROVE ControlInv
  OBVIOUS
<1>1. \A i \in Instances : proc[i] = NotRunning("Off")
  BY DEF ControlInit
<1>2. NotRunning("Off") \in Proc
  BY ControlPlaneAssumption DEF NotRunning, Proc
<1>3. conn \in [Clients -> Conn] /\ \A c \in Clients : conn[c].state = "None"
  BY DEF ControlInit, NoConnection, Conn
<1>4. ControlTypeOK
  <2>1. proc \in [Instances -> Proc]
    BY <1>2 DEF ControlInit
  <2>2. \A i \in Instances : ~(Serving(i) \/ proc[i].queue > 0)
    BY <1>1 DEF NotRunning, Serving
  <2>3. path = NoSocket /\ starts \in 0 .. MaxStarts /\ faults \in 0 .. MaxFaults /\ raced = FALSE
    BY ControlPlaneAssumption DEF ControlInit
  <2> QED
    BY <1>3, <2>1, <2>2, <2>3 DEF ControlTypeOK, Proc, Conn
<1>5. \A i \in Instances : ProcShape(i)
  BY <1>1 DEF ProcShape, NotRunning
<1>6. \A c \in Clients : ConnShape(c)
  BY <1>3 DEF ConnShape, Handled
<1>7. ReachInv
  BY <1>1 DEF ReachInv, NotRunning, Starting, Serving
<1> QED
  BY <1>4, <1>5, <1>6, <1>7 DEF ControlInv

LEMMA ControlInvStep ==
    ASSUME ControlInv, [ControlNext]_controlVars
    PROVE  ControlInv'
<1>1. ASSUME NEW i \in Instances,
             \/ Start(i) \/ CheckPath(i) \/ ProbeListener(i) \/ RemoveStale(i) \/ Bind(i)
             \/ ShardsRun(i) \/ ClientReturns(i) \/ ReceiveTerm(i)
             \/ Proceed(i) \/ ServerEnds(i)
             \/ Fault(i)
      PROVE  ControlInv'
  BY <1>1, StartKeeps, CheckKeeps, ProbeKeeps, RemoveKeeps, BindKeeps, GatewayKeeps,
     ReceiveTermKeeps, ForwardTermKeeps, TakeStopKeeps, ShutdownAllKeeps,
     SupervisorEndsKeeps, BeginShutdownKeeps, JoinSupervisorKeeps, JoinServerKeeps,
     ServerEndsKeeps, FaultKeeps DEF Proceed
<1>2. CASE UNCHANGED controlVars
  BY <1>2 DEF controlVars, ControlInv, ControlTypeOK, ProcShape, ConnShape, ReachInv, Serving
<1> QED
  BY <1>1, <1>2, ClientKeeps DEF ControlNext

LEMMA ControlInvHolds == ControlSpec => []ControlInv
<1> QED
  BY ControlInvInit, ControlInvStep, PTL DEF ControlSpec

\* The processes and connections keep their types, only a process that has bound the socket
\* serves or queues anything, and the channel of commands never holds more than it has room
\* for, for every number of processes, clients, starts and faults.
THEOREM ControlTypesCorrect == ControlSpec => []ControlTypeOK
<1>1. ControlInv => ControlTypeOK
  BY DEF ControlInv
<1> QED
  BY <1>1, ControlInvHolds, PTL

\* The socket that a process serves is the one at the path, whatever sockets crashed
\* processes left there and whatever they removed, unless two processes started at once.
THEOREM ServersAreReachable == ControlSpec => []ServerIsReachable
<1>1. ControlInv => ServerIsReachable
  BY DEF ControlInv, ReachInv, ServerIsReachable
<1> QED
  BY <1>1, ControlInvHolds, PTL
=============================================================================
