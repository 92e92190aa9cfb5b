----------------------------- MODULE HdcpProfile ----------------------------
(***************************************************************************)
(* HdcpProfileImplementation: an event makes the plugin read the port's    *)
(* state from the driver, value by value, and submit a job with what it    *)
(* read; the threads of the worker pool deliver the jobs to the registered *)
(* clients, under _adminLock and in any order among the jobs they hold.    *)
(*                                                                         *)
(* The variables outdated and dropped are history: no guard reads them.    *)
(***************************************************************************)
EXTENDS Naturals, Sequences, FiniteSets

CONSTANTS
  Clients,      \* notification sinks
  Workers,      \* threads of the worker pool
  MaxChanges,   \* changes of the port
  MaxFaults     \* driver exceptions and power states that cannot be read

\* The port as the driver sees it: HDCP versions are kept as dsHDCP_VERSION_2X or not.
PortStates ==
  [connected : {FALSE}, hdcp : {"UNPOWERED"}, protected : {FALSE}, v2 : {FALSE}]
    \cup [connected : {TRUE}, hdcp : {"UNAUTHENTICATED"}, protected : BOOLEAN, v2 : {FALSE}]
    \cup [connected : {TRUE}, hdcp : {"AUTHENTICATED"}, protected : BOOLEAN, v2 : BOOLEAN]

\* The reads of GetHDCPStatusInternal, in their order; the last two only if connected.
Reads == <<"connected", "hdcp", "protected", "v2">>

\* What is reported before anything is read, and if the driver throws at once.
Unread == [connected |-> FALSE, hdcp |-> "UNPOWERED", protected |-> TRUE, v2 |-> FALSE]

Idle == [step |-> "idle"]
NoJob == [taken |-> FALSE]

VARIABLES
  port,         \* the driver's port
  queue,        \* bus events not yet delivered
  handler,      \* the bus thread in dsHdmiEventHandler: reads so far
  jobs,         \* the pool's queue
  held,         \* worker |-> the job it has taken
  registered,   \* _hdcpProfileNotification
  heard,        \* client |-> the status it knows
  changes, faults,
  outdated,     \* a job was delivered after one with later reads
  dropped       \* an event was dropped, or the reads were cut short

vars == <<port, queue, handler, jobs, held, registered, heard, changes, faults, outdated, dropped>>

\* The report made of the values read.
Status(read) ==
  [isConnected     |-> read.connected,
   isHDCPCompliant |-> read.connected /\ read.hdcp = "AUTHENTICATED",
   isHDCPEnabled   |-> read.protected,
   receiverIs2     |-> read.v2,
   hdcpReason      |-> read.hdcp]

\* Not connected: isHDCPEnabled is set, and the versions are not asked for.
Unplugged(read) == [read EXCEPT !.protected = FALSE]

GetHDCPStatus == Status(IF port.connected THEN port ELSE Unplugged(port))

\* A hot plug or HDCP event; both may come of one change.
PortChanges ==
  /\ changes < MaxChanges /\ changes' = changes + 1
  /\ \E new \in PortStates \ {port} :
       /\ port' = new
       /\ queue' = Append(queue, IF new.connected = port.connected THEN "HDCP_STATUS" ELSE "HDMI_HOTPLUG")
  /\ UNCHANGED <<handler, jobs, held, registered, heard, faults, outdated, dropped>>

\* An HDCP_STATUS event is for nothing if the power state cannot be had.
EventArrives ==
  /\ queue # <<>> /\ handler = Idle /\ queue' = Tail(queue)
  /\ \/ /\ handler' = [step |-> 1, read |-> Unread]
        /\ UNCHANGED <<faults, dropped>>
     \/ /\ Head(queue) = "HDCP_STATUS" /\ faults < MaxFaults
        /\ faults' = faults + 1 /\ dropped' = TRUE
        /\ UNCHANGED handler
  /\ UNCHANGED <<port, jobs, held, registered, heard, changes, outdated>>

SubmitsAtOnce(step, connected) == step = 1

\* The status is read whether the port is connected or not, the rest if it was.
LastRead(step, connected) == step = Len(Reads) \/ (step = 2 /\ ~connected)

\* One more value, and after the last a job with all of them.
ReadsNext ==
  /\ handler # Idle
  /\ LET name == Reads[handler.step]
         read == [handler.read EXCEPT ![name] = port[name]] IN
     IF LastRead(handler.step, read.connected)
     THEN /\ jobs' = Append(jobs, Status(IF read.connected THEN read ELSE Unplugged(read)))
          /\ handler' = Idle
     ELSE /\ handler' = [step |-> handler.step + 1, read |-> read]
          /\ UNCHANGED jobs
  /\ UNCHANGED <<port, queue, held, registered, heard, changes, faults, outdated, dropped>>

\* The driver throws: what was read before is reported.
ReadThrows ==
  /\ handler # Idle /\ faults < MaxFaults /\ faults' = faults + 1
  /\ jobs' = Append(jobs, Status(handler.read))
  /\ handler' = Idle /\ dropped' = TRUE
  /\ UNCHANGED <<port, queue, held, registered, heard, changes, outdated>>

\* The pool's queue is in order.
WorkerTakes(w) ==
  /\ ~held[w].taken /\ jobs # <<>>
  /\ held' = [held EXCEPT ![w] = [taken |-> TRUE, status |-> Head(jobs), after |-> {v \in Workers : held[v].taken}]]
  /\ jobs' = Tail(jobs)
  /\ UNCHANGED <<port, queue, handler, registered, heard, changes, faults, outdated, dropped>>

\* Dispatch, _adminLock held; history: the jobs that others took before are late.
Dispatch(w) ==
  /\ held[w].taken
  /\ held' = [v \in Workers |->
       IF v = w \/ ~held[v].taken THEN NoJob ELSE [held[v] EXCEPT !.after = @ \ {w}]]
  /\ heard' = [c \in Clients |-> IF c \in registered THEN held[w].status ELSE heard[c]]
  /\ outdated' = (outdated \/ held[w].after # {})
  /\ UNCHANGED <<port, queue, handler, jobs, registered, changes, faults, dropped>>

\* A client registers and asks, or leaves.
Register(c) ==
  /\ c \notin registered /\ registered' = registered \cup {c}
  /\ heard' = [heard EXCEPT ![c] = GetHDCPStatus]
  /\ UNCHANGED <<port, queue, handler, jobs, held, changes, faults, outdated, dropped>>

Unregister(c) ==
  /\ c \in registered /\ registered' = registered \ {c}
  /\ UNCHANGED <<port, queue, handler, jobs, held, heard, changes, faults, outdated, dropped>>

Init ==
  /\ port = [connected |-> FALSE, hdcp |-> "UNPOWERED", protected |-> FALSE, v2 |-> FALSE]
  /\ queue = <<>> /\ handler = Idle /\ jobs = <<>>
  /\ held = [w \in Workers |-> NoJob]
  /\ registered = {} /\ heard = [c \in Clients |-> GetHDCPStatus]
  /\ changes = 0 /\ faults = 0
  /\ outdated = FALSE /\ dropped = FALSE

Next ==
  \/ PortChanges \/ EventArrives \/ ReadsNext \/ ReadThrows
  \/ \E w \in Workers : WorkerTakes(w) \/ Dispatch(w)
  \/ \E c \in Clients : Register(c) \/ Unregister(c)

Spec == Init /\ [][Next]_vars
-----------------------------------------------------------------------------
TypeOK ==
  /\ port \in PortStates /\ registered \subseteq Clients
  /\ handler # Idle => handler.step \in 1 .. Len(Reads)
  /\ \A w \in Workers : held[w].taken => held[w].after \subseteq Workers \ {w}

\* Once nothing is under way, the last word a registered client has heard is what
\* GetHDCPStatus answers: reads that fall apart because the port changes in between
\* are made good by the event of that change, and so are jobs that a client gets
\* after it has asked.  It fails only if two workers deliver in the other order,
\* and if an event is dropped or the driver throws.
HdcpLastWord ==
  queue = <<>> /\ handler = Idle /\ jobs = <<>> /\ (\A w \in Workers : ~held[w].taken)
  /\ ~outdated /\ ~dropped
    => \A c \in registered : heard[c] = GetHDCPStatus
=============================================================================
