----------------------------- MODULE HttpServer -----------------------------
(***************************************************************************)
(* The HTTP server of `mcp`: connections, their requests, and shutdown.    *)
(*                                                                         *)
(* One thread accepts, one worker thread serves each connection, one       *)
(* thread handles SIGINT, SIGTERM and SIGQUIT, another SIGHUP, and every   *)
(* copy to the clipboard has a timer thread of its own.  The server keeps  *)
(* the set of registered transports and the draining and cancelled flags   *)
(* under one mutex; a connection's idle flag is an atomic beside it.  A    *)
(* worker is stopped only by the closing of its transport, which the reads *)
(* and writes of that worker then see; a call that waits for an approval   *)
(* does not see it.                                                        *)
(*                                                                         *)
(* A signal thread takes the armed timers out of their registry and hands  *)
(* them to a thread that clears, for which it waits a bounded time; a      *)
(* timer, taken or not, that fires first claims the clear for itself; and  *)
(* a clear that fails is not tried again.                                  *)
(***************************************************************************)
EXTENDS ApprovalQueue

CONSTANTS
    MaxConns,     \* MAX_HTTP_CONNECTIONS
    MaxMcp,       \* MAX_HTTP_MCP_REQUESTS
    MaxRequests   \* bound: requests that arrive

ASSUME HttpAssumption ==
    /\ MaxConns \in Nat \ {0} /\ MaxMcp \in Nat \ {0} /\ MaxRequests \in Nat
    /\ IsFiniteSet(Conns)

VARIABLES
    pc,         \* where the worker of each connection is
    open,       \* the transports not closed by the server
    idle,       \* the connections whose idle flag is set
    sockets,    \* the registered transports
    slots,      \* the connections whose MCP call counts as active
    listening,  \* whether the accept loop still runs
    draining, cancelled,
    signal,     \* where the thread of SIGINT, SIGTERM and SIGQUIT is
    drained,    \* what drain has returned
    board,      \* whether the clipboard holds a copied secret
    armed,      \* registered timers
    firing,     \* registered timers that have claimed the clear, not yet cleared
    adrift,     \* the same, but taken out of the registry meanwhile
    taken,      \* timers each signal thread took, still to be cleared
    failed,     \* history: a clear of the copy on the clipboard has failed
    abandoned,  \* history: the signal thread has given up waiting for a clear
    race,       \* history: requests the drain met between first byte and start
    broken,     \* history: the listener failed before any drain
    requests

workers == <<pc, open, idle, sockets, slots>>
shutdown == <<listening, draining, cancelled, signal, drained, race, broken>>
timers == <<armed, firing, adrift, taken>>
clipboard == <<board, failed, abandoned, timers>>
vars == <<queue, workers, shutdown, clipboard, requests>>

(* The two signal listeners. *)
Takers == {"term", "hup"}

Init ==
    /\ QueueInit
    /\ pc = [c \in Conns |-> "none"]
    /\ open = {} /\ idle = {} /\ sockets = {} /\ slots = {}
    /\ listening = TRUE /\ draining = FALSE /\ cancelled = FALSE
    /\ signal = "none" /\ drained = FALSE
    /\ board = FALSE /\ armed = 0 /\ firing = 0 /\ adrift = 0
    /\ taken = [t \in Takers |-> 0]
    /\ failed = FALSE /\ abandoned = FALSE /\ broken = FALSE
    /\ race = {} /\ requests = 0

Running == signal \notin {"exit", "dead"}
Stopping == draining \/ cancelled
Goto(c, where) == pc' = [pc EXCEPT ![c] = where]

(* The connections a worker thread serves. *)
Active == {c \in Conns : pc[c] \notin {"none", "busy"}}

-----------------------------------------------------------------------------
(* The accept loop registers a transport unless the server is stopping,    *)
(* and answers 503 itself when all workers are taken.                      *)
Accept(c) ==
    /\ listening /\ ~Stopping /\ pc[c] = "none"
    /\ \A b \in Conns : pc[b] # "busy"
    /\ Goto(c, IF Cardinality(Active) < MaxConns THEN "first" ELSE "busy")
    /\ open' = open \cup {c} /\ sockets' = sockets \cup {c}
    /\ idle' = idle \ {c}
    /\ UNCHANGED <<slots, queue, shutdown, clipboard, requests>>

(* Mutant: the end of the accept loop cancels the transports of a drain. *)
CancelOnDropAlways == cancelled' = TRUE /\ open' = {}

(* The scope of the accept loop ends: transports are closed, but not those *)
(* of a drain that has not reached its deadline.                           *)
CancelOnDrop ==
    IF draining /\ ~cancelled
    THEN UNCHANGED <<cancelled, open>>
    ELSE cancelled' = TRUE /\ open' = {}

(* The loop ends when the server is stopping... *)
AcceptStops ==
    /\ listening /\ Stopping /\ \A b \in Conns : pc[b] # "busy"
    /\ listening' = FALSE /\ CancelOnDrop
    /\ UNCHANGED <<pc, idle, sockets, slots, draining, signal, drained, race, broken, queue,
                   clipboard, requests>>

(* ...or with the error of an accept or of a thread that cannot start. *)
AcceptFails ==
    /\ listening /\ \A b \in Conns : pc[b] # "busy"
    /\ listening' = FALSE /\ CancelOnDrop
    /\ broken' = (broken \/ ~draining)
    /\ UNCHANGED <<pc, idle, sockets, slots, draining, signal, drained, race, queue,
                   clipboard, requests>>

(* The first byte of a request arrives on an open transport... *)
Arrive(c) ==
    /\ pc[c] \in {"first", "idle"} /\ c \in open /\ requests < MaxRequests
    /\ requests' = requests + 1
    /\ Goto(c, "got")
    /\ UNCHANGED <<open, idle, sockets, slots, queue, shutdown, clipboard>>

(* ...or none does: the peer leaves, the read times out, or the server has *)
(* closed the transport.                                                   *)
NoRequest(c) ==
    /\ pc[c] \in {"first", "idle"}
    /\ Goto(c, "close")
    /\ UNCHANGED <<open, idle, sockets, slots, queue, shutdown, clipboard, requests>>

(* request_started.  The rest of the request may fail to arrive, certainly *)
(* when the drain has closed the transport in between.                     *)
RequestStarted(c) ==
    /\ pc[c] = "got"
    /\ idle' = idle \ {c}
    /\ \/ \E kind \in {"mcp", "decide", "answer"} : Goto(c, kind)
       \/ Goto(c, "close")
    /\ UNCHANGED <<open, sockets, slots, queue, shutdown, clipboard, requests>>

(* A request to the approval API: a listing, or a decision. *)
ServeApproval(c) ==
    /\ pc[c] = "decide"
    /\ List \/ \E q \in Conns, verdict \in Decisions : entry[q] # "none" /\ Decide(q, verdict)
    /\ Goto(c, "answer")
    /\ UNCHANGED <<open, idle, sockets, slots, shutdown, clipboard, requests>>

(* Mutant: the limit is off by one. *)
AdmitMcpOneMore(c) ==
    /\ pc[c] = "mcp"
    /\ IF Cardinality(slots) <= MaxMcp
       THEN slots' = slots \cup {c} /\ Goto(c, "call")
       ELSE Goto(c, "close") /\ UNCHANGED slots
    /\ UNCHANGED <<open, idle, sockets, queue, shutdown, clipboard, requests>>

(* try_acquire_mcp_request, or 503. *)
AdmitMcp(c) ==
    /\ pc[c] = "mcp"
    /\ IF Cardinality(slots) < MaxMcp
       THEN slots' = slots \cup {c} /\ Goto(c, "call")
       ELSE Goto(c, "close") /\ UNCHANGED slots
    /\ UNCHANGED <<open, idle, sockets, queue, shutdown, clipboard, requests>>

(* An admitted call is refused (bad origin, token or agent, or 403 once    *)
(* the request context is cancelled), or goes on to its session...         *)
StartCall(c) ==
    /\ pc[c] = "call"
    /\ Goto(c, "answer") \/ (~Stopping /\ Goto(c, "ready"))
    /\ UNCHANGED <<open, idle, sockets, slots, queue, shutdown, clipboard, requests>>

(* ...which it may have to wait for, so a drain may have begun by the time *)
(* it fails a check, runs, or asks for approval first.                     *)
Dispatch(c) ==
    /\ pc[c] = "ready"
    /\ \/ Goto(c, "answer") /\ UNCHANGED queue
       \/ Goto(c, "run") /\ UNCHANGED queue
       \/ Goto(c, "wait") /\ Enqueue(c)
    /\ UNCHANGED <<open, idle, sockets, slots, shutdown, clipboard, requests>>

(* Mutant: the call waits until somebody decides. *)
AwaitApprovalForever(c) ==
    /\ pc[c] = "wait" /\ Expired[c] \in Decisions /\ List
    /\ Goto(c, IF Expired[c] = "approved" THEN "run" ELSE "answer")
    /\ UNCHANGED <<open, idle, sockets, slots, shutdown, clipboard, requests>>

(* request_approval_queue returns. *)
AwaitApproval(c) ==
    /\ pc[c] = "wait" /\ WaitReturns(c)
    /\ Goto(c, IF Expired[c] = "approved" THEN "run" ELSE "answer")
    /\ UNCHANGED <<open, idle, sockets, slots, shutdown, clipboard, requests>>

(* copy_to_clipboard sets the clipboard and then starts the timer; other   *)
(* tools leave it alone.                                                   *)
RunTool(c) ==
    /\ pc[c] = "run"
    /\ \/ board' = TRUE /\ failed' = FALSE /\ Goto(c, "arm")
       \/ Goto(c, "answer") /\ UNCHANGED <<board, failed>>
    /\ UNCHANGED <<open, idle, sockets, slots, abandoned, timers, queue, shutdown,
                   requests>>

(* start_clipboard_auto_clear: a new timer is registered, and the previous *)
(* one of the same handler, if there is one, is cancelled.                 *)
ArmTimer(c) ==
    /\ pc[c] = "arm"
    /\ armed' = armed + 1 \/ (armed > 0 /\ armed' = armed)
    /\ Goto(c, "answer")
    /\ UNCHANGED <<open, idle, sockets, slots, board, failed, abandoned, firing,
                   adrift, taken, queue, shutdown, requests>>

(* The answer is written: the slot is free, nobody asks for the approval   *)
(* request again, and the connection is kept or closed.                    *)
Answer(c) ==
    /\ pc[c] = "answer"
    /\ pc' \in {[pc EXCEPT ![c] = "mark"], [pc EXCEPT ![c] = "close"]}
    /\ slots' = slots \ {c}
    /\ Forget(c)
    /\ UNCHANGED <<open, idle, sockets, shutdown, clipboard, requests>>

(* Mutant: whether the server stops is read before the flag is set. *)
MarkIdleLate(c) ==
    /\ pc[c] = "mark"
    /\ Goto(c, IF Stopping THEN "close" ELSE "check")
    /\ UNCHANGED <<open, idle, sockets, slots, queue, shutdown, clipboard, requests>>

(* wait_for_next_request: the flag is stored before the state is read. *)
MarkIdle(c) ==
    /\ pc[c] = "mark"
    /\ idle' = idle \cup {c}
    /\ Goto(c, "check")
    /\ UNCHANGED <<open, sockets, slots, queue, shutdown, clipboard, requests>>

CheckStopping(c) ==
    /\ pc[c] = "check"
    /\ Goto(c, IF Stopping THEN "close" ELSE "idle")
    /\ UNCHANGED <<open, idle, sockets, slots, queue, shutdown, clipboard, requests>>

(* The worker (or the accept loop, after a 503) drops the guard. *)
Close(c) ==
    /\ pc[c] \in {"close", "busy"}
    /\ Goto(c, "none")
    /\ sockets' = sockets \ {c} /\ open' = open \ {c} /\ idle' = idle \ {c}
    /\ UNCHANGED <<slots, queue, shutdown, clipboard, requests>>

-----------------------------------------------------------------------------
(* The clipboard is cleared, or the attempt fails and nobody is told. *)
Clear ==
    \/ board' = FALSE /\ failed' = FALSE
    \/ board' = board /\ failed' = board

(* A timer thread: at its timeout it claims the clear, unless it has been  *)
(* claimed for it...                                                       *)
TimerFires ==
    /\ Running
    /\ \/ /\ armed > 0
          /\ armed' = armed - 1 /\ firing' = firing + 1
          /\ UNCHANGED <<adrift, taken>>
       \/ \E t \in Takers :
            /\ taken[t] > 0
            /\ taken' = [taken EXCEPT ![t] = @ - 1] /\ adrift' = adrift + 1
            /\ UNCHANGED <<armed, firing>>
    /\ UNCHANGED <<board, failed, abandoned, queue, workers, shutdown, requests>>

(* ...then clears, and its registration ends. *)
TimerClears ==
    /\ Running /\ Clear
    /\ \/ firing > 0 /\ firing' = firing - 1 /\ UNCHANGED adrift
       \/ adrift > 0 /\ adrift' = adrift - 1 /\ UNCHANGED firing
    /\ UNCHANGED <<abandoned, armed, taken, queue, workers, shutdown, requests>>

(* take_armed_process_clipboards empties the registry... *)
TakeArmed(t) ==
    /\ taken' = [taken EXCEPT ![t] = @ + armed] /\ armed' = 0
    /\ adrift' = adrift + firing /\ firing' = 0

(* ...and clear_all, on a thread of its own, claims and clears what no     *)
(* timer has claimed.                                                      *)
ClearTaken(t) ==
    /\ Running /\ Clear
    /\ taken[t] > 0 /\ taken' = [taken EXCEPT ![t] = @ - 1]
    /\ UNCHANGED <<abandoned, armed, firing, adrift, queue, workers, shutdown, requests>>

(* run_bounded: the signal thread goes on when everything it took has been *)
(* cleared, or its time is up.                                             *)
AwaitClear == abandoned' = (abandoned \/ taken["term"] > 0)

(* The process is gone, and with it its threads, timers and queue; what    *)
(* was still to be cleared stays on record.                                *)
ProcessEnds ==
    /\ pc' = [c \in Conns |-> "none"]
    /\ open' = {} /\ idle' = {} /\ sockets' = {} /\ slots' = {}
    /\ listening' = FALSE
    /\ entry' = [c \in Conns |-> "none"] /\ due' = {}
    /\ told' = [c \in Conns |-> "none"]

(* SIGHUP: what is armed is taken and the server goes on; waiting for its  *)
(* clear delays nothing but the next SIGHUP.  With nothing armed the       *)
(* process dies, at once or as if the signal had come later.               *)
Hangup ==
    /\ Running
    /\ \/ /\ armed + firing > 0 /\ TakeArmed("hup")
          /\ UNCHANGED <<queue, workers, listening, signal>>
       \/ /\ armed + firing = 0 /\ signal' = "dead"
          /\ ProcessEnds
          /\ UNCHANGED timers
    /\ UNCHANGED <<board, failed, abandoned, draining, cancelled, drained, race,
                   broken, requests>>

(* The accept loop has failed, its scope has joined the workers, and no    *)
(* signal keeps the main thread from returning the error.                  *)
ServeFails ==
    /\ signal = "none" /\ ~listening /\ sockets = {} /\ signal' = "dead"
    /\ ProcessEnds
    /\ UNCHANGED <<draining, cancelled, drained, race, broken, clipboard,
                   requests>>

(* SIGINT, SIGTERM or SIGQUIT: what is armed is taken to be cleared... *)
Signal ==
    /\ signal = "none" /\ signal' = "begin"
    /\ TakeArmed("term")
    /\ UNCHANGED <<board, failed, abandoned, queue, workers, listening, draining,
                   cancelled, drained, race, broken, requests>>

(* ...the drain begins: no admission any more, idle transports are closed... *)
BeginDrain ==
    /\ signal = "begin" /\ signal' = "wait"
    /\ AwaitClear
    /\ draining' = TRUE
    /\ open' = open \ idle
    /\ race' = {c \in Conns : pc[c] = "got"}
    /\ UNCHANGED <<queue, pc, idle, sockets, slots, listening, cancelled, drained,
                   broken, board, failed, timers, requests>>

(* ...until every transport has gone, or the deadline comes... *)
Drained ==
    /\ signal = "wait" /\ sockets = {}
    /\ signal' = "clear" /\ drained' = TRUE
    /\ UNCHANGED <<queue, workers, listening, draining, cancelled, race,
                   broken, clipboard, requests>>

Deadline ==
    /\ signal = "wait" /\ sockets # {}
    /\ signal' = "clear" /\ cancelled' = TRUE
    /\ open' = {}
    /\ UNCHANGED <<queue, pc, idle, sockets, slots, listening, draining, drained,
                   race, broken, clipboard, requests>>

(* Mutant: the clipboard is cleared at the signal only. *)
TakeAgainNot ==
    /\ signal = "clear" /\ signal' = "leave"
    /\ UNCHANGED <<clipboard, queue, workers, listening, draining, cancelled,
                   drained, race, broken, requests>>

(* ...what was copied meanwhile is taken to be cleared too... *)
TakeAgain ==
    /\ signal = "clear" /\ signal' = "leave"
    /\ TakeArmed("term")
    /\ UNCHANGED <<board, failed, abandoned, queue, workers, listening, draining,
                   cancelled, drained, race, broken, requests>>

(* ...and after that the process exits. *)
Exit ==
    /\ signal = "leave" /\ signal' = "exit"
    /\ AwaitClear
    /\ ProcessEnds
    /\ UNCHANGED <<board, failed, timers, draining, cancelled, drained, race,
                   broken, requests>>

-----------------------------------------------------------------------------
Lapse(c) ==
    /\ LapseEntry(c)
    /\ UNCHANGED <<workers, shutdown, clipboard, requests>>

Work(c) ==
    \/ NoRequest(c) \/ RequestStarted(c) \/ ServeApproval(c)
    \/ AdmitMcp(c) \/ StartCall(c) \/ Dispatch(c) \/ AwaitApproval(c)
    \/ RunTool(c) \/ ArmTimer(c) \/ Answer(c) \/ MarkIdle(c)
    \/ CheckStopping(c) \/ Close(c)

Next ==
    \/ AcceptStops \/ AcceptFails \/ ServeFails \/ Hangup
    \/ Signal \/ BeginDrain \/ Drained \/ Deadline \/ TakeAgain \/ Exit
    \/ TimerFires \/ TimerClears \/ (\E t \in Takers : ClearTaken(t))
    \/ \E c \in Conns : Accept(c) \/ Arrive(c) \/ Work(c) \/ Lapse(c)

Spec == Init /\ [][Next]_vars

(* Every thread that can take a step takes one, read timeouts and the      *)
(* expiry of approval requests come; neither signals nor the deadline of   *)
(* the drain are promised.                                                 *)
FairSpec ==
    /\ Spec
    /\ \A c \in Conns : WF_vars(Work(c)) /\ WF_vars(Lapse(c))

-----------------------------------------------------------------------------
Serving == {"mcp", "decide", "call", "ready", "wait", "run", "arm", "answer"}

(* Type correctness, and the limits on workers and calls. *)
TypeOK ==
    /\ QueueTypeOK
    /\ pc \in [Conns -> Serving \cup {"none", "busy", "first", "got", "mark",
                                      "check", "idle", "close"}]
    /\ open \subseteq sockets /\ idle \subseteq sockets /\ slots \subseteq sockets
    /\ sockets = {c \in Conns : pc[c] # "none"}
    /\ Cardinality(Active) <= MaxConns /\ Cardinality(slots) <= MaxMcp
    /\ listening \in BOOLEAN /\ draining \in BOOLEAN /\ cancelled \in BOOLEAN
    /\ signal \in {"none", "begin", "wait", "clear", "leave", "exit", "dead"}
    /\ drained \in BOOLEAN /\ board \in BOOLEAN
    /\ armed \in Nat /\ firing \in Nat /\ adrift \in Nat /\ taken \in [Takers -> Nat]
    /\ failed \in BOOLEAN /\ abandoned \in BOOLEAN /\ broken \in BOOLEAN
    /\ race \subseteq Conns /\ requests \in Nat

(* While the server drains no connection waits for another request on an   *)
(* open transport: the worker's store of the idle flag and its read of the *)
(* state, and begin_drain's write of the state and its reads of the flags, *)
(* leave no order in which neither side closes it.                         *)
NoIdleSurvivesDrain == draining => \A c \in Conns : pc[c] = "idle" => c \notin open

(* Until the deadline, a drain leaves every request that has started its   *)
(* transport to be answered on, except one it met in the instant between   *)
(* its first byte and request_started.  Only the failure of the listener   *)
(* itself, outside a drain, cuts requests off.                             *)
InFlightKeepTransport ==
    signal \in {"none", "begin", "wait"} /\ ~broken =>
      \A c \in Conns : pc[c] \in Serving => c \in open \/ c \in race

(* No copied secret is forgotten by a process that exits after a complete  *)
(* drain, whatever calls in flight copied after the signal: if one is left *)
(* on the clipboard, then a clear of this very copy was tried and failed,  *)
(* or the signal thread waited for its clear as long as it may, or a timer *)
(* or the thread of an earlier SIGHUP had claimed or taken the clear and   *)
(* the exit overtook it.                                                   *)
NoCopyForgotten ==
    signal = "exit" /\ drained /\ board =>
      failed \/ abandoned \/ adrift > 0 \/ taken["hup"] > 0

(* Every drain completes by itself, without its deadline: no connection,   *)
(* no call and no pending approval keeps it forever.                       *)
DrainsByItself == draining ~> sockets = {}
=============================================================================
