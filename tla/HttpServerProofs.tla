-------------------------- MODULE HttpServerProofs --------------------------
(***************************************************************************)
(* Proofs about HttpServer and its ApprovalQueue, for any finite set of    *)
(* connections and any limits.                                             *)
(***************************************************************************)
EXTENDS HttpServer, FiniteSetTheorems, TLAPS

(* The types, without the limits that need counting. *)
Types ==
    /\ QueueTypeOK
    /\ pc \in [Conns -> Serving \cup {"none", "busy", "first", "got", "mark",
                                      "check", "idle", "close"}]
    /\ open \subseteq sockets /\ idle \subseteq sockets /\ slots \subseteq sockets
    /\ sockets = {c \in Conns : pc[c] # "none"}
    /\ listening \in BOOLEAN /\ draining \in BOOLEAN /\ cancelled \in BOOLEAN
    /\ signal \in {"none", "begin", "wait", "clear", "leave", "exit", "dead"}
    /\ drained \in BOOLEAN /\ board \in BOOLEAN
    /\ armed \in Nat /\ firing \in Nat /\ adrift \in Nat /\ taken \in [Takers -> Nat]
    /\ failed \in BOOLEAN /\ abandoned \in BOOLEAN /\ broken \in BOOLEAN
    /\ race \subseteq Conns /\ requests \in Nat

(* The flag is set where a worker waits for its next request and nowhere   *)
(* else but on the way there, and only calls hold a slot.                  *)
FlagInv ==
    /\ \A c \in Conns : pc[c] \in {"check", "idle"} => c \in idle
    /\ \A c \in idle : pc[c] \in {"check", "idle", "got", "close"}
    /\ \A c \in slots : pc[c] \in {"call", "ready", "wait", "run", "arm", "answer"}

(* What the signal thread has done so far says which transports are open.  *)
DrainInv ==
    /\ signal \in {"none", "begin"} => ~draining /\ race = {}
    /\ signal \in {"none", "begin", "wait"} /\ ~broken => ~cancelled
    /\ signal \in {"wait", "clear", "leave"} => draining
    /\ ~Stopping => open = sockets
    /\ signal = "wait" /\ ~broken =>
         \A c \in Conns : pc[c] \in Serving \cup {"got"} => c \in open \cup race
    /\ NoIdleSurvivesDrain

(* A copy on the clipboard has a timer, taken or not, or a thread that has *)
(* claimed its clear, or a call that is about to start the timer, or a     *)
(* clear of it has failed; and once the drain is complete and the registry *)
(* emptied again, nothing registers a timer any more.                      *)
CopyInv ==
    /\ Running /\ board =>
         \/ failed \/ armed > 0 \/ firing > 0 \/ adrift > 0
         \/ taken["term"] > 0 \/ taken["hup"] > 0
         \/ \E c \in Conns : pc[c] = "arm"
    /\ signal \in {"none", "begin", "wait"} => ~drained
    /\ signal \in {"clear", "leave"} /\ drained => sockets = {}
    /\ signal = "leave" /\ drained => armed = 0 /\ firing = 0
    /\ ~Running => ~listening /\ sockets = {}
    /\ NoCopyForgotten

Limits == Cardinality(Active) <= MaxConns /\ Cardinality(slots) <= MaxMcp

IInv == Types /\ DecisionStands /\ FlagInv /\ DrainInv /\ CopyInv /\ Limits

-----------------------------------------------------------------------------
LEMMA InitEstablishes == Init => IInv
<1> SUFFICES ASSUME Init PROVE IInv
  OBVIOUS
<1> USE HttpAssumption DEF Init, QueueInit, Takers
<1>1. Types
  BY DEF Types, QueueTypeOK, Decisions, Serving
<1>2. DecisionStands
  BY DEF DecisionStands
<1>3. FlagInv /\ DrainInv /\ CopyInv
  BY DEF FlagInv, DrainInv, CopyInv, NoIdleSurvivesDrain, NoCopyForgotten,
         Running, Stopping, Serving
<1>4. Active = {} /\ slots = {}
  BY DEF Active
<1>5. Limits
  BY <1>4, FS_EmptySet DEF Limits
<1> QED BY <1>1, <1>2, <1>3, <1>5 DEF IInv

(* A request to the approval API keeps the queue's types, and the decisions. *)
LEMMA QueueKept ==
    ASSUME QueueTypeOK, DecisionStands,
           List \/ \E q \in Conns, verdict \in Decisions : Decide(q, verdict)
    PROVE  QueueTypeOK' /\ DecisionStands'
<1>1. CASE List
  BY <1>1 DEF List, Expired, QueueTypeOK, DecisionStands, Decisions
<1>2. ASSUME NEW q \in Conns, NEW verdict \in Decisions, Decide(q, verdict)
      PROVE  QueueTypeOK' /\ DecisionStands'
  <2>1. CASE Expired[q] = "pending"
    <3>1. /\ entry' = [Expired EXCEPT ![q] = verdict]
          /\ told' = [told EXCEPT ![q] = verdict] /\ due' = due
      BY <1>2, <2>1 DEF Decide
    <3>2. /\ Expired \in [Conns -> {"none", "pending", "expired"} \cup Decisions]
          /\ \A c \in Conns : told[c] # "none" => Expired[c] = told[c]
      BY DEF Expired, QueueTypeOK, DecisionStands, Decisions
    <3> QED BY <3>1, <3>2 DEF QueueTypeOK, DecisionStands
  <2>2. CASE Expired[q] # "pending"
    BY <1>1, <1>2, <2>2 DEF Decide
  <2> QED BY <2>1, <2>2
<1> QED BY <1>1, <1>2

(* A clear leaves Booleans, cleared or failed. *)
LEMMA ClearTypes ==
    ASSUME board \in BOOLEAN, Clear PROVE board' \in BOOLEAN /\ failed' \in BOOLEAN
BY Zenon DEF Clear

(* Taking the timers empties the registry and loses none. *)
LEMMA TakenKept ==
    ASSUME Types, NEW t \in Takers, TakeArmed(t)
    PROVE  /\ armed' = 0 /\ firing' = 0
           /\ adrift' \in Nat /\ taken' \in [Takers -> Nat]
           /\ adrift > 0 => adrift' > 0
           /\ firing > 0 => adrift' > 0
           /\ armed > 0 => taken'[t] > 0
           /\ \A u \in Takers : taken[u] > 0 => taken'[u] > 0
BY DEF TakeArmed, Types, Takers

LEMMA TypesStep == Types /\ FlagInv /\ DecisionStands /\ [Next]_vars => Types'
<1> SUFFICES ASSUME Types, FlagInv, DecisionStands, [Next]_vars PROVE Types'
  OBVIOUS
<1> USE HttpAssumption DEF Types, QueueTypeOK, Serving, Decisions
<1>1. ASSUME AcceptStops PROVE Types'
  BY <1>1 DEF AcceptStops, CancelOnDrop, queue, workers, shutdown, clipboard, timers
<1>2. ASSUME Hangup PROVE Types'
  <2>1. CASE armed + firing > 0
    BY <1>2, <2>1 DEF Hangup, TakeArmed, Takers, queue, workers
  <2>2. CASE armed + firing = 0
    <3>1. ProcessEnds /\ signal' = "dead" /\ UNCHANGED timers
          /\ UNCHANGED <<board, failed, abandoned, draining, cancelled, drained, race,
                         broken, requests>>
      BY <1>2, <2>2 DEF Hangup
    <3> QED BY <3>1 DEF ProcessEnds, timers
  <2> QED BY <1>2, <2>1, <2>2 DEF Hangup
<1>3. ASSUME Signal PROVE Types'
  BY <1>3, TakenKept DEF Signal, Takers, queue, workers
<1>4. ASSUME BeginDrain PROVE Types'
  BY <1>4 DEF BeginDrain, AwaitClear, queue, workers, shutdown, clipboard, timers
<1>5. ASSUME Drained PROVE Types'
  BY <1>5 DEF Drained, queue, workers, shutdown, clipboard, timers
<1>6. ASSUME Deadline PROVE Types'
  BY <1>6 DEF Deadline, queue, workers, shutdown, clipboard, timers
<1>7. ASSUME Exit PROVE Types'
  BY <1>7 DEF Exit, AwaitClear, ProcessEnds, queue, workers, shutdown, clipboard, timers
<1>8. ASSUME TimerClears PROVE Types'
  <2>1. board' \in BOOLEAN /\ failed' \in BOOLEAN
    BY <1>8, ClearTypes DEF TimerClears
  <2> QED BY <1>8, <2>1 DEF TimerClears, queue, workers, shutdown
<1>9. ASSUME NEW c \in Conns, Accept(c) PROVE Types'
  BY <1>9 DEF Accept, Stopping, Goto, queue, workers, shutdown, clipboard, timers
<1>10. ASSUME NEW c \in Conns, Arrive(c) PROVE Types'
  BY <1>10 DEF Arrive, Goto, queue, workers, shutdown, clipboard, timers
<1>11. ASSUME NEW c \in Conns, NoRequest(c) PROVE Types'
  BY <1>11 DEF NoRequest, Goto, queue, workers, shutdown, clipboard, timers
<1>12. ASSUME NEW c \in Conns, RequestStarted(c) PROVE Types'
  BY <1>12 DEF RequestStarted, Goto, queue, workers, shutdown, clipboard, timers
<1>13. ASSUME NEW c \in Conns, ServeApproval(c) PROVE Types'
  <2>1. QueueTypeOK'
    BY <1>13, QueueKept DEF ServeApproval
  <2> QED BY <1>13, <2>1 DEF ServeApproval, Goto, shutdown, clipboard, timers
<1>14. ASSUME NEW c \in Conns, AdmitMcp(c) PROVE Types'
  BY <1>14 DEF AdmitMcp, Goto, queue, workers, shutdown, clipboard, timers
<1>15. ASSUME NEW c \in Conns, StartCall(c) PROVE Types'
  BY <1>15 DEF StartCall, Goto, queue, workers, shutdown, clipboard, timers
<1>16. ASSUME NEW c \in Conns, AwaitApproval(c) PROVE Types'
  BY <1>16 DEF AwaitApproval, WaitReturns, List, Expired, Decisions, Goto, queue, workers, shutdown, clipboard, timers
<1>17. ASSUME NEW c \in Conns, RunTool(c) PROVE Types'
  <2>1. board' \in BOOLEAN /\ failed' \in BOOLEAN
    BY <1>17, Zenon DEF RunTool
  <2> QED BY <1>17, <2>1 DEF RunTool, Goto, queue, shutdown, timers
<1>18. ASSUME NEW c \in Conns, ArmTimer(c) PROVE Types'
  BY <1>18 DEF ArmTimer, Goto, queue, workers, shutdown, clipboard, timers
<1>19. ASSUME NEW c \in Conns, Answer(c) PROVE Types'
  BY <1>19 DEF Answer, Forget, Goto, queue, workers, shutdown, clipboard, timers
<1>20. ASSUME NEW c \in Conns, MarkIdle(c) PROVE Types'
  BY <1>20 DEF MarkIdle, Goto, queue, workers, shutdown, clipboard, timers
<1>21. ASSUME NEW c \in Conns, CheckStopping(c) PROVE Types'
  BY <1>21 DEF CheckStopping, Stopping, Goto, queue, workers, shutdown, clipboard, timers
<1>22. ASSUME NEW c \in Conns, Close(c) PROVE Types'
  BY <1>22 DEF Close, FlagInv, Goto, queue, workers, shutdown, clipboard, timers
<1>23. ASSUME NEW c \in Conns, Lapse(c) PROVE Types'
  BY <1>23 DEF Lapse, LapseEntry, Goto, queue, workers, shutdown, clipboard, timers
<1>24. ASSUME TimerFires PROVE Types'
  BY <1>24 DEF TimerFires, Takers, queue, workers, shutdown, clipboard, timers
<1>27. ASSUME AcceptFails PROVE Types'
  BY <1>27 DEF AcceptFails, CancelOnDrop, queue, workers, shutdown, clipboard, timers
<1>28. ASSUME ServeFails PROVE Types'
  BY <1>28 DEF ServeFails, ProcessEnds, queue, workers, shutdown, clipboard, timers
<1>29. ASSUME TakeAgain PROVE Types'
  BY <1>29, TakenKept DEF TakeAgain, Takers, queue, workers
<1>30. ASSUME NEW t \in Takers, ClearTaken(t) PROVE Types'
  <2>1. board' \in BOOLEAN /\ failed' \in BOOLEAN
    BY <1>30, ClearTypes DEF ClearTaken
  <2> QED BY <1>30, <2>1 DEF ClearTaken, queue, workers, shutdown
<1>26. ASSUME NEW c \in Conns, Dispatch(c) PROVE Types'
  BY <1>26 DEF Dispatch, Enqueue, Goto, queue, workers, shutdown, clipboard, timers
<1>25. CASE UNCHANGED vars
  BY <1>25 DEF vars, queue, workers, shutdown, clipboard, timers
<1> QED
  BY <1>1, <1>2, <1>3, <1>4, <1>5, <1>6, <1>7, <1>8, <1>9, <1>10, <1>11, <1>12, <1>13, <1>14, <1>15, <1>16, <1>17, <1>18, <1>19, <1>20, <1>21, <1>22, <1>23, <1>24, <1>25, <1>26, <1>27, <1>28, <1>29, <1>30
  DEF Next, Work

LEMMA DecisionStep == Types /\ DecisionStands /\ [Next]_vars => DecisionStands'
<1> SUFFICES ASSUME Types, DecisionStands, [Next]_vars PROVE DecisionStands'
  OBVIOUS
<1> USE DEF Types, QueueTypeOK, DecisionStands, Decisions
<1>1. ASSUME AcceptStops PROVE DecisionStands'
  BY <1>1 DEF AcceptStops, CancelOnDrop, queue
<1>2. ASSUME Hangup PROVE DecisionStands'
  BY <1>2 DEF Hangup, TakeArmed, ProcessEnds, Running, queue
<1>3. ASSUME Signal PROVE DecisionStands'
  BY <1>3 DEF Signal, TakeArmed, queue
<1>4. ASSUME BeginDrain PROVE DecisionStands'
  BY <1>4 DEF BeginDrain, AwaitClear, queue
<1>5. ASSUME Drained PROVE DecisionStands'
  BY <1>5 DEF Drained, queue
<1>6. ASSUME Deadline PROVE DecisionStands'
  BY <1>6 DEF Deadline, queue
<1>7. ASSUME Exit PROVE DecisionStands'
  BY <1>7 DEF Exit, AwaitClear, ProcessEnds, queue
<1>8. ASSUME TimerClears PROVE DecisionStands'
  BY <1>8 DEF TimerClears, Clear, queue
<1>9. ASSUME NEW c \in Conns, Accept(c) PROVE DecisionStands'
  BY <1>9 DEF Accept, Stopping, Goto, queue
<1>10. ASSUME NEW c \in Conns, Arrive(c) PROVE DecisionStands'
  BY <1>10 DEF Arrive, Goto, queue
<1>11. ASSUME NEW c \in Conns, NoRequest(c) PROVE DecisionStands'
  BY <1>11 DEF NoRequest, Goto, queue
<1>12. ASSUME NEW c \in Conns, RequestStarted(c) PROVE DecisionStands'
  BY <1>12 DEF RequestStarted, Goto, queue
<1>13. ASSUME NEW c \in Conns, ServeApproval(c) PROVE DecisionStands'
  BY <1>13, QueueKept DEF ServeApproval
<1>14. ASSUME NEW c \in Conns, AdmitMcp(c) PROVE DecisionStands'
  BY <1>14 DEF AdmitMcp, Goto, queue
<1>15. ASSUME NEW c \in Conns, StartCall(c) PROVE DecisionStands'
  BY <1>15 DEF StartCall, Goto, queue
<1>16. ASSUME NEW c \in Conns, AwaitApproval(c) PROVE DecisionStands'
  BY <1>16 DEF AwaitApproval, WaitReturns, List, Expired, Decisions, Goto, queue
<1>17. ASSUME NEW c \in Conns, RunTool(c) PROVE DecisionStands'
  BY <1>17 DEF RunTool, Goto, queue
<1>18. ASSUME NEW c \in Conns, ArmTimer(c) PROVE DecisionStands'
  BY <1>18 DEF ArmTimer, Goto, queue
<1>19. ASSUME NEW c \in Conns, Answer(c) PROVE DecisionStands'
  BY <1>19 DEF Answer, Forget, Goto, queue
<1>20. ASSUME NEW c \in Conns, MarkIdle(c) PROVE DecisionStands'
  BY <1>20 DEF MarkIdle, Goto, queue
<1>21. ASSUME NEW c \in Conns, CheckStopping(c) PROVE DecisionStands'
  BY <1>21 DEF CheckStopping, Stopping, Goto, queue
<1>22. ASSUME NEW c \in Conns, Close(c) PROVE DecisionStands'
  BY <1>22 DEF Close, Goto, queue
<1>23. ASSUME NEW c \in Conns, Lapse(c) PROVE DecisionStands'
  BY <1>23 DEF Lapse, LapseEntry, Goto, queue
<1>24. ASSUME TimerFires PROVE DecisionStands'
  BY <1>24 DEF TimerFires, Takers, queue
<1>27. ASSUME AcceptFails PROVE DecisionStands'
  BY <1>27 DEF AcceptFails, CancelOnDrop, queue
<1>28. ASSUME ServeFails PROVE DecisionStands'
  BY <1>28 DEF ServeFails, ProcessEnds, queue
<1>29. ASSUME TakeAgain PROVE DecisionStands'
  BY <1>29 DEF TakeAgain, TakeArmed, queue
<1>30. ASSUME NEW t \in Takers, ClearTaken(t) PROVE DecisionStands'
  BY <1>30 DEF ClearTaken, Clear, queue
<1>26. ASSUME NEW c \in Conns, Dispatch(c) PROVE DecisionStands'
  BY <1>26 DEF Dispatch, Enqueue, Goto, queue
<1>25. CASE UNCHANGED vars
  BY <1>25 DEF vars, queue
<1> QED
  BY <1>1, <1>2, <1>3, <1>4, <1>5, <1>6, <1>7, <1>8, <1>9, <1>10, <1>11, <1>12, <1>13, <1>14, <1>15, <1>16, <1>17, <1>18, <1>19, <1>20, <1>21, <1>22, <1>23, <1>24, <1>25, <1>26, <1>27, <1>28, <1>29, <1>30
  DEF Next, Work

LEMMA FlagStep == Types /\ FlagInv /\ [Next]_vars => FlagInv'
<1> SUFFICES ASSUME Types, FlagInv, [Next]_vars PROVE FlagInv'
  OBVIOUS
<1> USE DEF Types, FlagInv, Serving
<1>1. ASSUME AcceptStops PROVE FlagInv'
  BY <1>1 DEF AcceptStops, CancelOnDrop, workers
<1>2. ASSUME Hangup PROVE FlagInv'
  BY <1>2 DEF Hangup, TakeArmed, ProcessEnds, Running, workers
<1>3. ASSUME Signal PROVE FlagInv'
  BY <1>3 DEF Signal, TakeArmed, workers
<1>4. ASSUME BeginDrain PROVE FlagInv'
  BY <1>4 DEF BeginDrain, AwaitClear, workers
<1>5. ASSUME Drained PROVE FlagInv'
  BY <1>5 DEF Drained, workers
<1>6. ASSUME Deadline PROVE FlagInv'
  BY <1>6 DEF Deadline, workers
<1>7. ASSUME Exit PROVE FlagInv'
  BY <1>7 DEF Exit, AwaitClear, ProcessEnds, workers
<1>8. ASSUME TimerClears PROVE FlagInv'
  BY <1>8 DEF TimerClears, Clear, workers
<1>9. ASSUME NEW c \in Conns, Accept(c) PROVE FlagInv'
  BY <1>9 DEF Accept, Stopping, Goto, workers
<1>10. ASSUME NEW c \in Conns, Arrive(c) PROVE FlagInv'
  BY <1>10 DEF Arrive, Goto, workers
<1>11. ASSUME NEW c \in Conns, NoRequest(c) PROVE FlagInv'
  BY <1>11 DEF NoRequest, Goto, workers
<1>12. ASSUME NEW c \in Conns, RequestStarted(c) PROVE FlagInv'
  BY <1>12 DEF RequestStarted, Goto, workers
<1>13. ASSUME NEW c \in Conns, ServeApproval(c) PROVE FlagInv'
  BY <1>13 DEF ServeApproval, Decide, List, Expired, Decisions, Goto, workers
<1>14. ASSUME NEW c \in Conns, AdmitMcp(c) PROVE FlagInv'
  BY <1>14 DEF AdmitMcp, Goto, workers
<1>15. ASSUME NEW c \in Conns, StartCall(c) PROVE FlagInv'
  BY <1>15 DEF StartCall, Goto, workers
<1>16. ASSUME NEW c \in Conns, AwaitApproval(c) PROVE FlagInv'
  BY <1>16 DEF AwaitApproval, WaitReturns, List, Expired, Decisions, Goto, workers
<1>17. ASSUME NEW c \in Conns, RunTool(c) PROVE FlagInv'
  BY <1>17 DEF RunTool, Goto, workers
<1>18. ASSUME NEW c \in Conns, ArmTimer(c) PROVE FlagInv'
  BY <1>18 DEF ArmTimer, Goto, workers
<1>19. ASSUME NEW c \in Conns, Answer(c) PROVE FlagInv'
  BY <1>19 DEF Answer, Forget, Goto, workers
<1>20. ASSUME NEW c \in Conns, MarkIdle(c) PROVE FlagInv'
  BY <1>20 DEF MarkIdle, Goto, workers
<1>21. ASSUME NEW c \in Conns, CheckStopping(c) PROVE FlagInv'
  BY <1>21 DEF CheckStopping, Stopping, Goto, workers
<1>22. ASSUME NEW c \in Conns, Close(c) PROVE FlagInv'
  BY <1>22 DEF Close, Goto, workers
<1>23. ASSUME NEW c \in Conns, Lapse(c) PROVE FlagInv'
  BY <1>23 DEF Lapse, LapseEntry, Goto, workers
<1>24. ASSUME TimerFires PROVE FlagInv'
  BY <1>24 DEF TimerFires, Takers, workers
<1>27. ASSUME AcceptFails PROVE FlagInv'
  BY <1>27 DEF AcceptFails, CancelOnDrop, workers
<1>28. ASSUME ServeFails PROVE FlagInv'
  BY <1>28 DEF ServeFails, ProcessEnds, workers
<1>29. ASSUME TakeAgain PROVE FlagInv'
  BY <1>29 DEF TakeAgain, TakeArmed, workers
<1>30. ASSUME NEW t \in Takers, ClearTaken(t) PROVE FlagInv'
  BY <1>30 DEF ClearTaken, Clear, workers
<1>26. ASSUME NEW c \in Conns, Dispatch(c) PROVE FlagInv'
  BY <1>26 DEF Dispatch, Enqueue, Goto, workers
<1>25. CASE UNCHANGED vars
  BY <1>25 DEF vars, workers
<1> QED
  BY <1>1, <1>2, <1>3, <1>4, <1>5, <1>6, <1>7, <1>8, <1>9, <1>10, <1>11, <1>12, <1>13, <1>14, <1>15, <1>16, <1>17, <1>18, <1>19, <1>20, <1>21, <1>22, <1>23, <1>24, <1>25, <1>26, <1>27, <1>28, <1>29, <1>30
  DEF Next, Work

LEMMA DrainStep == Types /\ FlagInv /\ DrainInv /\ [Next]_vars => DrainInv'
<1> SUFFICES ASSUME Types, FlagInv, DrainInv, [Next]_vars PROVE DrainInv'
  OBVIOUS
<1> USE DEF Types, FlagInv, DrainInv, NoIdleSurvivesDrain, Serving, Stopping
<1>1. ASSUME AcceptStops PROVE DrainInv'
  BY <1>1 DEF AcceptStops, CancelOnDrop, workers, shutdown
<1>2. ASSUME Hangup PROVE DrainInv'
  BY <1>2 DEF Hangup, TakeArmed, ProcessEnds, Running, workers, shutdown
<1>3. ASSUME Signal PROVE DrainInv'
  BY <1>3 DEF Signal, TakeArmed, workers, shutdown
<1>4. ASSUME BeginDrain PROVE DrainInv'
  BY <1>4 DEF BeginDrain, AwaitClear, workers, shutdown
<1>5. ASSUME Drained PROVE DrainInv'
  BY <1>5 DEF Drained, workers, shutdown
<1>6. ASSUME Deadline PROVE DrainInv'
  BY <1>6 DEF Deadline, workers, shutdown
<1>7. ASSUME Exit PROVE DrainInv'
  BY <1>7 DEF Exit, AwaitClear, ProcessEnds, workers, shutdown
<1>8. ASSUME TimerClears PROVE DrainInv'
  BY <1>8 DEF TimerClears, Clear, workers, shutdown
<1>9. ASSUME NEW c \in Conns, Accept(c) PROVE DrainInv'
  BY <1>9 DEF Accept, Stopping, Goto, workers, shutdown
<1>10. ASSUME NEW c \in Conns, Arrive(c) PROVE DrainInv'
  BY <1>10 DEF Arrive, Goto, workers, shutdown
<1>11. ASSUME NEW c \in Conns, NoRequest(c) PROVE DrainInv'
  BY <1>11 DEF NoRequest, Goto, workers, shutdown
<1>12. ASSUME NEW c \in Conns, RequestStarted(c) PROVE DrainInv'
  BY <1>12 DEF RequestStarted, Goto, workers, shutdown
<1>13. ASSUME NEW c \in Conns, ServeApproval(c) PROVE DrainInv'
  BY <1>13 DEF ServeApproval, Decide, List, Expired, Decisions, Goto, workers, shutdown
<1>14. ASSUME NEW c \in Conns, AdmitMcp(c) PROVE DrainInv'
  BY <1>14 DEF AdmitMcp, Goto, workers, shutdown
<1>15. ASSUME NEW c \in Conns, StartCall(c) PROVE DrainInv'
  BY <1>15 DEF StartCall, Goto, workers, shutdown
<1>16. ASSUME NEW c \in Conns, AwaitApproval(c) PROVE DrainInv'
  BY <1>16 DEF AwaitApproval, WaitReturns, List, Expired, Decisions, Goto, workers, shutdown
<1>17. ASSUME NEW c \in Conns, RunTool(c) PROVE DrainInv'
  BY <1>17 DEF RunTool, Goto, workers, shutdown
<1>18. ASSUME NEW c \in Conns, ArmTimer(c) PROVE DrainInv'
  BY <1>18 DEF ArmTimer, Goto, workers, shutdown
<1>19. ASSUME NEW c \in Conns, Answer(c) PROVE DrainInv'
  BY <1>19 DEF Answer, Forget, Goto, workers, shutdown
<1>20. ASSUME NEW c \in Conns, MarkIdle(c) PROVE DrainInv'
  BY <1>20 DEF MarkIdle, Goto, workers, shutdown
<1>21. ASSUME NEW c \in Conns, CheckStopping(c) PROVE DrainInv'
  BY <1>21 DEF CheckStopping, Stopping, Goto, workers, shutdown
<1>22. ASSUME NEW c \in Conns, Close(c) PROVE DrainInv'
  BY <1>22 DEF Close, Goto, workers, shutdown
<1>23. ASSUME NEW c \in Conns, Lapse(c) PROVE DrainInv'
  BY <1>23 DEF Lapse, LapseEntry, Goto, workers, shutdown
<1>24. ASSUME TimerFires PROVE DrainInv'
  BY <1>24 DEF TimerFires, Takers, workers, shutdown
<1>27. ASSUME AcceptFails PROVE DrainInv'
  BY <1>27 DEF AcceptFails, CancelOnDrop, workers, shutdown
<1>28. ASSUME ServeFails PROVE DrainInv'
  BY <1>28 DEF ServeFails, ProcessEnds, workers, shutdown
<1>29. ASSUME TakeAgain PROVE DrainInv'
  BY <1>29 DEF TakeAgain, TakeArmed, workers, shutdown
<1>30. ASSUME NEW t \in Takers, ClearTaken(t) PROVE DrainInv'
  BY <1>30 DEF ClearTaken, Clear, workers, shutdown
<1>26. ASSUME NEW c \in Conns, Dispatch(c) PROVE DrainInv'
  BY <1>26 DEF Dispatch, Enqueue, Goto, workers, shutdown
<1>25. CASE UNCHANGED vars
  BY <1>25 DEF vars, workers, shutdown
<1> QED
  BY <1>1, <1>2, <1>3, <1>4, <1>5, <1>6, <1>7, <1>8, <1>9, <1>10, <1>11, <1>12, <1>13, <1>14, <1>15, <1>16, <1>17, <1>18, <1>19, <1>20, <1>21, <1>22, <1>23, <1>24, <1>25, <1>26, <1>27, <1>28, <1>29, <1>30
  DEF Next, Work

LEMMA CopyStep ==
    Types /\ FlagInv /\ DrainInv /\ CopyInv /\ [Next]_vars => CopyInv'
<1> SUFFICES ASSUME Types, FlagInv, DrainInv, CopyInv, [Next]_vars PROVE CopyInv'
  OBVIOUS
<1> USE DEF Types, DrainInv, CopyInv, NoCopyForgotten, Running
<1>1. ASSUME AcceptStops PROVE CopyInv'
  BY <1>1 DEF AcceptStops, CancelOnDrop, workers, shutdown, clipboard, timers
<1>2. ASSUME Hangup PROVE CopyInv'
  <2>1. CASE armed + firing > 0
    <3>1. /\ TakeArmed("hup")
          /\ UNCHANGED <<pc, sockets, listening, signal, drained, board, failed, abandoned>>
      BY <1>2, <2>1 DEF Hangup, workers
    <3> QED BY <3>1, TakenKept DEF Takers
  <2>2. CASE armed + firing = 0
    <3>1. ProcessEnds /\ signal' = "dead" /\ UNCHANGED drained
      BY <1>2, <2>2 DEF Hangup
    <3> QED BY <3>1 DEF ProcessEnds
  <2> QED BY <2>1, <2>2
<1>3. ASSUME Signal PROVE CopyInv'
  BY <1>3, TakenKept DEF Signal, Takers, workers
<1>4. ASSUME BeginDrain PROVE CopyInv'
  BY <1>4 DEF BeginDrain, AwaitClear, workers, shutdown, clipboard, timers
<1>5. ASSUME Drained PROVE CopyInv'
  BY <1>5 DEF Drained, workers, shutdown, clipboard, timers
<1>6. ASSUME Deadline PROVE CopyInv'
  BY <1>6 DEF Deadline, workers, shutdown, clipboard, timers
<1>7. ASSUME Exit PROVE CopyInv'
  BY <1>7 DEF Exit, AwaitClear, ProcessEnds, workers, shutdown, clipboard, timers
<1>8. ASSUME TimerClears PROVE CopyInv'
  BY <1>8 DEF TimerClears, Clear, workers, shutdown, clipboard, timers
<1>9. ASSUME NEW c \in Conns, Accept(c) PROVE CopyInv'
  BY <1>9 DEF Accept, Stopping, Goto, workers, shutdown, clipboard, timers
<1>10. ASSUME NEW c \in Conns, Arrive(c) PROVE CopyInv'
  BY <1>10 DEF Arrive, Goto, workers, shutdown, clipboard, timers
<1>11. ASSUME NEW c \in Conns, NoRequest(c) PROVE CopyInv'
  BY <1>11 DEF NoRequest, Goto, workers, shutdown, clipboard, timers
<1>12. ASSUME NEW c \in Conns, RequestStarted(c) PROVE CopyInv'
  BY <1>12 DEF RequestStarted, Goto, workers, shutdown, clipboard, timers
<1>13. ASSUME NEW c \in Conns, ServeApproval(c) PROVE CopyInv'
  BY <1>13 DEF ServeApproval, Decide, List, Expired, Decisions, Goto, workers, shutdown, clipboard, timers
<1>14. ASSUME NEW c \in Conns, AdmitMcp(c) PROVE CopyInv'
  BY <1>14 DEF AdmitMcp, Goto, workers, shutdown, clipboard, timers
<1>15. ASSUME NEW c \in Conns, StartCall(c) PROVE CopyInv'
  BY <1>15 DEF StartCall, Goto, workers, shutdown, clipboard, timers
<1>16. ASSUME NEW c \in Conns, AwaitApproval(c) PROVE CopyInv'
  BY <1>16 DEF AwaitApproval, WaitReturns, List, Expired, Decisions, Goto, workers, shutdown, clipboard, timers
<1>17. ASSUME NEW c \in Conns, RunTool(c) PROVE CopyInv'
  <2>1. CASE board' = TRUE /\ failed' = FALSE /\ Goto(c, "arm")
    <3>1. pc'[c] = "arm"
      BY <2>1 DEF Goto
    <3> QED BY <1>17, <3>1 DEF RunTool, shutdown, timers
  <2>2. CASE Goto(c, "answer") /\ UNCHANGED <<board, failed>>
    <3>1. \A b \in Conns : pc[b] = "arm" => pc'[b] = "arm"
      BY <1>17, <2>2 DEF RunTool, Goto
    <3> QED BY <1>17, <2>2, <3>1 DEF RunTool, shutdown, timers
  <2> QED BY <1>17, <2>1, <2>2 DEF RunTool
<1>18. ASSUME NEW c \in Conns, ArmTimer(c) PROVE CopyInv'
  BY <1>18 DEF ArmTimer, Goto, workers, shutdown, clipboard, timers
<1>19. ASSUME NEW c \in Conns, Answer(c) PROVE CopyInv'
  BY <1>19 DEF Answer, Forget, Goto, workers, shutdown, clipboard, timers
<1>20. ASSUME NEW c \in Conns, MarkIdle(c) PROVE CopyInv'
  BY <1>20 DEF MarkIdle, Goto, workers, shutdown, clipboard, timers
<1>21. ASSUME NEW c \in Conns, CheckStopping(c) PROVE CopyInv'
  BY <1>21 DEF CheckStopping, Stopping, Goto, workers, shutdown, clipboard, timers
<1>22. ASSUME NEW c \in Conns, Close(c) PROVE CopyInv'
  BY <1>22 DEF Close, Goto, workers, shutdown, clipboard, timers
<1>23. ASSUME NEW c \in Conns, Lapse(c) PROVE CopyInv'
  BY <1>23 DEF Lapse, LapseEntry, Goto, workers, shutdown, clipboard, timers
<1>24. ASSUME TimerFires PROVE CopyInv'
  BY <1>24 DEF TimerFires, Takers, workers, shutdown, clipboard, timers
<1>27. ASSUME AcceptFails PROVE CopyInv'
  BY <1>27 DEF AcceptFails, CancelOnDrop, workers, shutdown, clipboard, timers
<1>28. ASSUME ServeFails PROVE CopyInv'
  BY <1>28 DEF ServeFails, ProcessEnds, workers, shutdown, clipboard, timers
<1>29. ASSUME TakeAgain PROVE CopyInv'
  BY <1>29, TakenKept DEF TakeAgain, Takers, workers
<1>30. ASSUME NEW t \in Takers, ClearTaken(t) PROVE CopyInv'
  BY <1>30 DEF ClearTaken, Clear, workers, shutdown, clipboard, timers
<1>26. ASSUME NEW c \in Conns, Dispatch(c) PROVE CopyInv'
  BY <1>26 DEF Dispatch, Enqueue, Goto, workers, shutdown, clipboard, timers
<1>25. CASE UNCHANGED vars
  BY <1>25 DEF vars, workers, shutdown, clipboard, timers
<1> QED
  BY <1>1, <1>2, <1>3, <1>4, <1>5, <1>6, <1>7, <1>8, <1>9, <1>10, <1>11, <1>12, <1>13, <1>14, <1>15, <1>16, <1>17, <1>18, <1>19, <1>20, <1>21, <1>22, <1>23, <1>24, <1>25, <1>26, <1>27, <1>28, <1>29, <1>30
  DEF Next, Work

LEMMA LimitsStep == Types /\ FlagInv /\ Limits /\ [Next]_vars => Limits'
<1> SUFFICES ASSUME Types, FlagInv, Limits, [Next]_vars PROVE Limits'
  OBVIOUS
<1>a. IsFiniteSet(Active) /\ IsFiniteSet(slots)
  BY HttpAssumption, FS_Subset DEF Active, Types
<1>b. ASSUME Active' \subseteq Active, slots' \subseteq slots PROVE Limits'
  <2>1. /\ Cardinality(Active') <= Cardinality(Active)
        /\ Cardinality(slots') <= Cardinality(slots)
    BY <1>a, <1>b, FS_Subset
  <2>2. /\ Cardinality(Active) \in Nat /\ Cardinality(Active') \in Nat
        /\ Cardinality(slots) \in Nat /\ Cardinality(slots') \in Nat
    BY <1>a, <1>b, FS_Subset, FS_CardinalityType
  <2> QED BY <2>1, <2>2, HttpAssumption DEF Limits
<1> USE DEF Types, Serving
<1>1. ASSUME AcceptStops PROVE Limits'
  BY <1>1, <1>b DEF AcceptStops, CancelOnDrop, workers, Active
<1>2. ASSUME Hangup PROVE Limits'
  BY <1>2, <1>b DEF Hangup, TakeArmed, ProcessEnds, Running, workers, Active
<1>3. ASSUME Signal PROVE Limits'
  BY <1>3, <1>b DEF Signal, TakeArmed, workers, Active
<1>4. ASSUME BeginDrain PROVE Limits'
  BY <1>4, <1>b DEF BeginDrain, AwaitClear, workers, Active
<1>5. ASSUME Drained PROVE Limits'
  BY <1>5, <1>b DEF Drained, workers, Active
<1>6. ASSUME Deadline PROVE Limits'
  BY <1>6, <1>b DEF Deadline, workers, Active
<1>7. ASSUME Exit PROVE Limits'
  BY <1>7, <1>b DEF Exit, AwaitClear, ProcessEnds, workers, Active
<1>8. ASSUME TimerClears PROVE Limits'
  BY <1>8, <1>b DEF TimerClears, Clear, workers, Active
<1>9. ASSUME NEW c \in Conns, Accept(c) PROVE Limits'
  <2>1. slots' = slots
    BY <1>9 DEF Accept
  <2>2. CASE Cardinality(Active) < MaxConns
    <3>1. Active' \subseteq Active \cup {c}
      BY <1>9 DEF Accept, Goto, Active
    <3>0. /\ Cardinality(Active) \in Nat
          /\ Cardinality(Active \cup {c}) =
               IF c \in Active THEN Cardinality(Active) ELSE Cardinality(Active) + 1
      BY ONLY <1>a, FS_AddElement, FS_CardinalityType
    <3>2. Cardinality(Active \cup {c}) <= Cardinality(Active) + 1
      BY ONLY <3>0
    <3>3. Cardinality(Active') <= Cardinality(Active \cup {c}) /\ IsFiniteSet(Active')
      BY <3>1, <1>a, FS_AddElement, FS_Subset
    <3>4. /\ Cardinality(Active) \in Nat /\ Cardinality(Active') \in Nat
          /\ Cardinality(Active \cup {c}) \in Nat
      BY <1>a, <3>3, FS_AddElement, FS_CardinalityType
    <3> QED BY <2>1, <2>2, <3>2, <3>3, <3>4, HttpAssumption DEF Limits
  <2>3. CASE ~(Cardinality(Active) < MaxConns)
    BY <1>9, <2>1, <2>3, <1>b DEF Accept, Goto, Active
  <2> QED BY <2>2, <2>3
<1>10. ASSUME NEW c \in Conns, Arrive(c) PROVE Limits'
  BY <1>10, <1>b DEF Arrive, Goto, workers, Active
<1>11. ASSUME NEW c \in Conns, NoRequest(c) PROVE Limits'
  BY <1>11, <1>b DEF NoRequest, Goto, workers, Active
<1>12. ASSUME NEW c \in Conns, RequestStarted(c) PROVE Limits'
  BY <1>12, <1>b DEF RequestStarted, Goto, workers, Active
<1>13. ASSUME NEW c \in Conns, ServeApproval(c) PROVE Limits'
  BY <1>13, <1>b DEF ServeApproval, Decide, List, Expired, Decisions, Goto, workers, Active
<1>14. ASSUME NEW c \in Conns, AdmitMcp(c) PROVE Limits'
  <2>1. Active' \subseteq Active
    BY <1>14 DEF AdmitMcp, Goto, Active
  <2>2. CASE Cardinality(slots) < MaxMcp
    <3>1. slots' = slots \cup {c}
      BY <1>14, <2>2 DEF AdmitMcp
    <3>0. /\ Cardinality(slots) \in Nat
          /\ Cardinality(slots') =
               IF c \in slots THEN Cardinality(slots) ELSE Cardinality(slots) + 1
      BY ONLY <3>1, <1>a, FS_AddElement, FS_CardinalityType
    <3>2. Cardinality(slots') <= Cardinality(slots) + 1 /\ Cardinality(slots') \in Nat
      BY ONLY <3>0
    <3>3. Cardinality(Active') <= Cardinality(Active)
      BY <2>1, <1>a, FS_Subset
    <3>4. /\ Cardinality(Active) \in Nat /\ Cardinality(Active') \in Nat
          /\ Cardinality(slots) \in Nat
      BY <2>1, <1>a, FS_Subset, FS_CardinalityType
    <3> QED BY <2>2, <3>2, <3>3, <3>4, HttpAssumption DEF Limits
  <2>3. CASE ~(Cardinality(slots) < MaxMcp)
    BY <1>14, <2>1, <2>3, <1>b DEF AdmitMcp
  <2> QED BY <2>2, <2>3
<1>15. ASSUME NEW c \in Conns, StartCall(c) PROVE Limits'
  BY <1>15, <1>b DEF StartCall, Goto, workers, Active
<1>16. ASSUME NEW c \in Conns, AwaitApproval(c) PROVE Limits'
  BY <1>16, <1>b DEF AwaitApproval, WaitReturns, List, Expired, Decisions, Goto, workers, Active
<1>17. ASSUME NEW c \in Conns, RunTool(c) PROVE Limits'
  BY <1>17, <1>b DEF RunTool, Goto, workers, Active
<1>18. ASSUME NEW c \in Conns, ArmTimer(c) PROVE Limits'
  BY <1>18, <1>b DEF ArmTimer, Goto, workers, Active
<1>19. ASSUME NEW c \in Conns, Answer(c) PROVE Limits'
  BY <1>19, <1>b DEF Answer, Forget, Goto, workers, Active
<1>20. ASSUME NEW c \in Conns, MarkIdle(c) PROVE Limits'
  BY <1>20, <1>b DEF MarkIdle, Goto, workers, Active
<1>21. ASSUME NEW c \in Conns, CheckStopping(c) PROVE Limits'
  BY <1>21, <1>b DEF CheckStopping, Stopping, Goto, workers, Active
<1>22. ASSUME NEW c \in Conns, Close(c) PROVE Limits'
  BY <1>22, <1>b DEF Close, Goto, workers, Active
<1>23. ASSUME NEW c \in Conns, Lapse(c) PROVE Limits'
  BY <1>23, <1>b DEF Lapse, LapseEntry, Goto, workers, Active
<1>24. ASSUME TimerFires PROVE Limits'
  BY <1>24, <1>b DEF TimerFires, Takers, workers, Active
<1>27. ASSUME AcceptFails PROVE Limits'
  BY <1>27, <1>b DEF AcceptFails, CancelOnDrop, workers, Active
<1>28. ASSUME ServeFails PROVE Limits'
  BY <1>28, <1>b DEF ServeFails, ProcessEnds, workers, Active
<1>29. ASSUME TakeAgain PROVE Limits'
  BY <1>29, <1>b DEF TakeAgain, TakeArmed, workers, Active
<1>30. ASSUME NEW t \in Takers, ClearTaken(t) PROVE Limits'
  BY <1>30, <1>b DEF ClearTaken, Clear, workers, Active
<1>26. ASSUME NEW c \in Conns, Dispatch(c) PROVE Limits'
  BY <1>26, <1>b DEF Dispatch, Enqueue, Goto, workers, Active
<1>25. CASE UNCHANGED vars
  BY <1>25, <1>b DEF vars, workers, Active
<1> QED
  BY <1>1, <1>2, <1>3, <1>4, <1>5, <1>6, <1>7, <1>8, <1>9, <1>10, <1>11, <1>12, <1>13, <1>14, <1>15, <1>16, <1>17, <1>18, <1>19, <1>20, <1>21, <1>22, <1>23, <1>24, <1>25, <1>26, <1>27, <1>28, <1>29, <1>30
  DEF Next, Work

-----------------------------------------------------------------------------
(* The inductive invariant holds in every reachable state. *)
THEOREM Invariance == Spec => []IInv
<1>1. IInv /\ [Next]_vars => IInv'
  BY TypesStep, DecisionStep, FlagStep, DrainStep, CopyStep, LimitsStep DEF IInv
<1> QED BY <1>1, InitEstablishes, PTL DEF Spec

(* Type correctness, and the limits on workers and MCP calls. *)
THEOREM TypeCorrect == Spec => []TypeOK
<1>1. IInv => TypeOK
  BY DEF IInv, Types, Limits, TypeOK
<1> QED BY <1>1, Invariance, PTL

(* A human's decision is the one the waiting call gets. *)
THEOREM DecisionsStand == Spec => []DecisionStands
<1>1. IInv => DecisionStands
  BY DEF IInv, DecisionStands
<1> QED BY <1>1, Invariance, PTL

(* No connection waits for a request on an open transport in a drain. *)
THEOREM IdleClosed == Spec => []NoIdleSurvivesDrain
<1>1. IInv => NoIdleSurvivesDrain
  BY DEF IInv, DrainInv
<1> QED BY <1>1, Invariance, PTL

(* A drain closes no transport of a request that has started. *)
THEOREM InFlightKept == Spec => []InFlightKeepTransport
<1>1. IInv => InFlightKeepTransport
  BY DEF IInv, Types, DrainInv, InFlightKeepTransport, Stopping, Serving
<1> QED BY <1>1, Invariance, PTL

(* No copied secret is forgotten by a process that exits after a complete  *)
(* drain: one that is left had its clear fail, given up or still under way *)
(* on another thread.                                                      *)
THEOREM NoCopyIsForgotten == Spec => []NoCopyForgotten
<1>1. IInv => NoCopyForgotten
  BY DEF IInv, CopyInv
<1> QED BY <1>1, Invariance, PTL
=============================================================================
