------------------------------- MODULE Client -------------------------------
(***************************************************************************)
(* The Python side of one arm: NativeArmBackend behind the locks of the    *)
(* public arm handle, with its reader and heartbeat threads, supervising   *)
(* one pi_control_node process over lossy PUB/SUB topics.  Client threads  *)
(* call connect(), close(), the mode changes of the arm's role, hold(),    *)
(* move_to_ready(), and what a pair calls without the handle's locks:      *)
(* pause_live_input() and _hold_for_cleanup().  The node is what           *)
(* Device.tla promises to a client: one action per control step.           *)
(* An action of a client thread is what it does under the condition.       *)
(* Streams that are only repeated have no queue: the handshake and the     *)
(* state can be read at any time, and heartbeats (which no answer follows) *)
(* are part of Device.tla.                                                 *)
(***************************************************************************)
EXTENDS Naturals, Sequences, FiniteSets

CONSTANTS
    Callers,        \* threads that use the public arm handle
    Engagers,       \* threads in TeleopPair's engage() and _rollback()
    MaxRequests,    \* bound on the requests made, close() apart
    MaxConnects,    \* bound on the node processes that are started
    Capacity,       \* messages a topic holds (SNDHWM and RCVHWM)
    AnnounceLoops   \* control steps READY_NOW is repeated for

Users == Callers \cup Engagers

NoOne == "no one"

ASSUME UsersAssumption ==
    IsFiniteSet(Users) /\ Callers # {} /\ Callers \cap Engagers = {} /\ NoOne \notin Users
ASSUME BoundsAssumption ==
    /\ MaxRequests \in Nat \ {0} /\ MaxConnects \in Nat \ {0}
    /\ Capacity \in Nat \ {0} /\ AnnounceLoops \in Nat \ {0}

Modes == {"hold", "float", "bilateral"}
Ids == Nat    \* 0 is None

\* CLEANUP is the HOLD of _hold_for_cleanup().  The client replaces its cached
\* mode after FLOAT and BILATERAL only; a HOLD and a move to ready change the
\* node's mode, too.
ModeCommands == {"FLOAT", "BILATERAL"}
LockFree == {"PAUSE", "CLEANUP"}
Closes == {"SHUTDOWN", "MOVE_AND_STOP"}
Commands == ModeCommands \cup {"HOLD", "MOVE"} \cup LockFree \cup Closes
Disturbing == Commands \ {"PAUSE", "SHUTDOWN"}
ModeOf(command) ==
    CASE command = "FLOAT" -> "float" [] command = "BILATERAL" -> "bilateral" [] OTHER -> "hold"

\* The node as its messages show it; done is the request id of READY_NOW.
NodeStates ==
    [ready: BOOLEAN, req: Ids, done: Ids, stop: BOOLEAN, run: BOOLEAN,
     mode: Modes, left: 0 .. AnnounceLoops]
FreshNode ==
    [ready |-> FALSE, req |-> 0, done |-> 0, stop |-> FALSE, run |-> TRUE,
     mode |-> "hold", left |-> 0]

VARIABLES
    role,       \* the arm's role
    process,    \* the node process: "none", "up", "exited" or "killed"
    node,       \* the node's own state
    lifecycle,  \* lifecycle topic, client to node
    status,     \* status topic, node to client
    running,    \* _running
    sockets,    \* the sockets: "none", "open" or "closed"
    retired,    \* _resources_closed
    reader,     \* phase of the reader thread
    caps,       \* _capabilities is set
    ready,      \* _ready
    mode,       \* mode of the cached state ("none": no state yet)
    nextId,     \* _request_id
    pendingAck, \* _pending_ack_request_id
    acks,       \* the positive answers in _acks: <<request id, command>>
    pendingReady, \* _pending_ready_request_id
    readySeen,  \* _pending_ready_state_generation is set
    armLock,    \* holder of the arm handle's locks
    lifeLock,   \* holder of _lifecycle_lock
    pc,         \* per thread: where the call is
    op,         \* per thread: the command it sends
    uid,        \* per thread: its request id (0: none yet)
    next,       \* per thread: what follows a close: "idle" or "spawn"
    connects,   \* node processes started (bounded by MaxConnects)
    requests,   \* requests made (bounded by MaxRequests)
    arrived,    \* history: the request whose ready move was completed last
    agreed,     \* history: how the last command that changes the node's mode ended
    straddled   \* history: a command of an earlier connection was waiting
                \* for its acknowledgement when this one was made

nodeVars == <<process, node, lifecycle, status>>
backendVars == <<running, sockets, retired, reader, caps, ready, mode>>
requestVars == <<nextId, pendingAck, acks, pendingReady, readySeen>>
userVars == <<armLock, lifeLock, pc, op, uid, next>>
historyVars == <<connects, requests, arrived, agreed, straddled>>
vars == <<role, nodeVars, backendVars, requestVars, userVars, historyVars>>

PCs == {"idle", "lock", "send", "readyWait", "spawn", "connecting",
        "waitExit", "join"}

\* Types of all variables.
TypeOK ==
    /\ role \in {"leader", "follower"}
    /\ process \in {"none", "up", "exited", "killed"}
    /\ node \in NodeStates
    /\ lifecycle \in Seq(Ids \X Commands)
    /\ status \in Seq({"READY"} \X Ids \X {"none"} \cup {"ACK"} \X Ids \X Commands)
    /\ Len(lifecycle) <= Capacity /\ Len(status) <= Capacity
    /\ {running, retired, caps, ready, readySeen} \subseteq BOOLEAN
    /\ sockets \in {"none", "open", "closed"}
    /\ reader \in {"none", "alive", "gone"}
    /\ mode \in Modes \cup {"none"}
    /\ nextId \in Ids /\ pendingAck \in Ids /\ pendingReady \in Ids
    /\ acks \subseteq Ids \X Commands
    /\ armLock \in Users \cup {NoOne} /\ lifeLock \in Users \cup {NoOne}
    /\ pc \in [Users -> PCs]
    /\ op \in [Users -> Commands]
    /\ uid \in [Users -> Ids]
    /\ next \in [Users -> {"idle", "spawn"}]
    /\ connects \in 0 .. MaxConnects /\ requests \in 0 .. MaxRequests
    /\ arrived \in Ids
    /\ agreed \in {"yes", "pending", "no"}
    /\ straddled \in BOOLEAN

Init ==
    /\ role \in {"leader", "follower"}
    /\ process = "none" /\ node = FreshNode /\ lifecycle = <<>> /\ status = <<>>
    /\ running = FALSE /\ sockets = "none" /\ retired = FALSE /\ reader = "none"
    /\ caps = FALSE /\ ready = FALSE /\ mode = "none"
    /\ nextId = 0 /\ pendingAck = 0 /\ acks = {} /\ pendingReady = 0
    /\ readySeen = FALSE
    /\ armLock = NoOne /\ lifeLock = NoOne
    /\ pc = [u \in Users |-> "idle"]
    /\ op = [u \in Users |-> "PAUSE"]
    /\ uid = [u \in Users |-> 0]
    /\ next = [u \in Users |-> "idle"]
    /\ connects = 0 /\ requests = 0 /\ arrived = 0 /\ agreed = "yes"
    /\ straddled = FALSE

-----------------------------------------------------------------------------
(***************************************************************************)
(* Topics.  A message published while the subscriber has not joined, or    *)
(* while the queue is at its high-water mark, is dropped.                  *)
(***************************************************************************)
Published(queue, m) ==
    {queue} \cup (IF Len(queue) < Capacity THEN {Append(queue, m)} ELSE {})

(***************************************************************************)
(* One control step of the node: the ready move makes progress, the state  *)
(* is published, at most one lifecycle command is dispatched and           *)
(* acknowledged, and the main loop announces the handshake and readiness.  *)
(***************************************************************************)
Arrives(n) ==
    [n EXCEPT !.ready = TRUE, !.done = n.req, !.req = 0, !.left = AnnounceLoops]

\* The step after the arrival ends a move-to-ready-and-stop.
Progress(n) ==
    IF n.ready THEN {[n EXCEPT !.run = ~(n.stop /\ n.done > 0)]}
    ELSE {n, Arrives(n)}

\* A move ends a float where it changes the control mode (a CAN arm floats on).
MovesToReady(n, id, stop) ==
    {[n EXCEPT !.ready = FALSE, !.req = id, !.done = 0, !.stop = @ \/ stop, !.left = 0,
               !.mode = m] : m \in {"hold", n.mode}}

\* Topic::process_leader_msg(), as far as a client can tell.
Dispatch(n, id, command) ==
    CASE command = "MOVE"          -> MovesToReady(n, id, FALSE)
      [] command = "MOVE_AND_STOP" -> MovesToReady(n, id, TRUE)
      [] command = "SHUTDOWN"      -> {[n EXCEPT !.run = FALSE]}
      [] command = "PAUSE"         -> {n}
      [] OTHER                     -> {[n EXCEPT !.mode = ModeOf(command)]}

\* During emergency recovery everything but the two stop commands is BUSY.
\* A negative answer ends the call like a missing one (SendFails).
MayRefuse(command) == command \notin Closes

\* READY_NOW at the end of an iteration of main(), for a while.
Announce(n) == [n EXCEPT !.left = IF @ > 0 THEN @ - 1 ELSE 0]
Announced(n, queue) ==
    IF n.left > 0 THEN Published(queue, <<"READY", n.done, "none">>) ELSE {queue}

NodeStep ==
    /\ process = "up" /\ node.run
    /\ \E n \in Progress(node) :
        /\ arrived' = IF n.ready /\ ~node.ready THEN n.done ELSE arrived
        /\ \/ /\ lifecycle = <<>>
              /\ node' = Announce(n)
              /\ status' \in Announced(n, status)
              /\ UNCHANGED lifecycle
           \/ /\ lifecycle # <<>>
              /\ lifecycle' = Tail(lifecycle)
              /\ LET id == Head(lifecycle)[1]
                     command == Head(lifecycle)[2]
                 IN  \/ \E d \in Dispatch(n, id, command) :
                        /\ node' = Announce(d)
                        /\ \E q \in Published(status, <<"ACK", id, command>>) :
                             status' \in Announced(d, q)
                     \/ /\ MayRefuse(command)
                        /\ node' = Announce(n)
                        /\ status' \in Announced(n, status)
    /\ UNCHANGED <<process, backendVars, requestVars, userVars, connects, requests, agreed,
                   straddled>>

\* check_client_heartbeat_watchdog(), or the runaway abort of a follower's
\* gravity float: by itself the node re-engages position hold or, a leader,
\* ends the force feedback.
SafeIdle == IF role = "leader" THEN "float" ELSE "hold"
NodeTrips ==
    /\ process = "up" /\ node.run /\ node.ready
    /\ node.mode = IF role = "leader" THEN "bilateral" ELSE "float"
    /\ node' = [node EXCEPT !.mode = SafeIdle]
    /\ agreed' = "no"
    /\ UNCHANGED <<process, lifecycle, status, backendVars, requestVars,
                   userVars, connects, requests, arrived, straddled>>

\* The process ends: after its loop, by a signal, or by a crash.
NodeExits ==
    /\ process = "up"
    /\ process' = "exited" /\ node' = FreshNode /\ lifecycle' = <<>>
    /\ UNCHANGED <<status, backendVars,
                   requestVars, userVars, historyVars>>

-----------------------------------------------------------------------------
(***************************************************************************)
(* The reader thread: status messages in order, the newest state sample,   *)
(* the process.  The three sockets are independent.                        *)
(***************************************************************************)
ReaderLives == reader = "alive"

ConsumeAck(id, command) ==
    /\ acks' = IF id = pendingAck THEN acks \cup {<<id, command>>} ELSE acks
    /\ UNCHANGED <<caps, ready, readySeen>>

\* Mutant: any READY answers the pending move.
TakeAnyReady(id) ==
    /\ ready' = (ready \/ pendingReady = 0)
    /\ readySeen' = (readySeen \/ pendingReady # 0)
    /\ UNCHANGED <<caps, acks>>

\* READY without a move of our own is the node's first; otherwise only the
\* answer to our request counts, and a state sample has to follow it.
ConsumeReady(id) ==
    /\ ready' = (ready \/ pendingReady = 0)
    /\ readySeen' = (readySeen \/ (pendingReady # 0 /\ id = pendingReady))
    /\ UNCHANGED <<caps, acks>>

ReadHandshake ==
    /\ ReaderLives /\ running /\ ~caps
    /\ caps' = TRUE
    /\ UNCHANGED <<nodeVars, running, sockets, retired, reader, ready, mode,
                   requestVars, userVars, historyVars>>

ReadStatus ==
    /\ ReaderLives /\ running /\ status # <<>>
    /\ status' = Tail(status)
    /\ LET m == Head(status)
       IN  \/ m[1] = "ACK" /\ ConsumeAck(m[2], m[3])
           \/ m[1] = "READY" /\ ConsumeReady(m[2])
    /\ UNCHANGED <<process, node, lifecycle, running, sockets, retired, reader,
                   mode, nextId, pendingAck, pendingReady, userVars, historyVars>>

\* The mode of a first sample: what the role is supposed to start in.
DefaultMode == IF role = "leader" THEN "float" ELSE "hold"

\* Mutant: a state sample starts again from the role's mode.
StateResetsMode ==
    /\ mode' = DefaultMode
    /\ LET answered == pendingReady # 0 /\ readySeen
       IN  /\ ready' = (ready \/ answered)
           /\ pendingReady' = IF answered THEN 0 ELSE pendingReady
           /\ readySeen' = (readySeen /\ ~answered)

\* _consume_state(): the cached mode survives the new sample.
ConsumeState ==
    /\ mode' = IF mode = "none" THEN DefaultMode ELSE mode
    /\ LET answered == pendingReady # 0 /\ readySeen
       IN  /\ ready' = (ready \/ answered)
           /\ pendingReady' = IF answered THEN 0 ELSE pendingReady
           /\ readySeen' = (readySeen /\ ~answered)

ReadSample ==
    /\ ReaderLives /\ running
    /\ ConsumeState
    /\ UNCHANGED <<nodeVars, running, sockets, retired, reader, caps, nextId,
                   pendingAck, acks, userVars, historyVars>>

PollProcess ==
    /\ ReaderLives /\ running /\ process # "up"
    /\ running' = FALSE /\ reader' = "gone"
    /\ UNCHANGED <<nodeVars, sockets, retired, caps, ready, mode, requestVars,
                   userVars, historyVars>>

\* A payload the reader cannot decode ends it (_reader_error).
ReaderFails ==
    /\ ReaderLives /\ running
    /\ running' = FALSE /\ reader' = "gone"
    /\ UNCHANGED <<nodeVars, sockets, retired, caps, ready, mode, requestVars,
                   userVars, historyVars>>

ReaderStops ==
    /\ ReaderLives /\ ~running
    /\ reader' = "gone"
    /\ UNCHANGED <<nodeVars, running, sockets, retired, caps, ready, mode,
                   requestVars, userVars, historyVars>>

-----------------------------------------------------------------------------
(***************************************************************************)
(* Calls of the application threads on a running backend (on another they  *)
(* raise at once).                                                         *)
(***************************************************************************)
Goto(u, l) == pc' = [pc EXCEPT ![u] = l]
Return(u) == /\ Goto(u, "idle")
             /\ uid' = [uid EXCEPT ![u] = 0]
             /\ op' = [op EXCEPT ![u] = "PAUSE"]
             /\ armLock' = IF armLock = u THEN NoOne ELSE armLock

Closing(u) == op[u] \in Closes

\* FollowerArm.enter_gravity_compensation() and hold(), the leader's
\* enter_gravity_compensation() and _enable_force_feedback(), under the
\* dispatch lock; what a pair calls on its follower, under none.
SendCommand(u, command) ==
    /\ pc[u] = "idle"
    /\ \/ /\ u \in Callers
          /\ command \in IF role = "leader" THEN ModeCommands ELSE {"FLOAT", "HOLD"}
          /\ armLock = NoOne /\ armLock' = u
       \/ u \in Engagers /\ role = "follower" /\ command \in LockFree /\ UNCHANGED armLock
    /\ running
    /\ requests < MaxRequests /\ requests' = requests + 1
    /\ op' = [op EXCEPT ![u] = command]
    /\ Goto(u, "lock")
    /\ UNCHANGED <<nodeVars, backendVars, requestVars, lifeLock, uid, next,
                   connects, arrived, agreed, straddled>>

\* The request is registered before it is sent: its answer may be quick.
MoveToReady(u) ==
    /\ pc[u] = "idle" /\ armLock = NoOne /\ role = "follower"
    /\ running
    /\ requests < MaxRequests /\ requests' = requests + 1
    /\ armLock' = u
    /\ nextId' = nextId + 1
    /\ op' = [op EXCEPT ![u] = "MOVE"]
    /\ uid' = [uid EXCEPT ![u] = nextId']
    /\ pendingReady' = nextId' /\ readySeen' = FALSE /\ ready' = FALSE
    /\ Goto(u, "lock")
    /\ UNCHANGED <<nodeVars, running, sockets, retired, reader, caps, mode,
                   pendingAck, acks, lifeLock, next, connects, arrived, agreed, straddled>>

\* _send_lifecycle() gets the lifecycle lock and, if it has none, an id.
Lock(u) ==
    /\ pc[u] = "lock" /\ lifeLock = NoOne
    /\ LET id == IF uid[u] = 0 THEN nextId + 1 ELSE uid[u]
       IN  /\ uid' = [uid EXCEPT ![u] = id]
           /\ nextId' = IF uid[u] = 0 THEN id ELSE nextId
           /\ pendingAck' = id
    /\ lifeLock' = u
    /\ Goto(u, "send")
    /\ agreed' = CASE op[u] \in ModeCommands -> "pending"
                   [] op[u] \in Disturbing \ ModeCommands -> "no"
                   [] OTHER -> agreed
    /\ UNCHANGED <<nodeVars, backendVars, acks, pendingReady, readySeen,
                   armLock, op, next, connects, requests, arrived, straddled>>

Answers(u) == {a \in acks : a[1] = uid[u]}

\* The loop of _send_lifecycle(): send a copy, wait to be notified.
Send(u) ==
    /\ pc[u] = "send"
    /\ running
    /\ Answers(u) = {}
    /\ lifecycle' \in Published(lifecycle, <<uid[u], op[u]>>) \ {lifecycle}
    /\ UNCHANGED <<process, node, status, backendVars,
                   requestVars, userVars, historyVars>>

\* The finally block of _send_lifecycle().
Unlock(u) ==
    /\ lifeLock' = NoOne
    /\ pendingAck' = IF pendingAck = uid[u] THEN 0 ELSE pendingAck
    /\ acks' = acks \ Answers(u)

\* The finally block of move_to_ready().
ForgetMove(u) ==
    /\ pendingReady' = IF pendingReady = uid[u] THEN 0 ELSE pendingReady
    /\ readySeen' = (readySeen /\ pendingReady # uid[u])

\* Rejected, timed out, faulted or stopped.  A close terminates the process
\* (SIGTERM reaches the main loop as the end of the run) and goes on.
SendFails(u) ==
    /\ pc[u] = "send"
    /\ Answers(u) = {}
    /\ Unlock(u)
    /\ IF Closing(u)
       THEN /\ node' = [node EXCEPT !.run = FALSE]
            /\ Goto(u, "waitExit")
            /\ UNCHANGED <<pendingReady, readySeen, armLock, op, uid>>
       ELSE /\ IF op[u] = "MOVE" THEN ForgetMove(u) ELSE UNCHANGED <<pendingReady, readySeen>>
            /\ Return(u)
            /\ UNCHANGED node
    /\ agreed' = IF op[u] \in ModeCommands THEN "no" ELSE agreed
    /\ UNCHANGED <<process, lifecycle, status, backendVars,
                   nextId, next, connects, requests, arrived, straddled>>

\* What follows the acknowledgement: a mode change replaces the cached mode,
\* which hold() leaves as it is, move_to_ready() waits for its READY, close()
\* waits for the process.
ReplaceMode(m) == mode' = IF mode = "none" THEN mode ELSE m

Acknowledged(u) ==
    /\ pc[u] = "send"
    /\ Answers(u) # {}
    /\ Unlock(u)
    /\ CASE op[u] = "MOVE"  -> Goto(u, "readyWait") /\ UNCHANGED <<uid, armLock, op, mode>>
         [] Closing(u)      -> Goto(u, "waitExit") /\ UNCHANGED <<uid, armLock, op, mode>>
         [] op[u] \in ModeCommands -> Return(u) /\ ReplaceMode(ModeOf(op[u]))
         [] OTHER           -> Return(u) /\ UNCHANGED mode
    /\ agreed' = CASE op[u] \notin ModeCommands -> agreed
                   [] op[u] \in ModeCommands /\ agreed = "pending" /\ mode # "none" -> "yes"
                   [] OTHER -> "no"
    /\ UNCHANGED <<nodeVars, running, sockets, retired, reader, caps, ready,
                   nextId, pendingReady, readySeen, next, connects, requests, arrived, straddled>>

\* The end of move_to_ready(): its answer, or an exception (a fault, a
\* stopped process, 60 s without an answer).
MoveReturns(u) ==
    /\ pc[u] = "readyWait"
    /\ ForgetMove(u)
    /\ Return(u)
    /\ UNCHANGED <<nodeVars, backendVars, nextId, pendingAck, acks, lifeLock,
                   next, historyVars>>

-----------------------------------------------------------------------------
(***************************************************************************)
(* connect() and close(), each under all locks of the arm handle.          *)
(***************************************************************************)
Connected == caps /\ running

\* _close_owned_resources(): nothing to retire, a process to end, or only
\* the threads and sockets of one that has ended.
Finish(u) ==
    IF next[u] = "spawn" THEN Goto(u, "spawn") /\ UNCHANGED <<uid, armLock, op>>
                         ELSE Return(u)
CloseFrom == CASE process = "up"                      -> "lock"
               [] process \in {"exited", "killed"} /\ ~retired -> "join"
               [] OTHER                               -> "retired"

\* A backend whose process runs without a reader is closed instead
\* (_prepare_connect() raises and the handle cleans up).
Connect(u) ==
    /\ pc[u] = "idle" /\ armLock = NoOne /\ ~Connected
    /\ connects < MaxConnects
    /\ armLock' = u
    /\ op' = [op EXCEPT ![u] = "SHUTDOWN"]
    /\ next' = [next EXCEPT ![u] = IF process = "up" THEN "idle" ELSE "spawn"]
    /\ Goto(u, IF CloseFrom = "retired" THEN "spawn" ELSE CloseFrom)
    /\ running' = (running /\ CloseFrom # "join")
    /\ UNCHANGED <<nodeVars, sockets, retired, reader, caps, ready, mode,
                   requestVars, lifeLock, uid, historyVars>>

\* The rest of _prepare_connect(), and _connect_prepared() up to its wait.
\* _pending_ready_state_generation is not reset.
Spawn(u) ==
    /\ pc[u] = "spawn"
    /\ process' = "up" /\ node' = FreshNode
    /\ lifecycle' = <<>> /\ status' = <<>>
    /\ running' = TRUE /\ sockets' = "open" /\ retired' = FALSE
    /\ reader' = "alive"
    /\ caps' = FALSE /\ ready' = FALSE /\ mode' = "none"
    /\ nextId' = 0 /\ pendingAck' = 0 /\ acks' = {} /\ pendingReady' = 0
    /\ connects' = connects + 1 /\ arrived' = 0
    /\ agreed' = IF role = "follower" THEN "yes" ELSE "no"
    /\ straddled' = \E v \in Users : pc[v] = "send"
    /\ Goto(u, "connecting")
    /\ next' = [next EXCEPT ![u] = "idle"]
    /\ UNCHANGED <<requests, readySeen, armLock, lifeLock, op, uid>>

ConnectSucceeds(u) ==
    /\ pc[u] = "connecting"
    /\ caps /\ ready /\ mode # "none"
    /\ Return(u)
    /\ UNCHANGED <<nodeVars, backendVars, requestVars, lifeLock, next, historyVars>>

\* A fault, a stopped process, a failed reader, or the connect timeout.
ConnectFails(u) ==
    /\ pc[u] = "connecting"
    /\ ~(caps /\ ready /\ mode # "none")
    /\ Goto(u, CloseFrom)
    /\ running' = (running /\ CloseFrom # "join")
    /\ UNCHANGED <<nodeVars, sockets, retired, reader, caps, ready, mode,
                   requestVars, armLock, lifeLock, op, uid, next, historyVars>>

Close(u, command) ==
    /\ pc[u] = "idle" /\ armLock = NoOne
    /\ command \in Closes
    /\ CloseFrom # "retired"
    /\ armLock' = u
    /\ op' = [op EXCEPT ![u] = command]
    /\ Goto(u, CloseFrom)
    /\ running' = (running /\ CloseFrom # "join")
    /\ UNCHANGED <<nodeVars, sockets, retired, reader, caps, ready, mode,
                   requestVars, lifeLock, uid, next, historyVars>>

\* Mutant: the wait has no limit.
AwaitForever(u) ==
    /\ pc[u] = "waitExit" /\ process # "up"
    /\ running' = FALSE
    /\ Goto(u, "join")
    /\ UNCHANGED <<nodeVars, sockets, retired, reader, caps, ready, mode,
                   requestVars, armLock, lifeLock, op, uid, next, historyVars>>

\* process.wait(timeout=5), and a kill when that times out; then the threads
\* are told to stop.
AwaitProcess(u) ==
    /\ pc[u] = "waitExit"
    /\ process' = IF process = "up" THEN "killed" ELSE process
    /\ node' = FreshNode /\ lifecycle' = <<>>
    /\ running' = FALSE
    /\ Goto(u, "join")
    /\ UNCHANGED <<status, sockets, retired, reader, caps,
                   ready, mode, requestVars, armLock, lifeLock, op, uid, next,
                   historyVars>>

\* The reader is joined without a limit, then the sockets are closed.
Join(u) ==
    /\ pc[u] = "join" /\ ~ReaderLives
    /\ sockets' = "closed" /\ retired' = TRUE /\ status' = <<>>
    /\ Finish(u)
    /\ UNCHANGED <<process, node, lifecycle, running, reader, caps, ready, mode, requestVars,
                   lifeLock, next, historyVars>>

-----------------------------------------------------------------------------
\* What a call does by itself once it has begun; SendFails, MoveReturns and
\* ConnectFails include the expiry of the call's deadline.
CallStep(u) ==
    /\ UNCHANGED role
    /\ \/ Lock(u) \/ Acknowledged(u) \/ SendFails(u) \/ MoveReturns(u)
       \/ Spawn(u) \/ ConnectSucceeds(u) \/ ConnectFails(u)
       \/ AwaitProcess(u) \/ Join(u)

ReaderStep ==
    /\ UNCHANGED role
    /\ \/ ReadHandshake \/ ReadStatus \/ ReadSample
       \/ PollProcess \/ ReaderFails \/ ReaderStops

OtherStep ==
    /\ UNCHANGED role
    /\ \/ NodeStep \/ NodeTrips \/ NodeExits
       \/ \E u \in Users : Send(u) \/ \E c \in Commands : SendCommand(u, c)
       \/ \E u \in Callers :
            MoveToReady(u) \/ Connect(u) \/ \E c \in Commands : Close(u, c)

Next == ReaderStep \/ OtherStep \/ \E u \in Users : CallStep(u)

\* Threads are scheduled and deadlines expire; the network and the node
\* promise nothing.
Spec ==
    /\ Init /\ [][Next]_vars
    /\ \A u \in Users : WF_vars(CallStep(u))
    /\ WF_vars(ReaderStep)

-----------------------------------------------------------------------------
(***************************************************************************)
(* move_to_ready() returns normally only when the node completed a ready   *)
(* move for this very request: neither the start-up READY, nor the answer  *)
(* to an earlier call that timed out, nor a repeated announcement ends it. *)
(***************************************************************************)
ReadyAnswersRequest ==
    \A u \in Users : pc[u] = "readyWait" /\ ready => uid[u] = arrived

(***************************************************************************)
(* A lifecycle call succeeds only when the connected node carried out that *)
(* command under that request id, whatever copies and late                 *)
(* acknowledgements of other calls are still in flight.  (Ids start again  *)
(* with each connection: a call that was waiting in _send_lifecycle() when *)
(* the arm was reconnected sends its old id to the new node.)              *)
(***************************************************************************)
AckIsOwn ==
    ~straddled => \A u \in Users :
        pc[u] = "send" => \A a \in Answers(u) : a[2] = op[u]

(***************************************************************************)
(* Late or duplicate acknowledgements do not accumulate in _acks: it holds *)
(* an entry only while the call it answers holds the lifecycle lock.       *)
(***************************************************************************)
AcksDrained ==
    \A a \in acks : lifeLock # NoOne /\ a[1] = uid[lifeLock]

(***************************************************************************)
(* After a change of the mode that succeeded, the cached mode is the       *)
(* node's, although copies of earlier commands, of other threads too, may  *)
(* still be queued and state samples overwrite the cached state; until     *)
(* another thread's or the caller's own hold() or move_to_ready(), after   *)
(* which the cached mode is not replaced, or until the node changes its    *)
(* mode by itself, which it does not report.  A leader's cached mode, on   *)
(* which TeleopPair relies, is not confirmed before the first command.     *)
(***************************************************************************)
ModeAsCommanded ==
    (agreed = "yes" /\ mode # "none" /\ process = "up" /\ ~straddled) =>
        mode = node.mode

(***************************************************************************)
(* When close() has retired the backend, its process is gone and its       *)
(* reader has stopped (_close_owned_resources()).                          *)
(***************************************************************************)
ClosedMeansGone ==
    retired => process # "up" /\ ~ReaderLives /\ ~running

(***************************************************************************)
(* What the client believes of its node is true: the mode it has asked     *)
(* for, and that the node is gone once it has closed.                      *)
(***************************************************************************)
NodeAsBelieved == ModeAsCommanded /\ ClosedMeansGone

(***************************************************************************)
(* What ends a call, readiness or acknowledgement, is the answer to that   *)
(* very call, and an answer nobody waits for is not kept for a later one.  *)
(***************************************************************************)
AnswersAreOwn == TypeOK /\ ReadyAnswersRequest /\ AckIsOwn /\ AcksDrained
=============================================================================
