----------------------------- MODULE Transport -----------------------------
(* TopicZmq: what one step of the native node does with the frames that      *)
(* arrived on its SUB sockets since the last one, and what the Python client *)
(* does with the state it is sent.  Lifecycle commands are taken one a step  *)
(* and acknowledged; the joint streams are drained and only the newest       *)
(* payload counts.  Ports are shared by hashing (Ports), so a socket may     *)
(* also deliver a foreign topic.                                             *)
EXTENDS Integers, Sequences, SequencesExt

CONSTANTS
    Commands,       \* the lifecycle commands the client sends
    FrameKinds,     \* what a delivered multipart message looks like
    MaxCommands, MaxFrames, \* how many messages a behaviour sends
    QueueBound      \* how many messages a socket holds

ASSUME TransportAssumption ==
    /\ Commands \subseteq {"stop", "pause", "resume", "moveAndPause", "moveAndStop",
                           "heartbeat", "hold", "setEffector"}
    /\ FrameKinds \subseteq {"good", "emptyTopic", "foreign", "headless", "emptyData",
                             "wrongSize", "wrongType", "wrongCount"}
    /\ {MaxCommands, MaxFrames, QueueBound} \subseteq Nat \ {0}

VARIABLES
    role,           \* the node's role
    commandQueue,   \* frames waiting on sub_command_
    queue,          \* queue[s]: frames waiting on the socket of joint stream s
    running,        \* Topic::is_running_
    stepDue,        \* the control loop is to call step(), in this cycle or a later one
    paused,         \* Topic::pause_leader_command_listening_
    recovering,     \* Device::is_in_emergency_recovery()
    rejecting,      \* Device::rejects_direct_commands()
    applied,        \* applied[s]: the frame of stream s acted on last
    delivered,      \* delivered[s]: the newest good frame that reached the socket
    acks,           \* what was published as DEVICE_INFO_COMMAND_ACK
    commandsSent, framesSent

transportVars == <<role, commandQueue, queue, running, stepDue, paused, recovering,
                   rejecting, applied, delivered, acks, commandsSent, framesSent>>

(* "live": the leader's targets; "direct": the client's; "paired": the       *)
(* follower's state at its leader; "state" and "inputs" (a teaching handle's *)
(* buttons): what this node sends its client.                                *)
ClientStreams == {"state", "inputs"}
Streams == {"live", "direct", "paired"} \cup ClientStreams

(* The constructor connects these; the joystick subscribers are closed on a  *)
(* follower and never connected on a leader.                                 *)
Subscribed == IF role = "follower" THEN {"live", "direct"} ELSE {"paired"}
----------------------------------------------------------------------------
TransportInit ==
    /\ role \in {"leader", "follower"}
    /\ commandQueue = << >>
    /\ queue = [s \in Streams |-> << >>]
    /\ running = TRUE /\ stepDue = TRUE
    /\ paused = (role = "follower")
    /\ recovering = FALSE /\ rejecting = FALSE
    /\ applied = [s \in Streams |-> 0]
    /\ delivered = [s \in Streams |-> 0]
    /\ acks = << >>
    /\ commandsSent = 0 /\ framesSent = 0

(* A lifecycle message of the client reaches sub_command_, or one of another *)
(* topic does.  Parameter counts out of range are "wrongCount".              *)
DeliverCommand ==
    /\ commandsSent < MaxCommands /\ Len(commandQueue) < QueueBound
    /\ \E kind \in FrameKinds \ {"wrongType"}, command \in Commands \cup {"none"} :
         /\ kind = "good" <=> command # "none"
         /\ commandQueue' = Append(commandQueue,
                [kind |-> kind, command |-> command, id |-> commandsSent + 1])
    /\ commandsSent' = commandsSent + 1
    /\ UNCHANGED <<role, queue, running, stepDue, paused, recovering, rejecting, applied,
                   delivered, acks, framesSent>>

Enqueue(s, kind) ==
    /\ queue' = [queue EXCEPT ![s] = Append(@, [kind |-> kind, id |-> framesSent + 1])]
    /\ delivered' = IF kind = "good" THEN [delivered EXCEPT ![s] = framesSent + 1] ELSE delivered
    /\ framesSent' = framesSent + 1

DeliverJoints(s) ==
    /\ framesSent < MaxFrames /\ Len(queue[s]) < QueueBound
    /\ s \in Subscribed
    /\ \E kind \in FrameKinds : Enqueue(s, kind)
    /\ UNCHANGED <<role, commandQueue, running, stepDue, paused, recovering, rejecting,
                   applied, acks, commandsSent>>

(* A message for the client, or for nobody: a PUB socket drops what its      *)
(* peer's queue cannot take, and everything while it has no peer.            *)
Publish(s) ==
    /\ framesSent < MaxFrames
    /\ \E kind \in FrameKinds \cap {"good", "foreign"} :
         \/ Len(queue[s]) < QueueBound /\ Enqueue(s, kind)
         \/ framesSent' = framesSent + 1 /\ UNCHANGED <<queue, delivered>>
    /\ UNCHANGED <<role, commandQueue, running, stepDue, paused, recovering, rejecting,
                   applied, acks, commandsSent>>

PublishJoints == Publish("state")                           \* publish(MsgJoints)
PublishJoystick == role = "leader" /\ Publish("inputs")     \* publish(MsgJoystick)

(* The device around the topic (module Device).  It stops the topic inside a *)
(* cycle, which may still get to step(): a move that ends in a stop does, a  *)
(* recovery that timed out or a cycle that fails does not.                   *)
DeviceChanges ==
    /\ \/ recovering' = TRUE /\ UNCHANGED <<rejecting, running, stepDue>>
       \/ rejecting' = ~rejecting /\ UNCHANGED <<recovering, running, stepDue>>
       \/ /\ running' = FALSE /\ stepDue' \in {stepDue, FALSE}     \* Topic::stop()
          /\ UNCHANGED <<recovering, rejecting>>
    /\ UNCHANGED <<role, commandQueue, queue, paused, applied, delivered, acks, commandsSent,
                   framesSent>>
----------------------------------------------------------------------------
(* Topic::process_leader_msg(MsgCommand): its result, and the flags after it.*)
(* The effector commands cast the topic's device, always an arm, to an       *)
(* effector.                                                                 *)
EffectorResult == "notSupported"
Overrides == {"stop", "moveAndStop"}
CommandResult(command) ==
    IF command = "heartbeat" THEN "success"
    ELSE IF recovering /\ command \notin Overrides THEN "busy"
    ELSE IF command = "setEffector" THEN EffectorResult
    ELSE "success"

PausedAfter(command) ==
    IF CommandResult(command) # "success" \/ role # "follower" THEN paused
    ELSE IF command \in {"pause", "moveAndPause", "moveAndStop"} THEN TRUE
    ELSE IF command = "resume" THEN FALSE
    ELSE paused

RunningAfter(command) == running /\ command # "stop"

(* DEVICE_INFO_COMMAND_ACK: the request's id, its result and its code.       *)
Ack(message) == [id |-> message.id, command |-> message.command,
                 result |-> CommandResult(message.command)]

ConsumedIfGood ==                                                        \* mutant
    IF commandQueue # << >> /\ Head(commandQueue).kind = "good"
    THEN Tail(commandQueue) ELSE commandQueue

(* One message of the lifecycle socket is consumed in a step.                *)
Consumed == IF commandQueue # << >> THEN Tail(commandQueue) ELSE commandQueue

(* The first part of step(): one message of the lifecycle socket.  What is   *)
(* not a command is consumed with its data part and not acknowledged.        *)
TakeCommand ==
    IF commandQueue = << >> \/ Head(commandQueue).kind # "good"
    THEN UNCHANGED <<running, paused, acks>>
    ELSE LET message == Head(commandQueue) IN
         /\ running' = RunningAfter(message.command)
         /\ paused' = PausedAfter(message.command)
         /\ acks' = Append(acks, Ack(message))

(* drain_sub_to_latest(): every message is taken off the socket, the last of *)
(* the expected size is kept; 0 is "no payload".                             *)
Sized == {"good", "wrongType", "wrongCount"}
Latest(frames) == SelectLastInSeq(frames, LAMBDA f : f.kind \in Sized)

(* process_leader_msg_joint() / process_follower_msg_joint(): type and joint *)
(* count of the newest payload, then Topic's gates.                          *)
Accepts(s) ==
    CASE s = "live" -> ~recovering /\ ~(role = "follower" /\ paused')
      [] s = "direct" -> role = "follower" /\ ~rejecting
      [] OTHER -> TRUE

ValidFrame(frame) == frame.kind = "good"
AppliedFrom(s) ==
    LET i == Latest(queue[s]) IN
    IF i = 0 \/ ~ValidFrame(queue[s][i]) \/ ~Accepts(s) THEN applied[s] ELSE queue[s][i].id

(* The rest of step(): the drains, unless the topic was stopped.             *)
DrainStreams ==
    IF running'
    THEN /\ applied' = [s \in Streams |-> IF s \in Subscribed THEN AppliedFrom(s) ELSE applied[s]]
         /\ queue' = [s \in Streams |-> IF s \in Subscribed THEN << >> ELSE queue[s]]
    ELSE UNCHANGED <<applied, queue>>

(* step(), once in every cycle of the main loop, which goes on for as long   *)
(* as the topic runs.                                                        *)
TopicStep ==
    /\ stepDue
    /\ TakeCommand
    /\ commandQueue' = Consumed
    /\ DrainStreams
    /\ stepDue' = running'
    /\ UNCHANGED <<role, recovering, rejecting, delivered, commandsSent, framesSent>>

(* _Subscriber.recv_latest(): the client's own drain of a stream.            *)
ClientPoll(s) ==
    /\ queue[s] # << >>
    /\ queue' = [queue EXCEPT ![s] = << >>]
    /\ LET i == SelectLastInSeq(queue[s], LAMBDA f : f.kind # "foreign") IN
       applied' = IF i = 0 THEN applied ELSE [applied EXCEPT ![s] = queue[s][i].id]
    /\ UNCHANGED <<role, commandQueue, running, stepDue, paused, recovering, rejecting,
                   delivered, acks, commandsSent, framesSent>>

(* The loop is over: what waits on the sockets stays there.                  *)
TopicEnded == ~stepDue /\ UNCHANGED transportVars

TransportNext ==
    \/ DeliverCommand \/ PublishJoints \/ PublishJoystick \/ DeviceChanges \/ TopicStep
    \/ TopicEnded
    \/ \E s \in Streams : DeliverJoints(s)
    \/ \E s \in ClientStreams : ClientPoll(s)

TransportSpec ==
    /\ TransportInit /\ [][TransportNext]_transportVars
    /\ WF_transportVars(TopicStep)      \* while the topic runs, cycles get to step()
----------------------------------------------------------------------------
TransportTypeOK ==
    /\ role \in {"leader", "follower"}
    /\ {running, stepDue, paused, recovering, rejecting} \subseteq BOOLEAN
    /\ Len(commandQueue) <= QueueBound
    /\ \A s \in Streams : Len(queue[s]) <= QueueBound
    /\ \A s \in Streams : applied[s] <= delivered[s] /\ delivered[s] <= MaxFrames

(* Nothing is replayed and nothing lags: what a step acts on is the newest   *)
(* good frame the socket had, and every step leaves the sockets empty, also  *)
(* when foreign or malformed messages came with it or a bad command was read *)
(* first ("a foreign topic sharing the hashed port must not starve live      *)
(* command intake", pi_topic_zmq.cpp:261).                                   *)
NewestOnly ==
    [][/\ \A s \in Streams : applied'[s] # applied[s] => applied'[s] = delivered[s]
       /\ TopicStep /\ running' => \A s \in Subscribed : queue'[s] = << >>]_transportVars

(* An acknowledged pause is in force at once: no live target is acted on     *)
(* until a resume has been acknowledged, in particular none that was already *)
(* on the socket when the pause was read.                                    *)
PauseCommands == {"pause", "moveAndPause", "moveAndStop", "resume"}
LastPauseAck(as) ==
    SelectLastInSeq(as, LAMBDA a : a.command \in PauseCommands /\ a.result = "success")
PauseHolds ==
    [][applied'["live"] # applied["live"] =>
         LET i == LastPauseAck(acks') IN i # 0 /\ acks'[i].command = "resume"]_transportVars

(* A command that arrived intact is answered, whatever foreign or malformed  *)
(* messages came before it on the socket, unless the topic stops first; and  *)
(* once only, in the order of arrival.                                       *)
CommandAnswered ==
    \A n \in 1 .. MaxCommands :
        (\E i \in DOMAIN commandQueue : commandQueue[i].id = n /\ commandQueue[i].kind = "good")
            ~> (~running \/ \E i \in DOMAIN acks : acks[i].id = n)
AnsweredInOrder == \A i \in 2 .. Len(acks) : acks[i - 1].id < acks[i].id

(* The topics keep their order: the newest joint payload counts, a pause     *)
(* outlasts the frames that came with it, and while the topic runs every     *)
(* command is answered, in the order of their arrival.                       *)
TopicsKeepOrder ==
    [](TransportTypeOK /\ AnsweredInOrder) /\ NewestOnly /\ PauseHolds /\ CommandAnswered
=============================================================================
