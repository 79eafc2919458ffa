------------------------------- MODULE Launch -------------------------------
(* One connection from the caller's ArmConfig to a control node that runs, or *)
(* does not: the checks of config.py and native.py, the command line that    *)
(* native.py writes and pi_command_line_args.cpp reads, the bring-up of the  *)
(* device in pi_control_node.cpp with its way out at every stage, and the    *)
(* pipe by which an orphaned node learns that its client is gone.            *)
EXTENDS Integers, FiniteSets

CONSTANT Orders   \* what callers ask for, and the host it meets

(* An order names the role, model, connection, effector and options of an    *)
(* ArmConfig; "address" says whether the connection's address has the form   *)
(* of its kind, "gripper" is the kind of the Robotiq's settings, "rescale"   *)
(* that of torq_rescale, "files" what the model files lead to, "level" the   *)
(* log level of the environment, "host" whether the connection is up,        *)
(* "ports" whether a topic port is free.                                     *)
Fields == {"role", "model", "link", "address", "effector", "gripperLink", "gripper", "gravity",
           "leaderGravity", "rescale", "files", "level", "host", "ports"}

ASSUME LaunchAssumption ==
    \A o \in Orders :
        /\ DOMAIN o = Fields /\ o.level \in Int
        /\ o.role \in {"leader", "follower"}
        /\ o.gravity \in {"config", "true", "false"}
        /\ o.leaderGravity \in {"default", "on", "off"}
        /\ o.rescale \in {"none", "fits", "misfit", "negative", "huge"}

VARIABLES
    order,
    client,         \* "building", "checking", "waiting", "connected", "closing", "ended", "gone"
    node,           \* "none", "parsing", "creating", "opening", "starting", "verifying",
                    \* "running" or "exited"
    exitCode,
    terminate,      \* g_terminate_signal_received
    monitoring,     \* the ParentLivenessMonitor has been started
    busOpen,
    powered,        \* some motor has been enabled and not parked
    compensation,   \* "off", "model" or "vendor": who adds the gravity torque
    killed          \* the client has sent SIGKILL

launchVars == <<order, client, node, exitCode, terminate, monitoring, busOpen, powered,
                compensation, killed>>
nodeVars == <<node, exitCode, monitoring, busOpen, powered, compensation>>

NoExit == 99
----------------------------------------------------------------------------
(* What the packaged model files say.                                        *)
Models == {"Yam", "ARX_ENC", "SO101", "Trossen_wai_ctrl", "FR3"}
LinkOf(model) ==
    CASE model \in {"Yam", "ARX_ENC"} -> "can"
      [] model = "SO101" -> "serial"
      [] model = "Trossen_wai_ctrl" -> "ethernet"
      [] model = "FR3" -> "fr3"
ReadOnly(model) == model = "ARX_ENC"
FollowerGravityDefault(model) == model \in {"Yam", "Trossen_wai_ctrl", "FR3"}
ReadOnlyEffector(effector) == effector = "handle"

(* ArmConfig.__post_init__() and the connections' own.                       *)
AddressAccepted(o) == o.address
RobotiqAccepted(o) == o.gripperLink => o.gripper # "outOfRange"
RescaleIsNonNegative(o) == o.rescale # "negative"
ConfigAccepted(o) ==
    /\ AddressAccepted(o) /\ RobotiqAccepted(o)
    /\ o.model \in Models
    /\ o.model = "FR3" => o.link = "fr3" /\ o.effector = "robotiq" /\ o.gripperLink
    /\ o.link = "fr3" => o.model = "FR3"
    /\ o.effector = "robotiq" => o.model = "FR3"
    /\ o.gripperLink => o.effector = "robotiq"
    /\ RescaleIsNonNegative(o)
LeaderGravity(o) == IF o.leaderGravity = "default" THEN o.model = "Yam"
                    ELSE o.leaderGravity = "on"

(* NativeBackend.connect() before it starts anything: the interface is there *)
(* and up, FR3 follows only, nothing without motors follows, the files exist *)
(* and the effector has a mass model to merge into the URDF.                 *)
ConnectionAvailable(o) == o.link = "fr3" \/ o.host
resolve_model_assets(o) == o.files # "missing"
MassModelFound(o) == o.link # "fr3" /\ o.effector # "none" => o.files # "noMass"
ConnectAccepted(o) ==
    /\ ConnectionAvailable(o)
    /\ o.link = "fr3" => o.role = "follower" /\ o.gripperLink /\ o.gripper # "absent"
    /\ ~(o.role = "follower" /\ ReadOnly(o.model))
    /\ resolve_model_assets(o) /\ MassModelFound(o)

(* The command line of _connect_prepared(), as far as the node tells values  *)
(* apart: the options that are on it and the value each is written with.  A   *)
(* gravity option is only written for the role it is meant for.              *)
TimeoutMs(o) == IF o.gripper = "brief" THEN 0 ELSE 200
ConnectionArgs(o) ==
    IF o.link = "fr3" THEN {"fr3Address", "robotiq", "timeoutMs"} ELSE {"controlPort", "urdf"}
If(given, option) == IF given THEN {option} ELSE {}
CommandLine(o) ==
    {"role", "model", "level", "files", "algo"} \cup ConnectionArgs(o)
        \cup If(o.rescale # "none", "rescale")
        \cup If(o.role = "follower" /\ o.gravity # "config", "followerGravity")
        \cup If(o.role = "leader" /\ LeaderGravity(o), "leaderGravity")
        \cup If(o.effector # "none", "effector")
Written(o) ==
    [role |-> o.role, model |-> o.model, level |-> o.level, files |-> o.files,
     algo |-> IF o.link = "fr3" THEN "None" ELSE "Pinocchio", urdf |-> TRUE,
     fr3Address |-> TRUE, robotiq |-> TRUE, timeoutMs |-> TimeoutMs(o), controlPort |-> TRUE,
     rescale |-> o.rescale, followerGravity |-> o.gravity, leaderGravity |-> TRUE,
     effector |-> o.effector]

(* What the options default to that are not on the command line.             *)
OptionDefaults ==
    [fr3Address |-> FALSE, robotiq |-> FALSE, timeoutMs |-> 200, urdf |-> FALSE, rescale |-> "none",
     algo |-> "Undefined", level |-> 0, effector |-> "none", followerGravity |-> "config",
     leaderGravity |-> FALSE]

(* CommandLineArgs(): exit(2) unless all of these hold.  Every other option  *)
(* is always written, or has a default that its own check accepts.           *)
parse_torq_rescale_csv(args) == args.rescale \notin {"negative", "huge"}
RequiredGiven(args) ==
    /\ {"role", "model"} \subseteq DOMAIN args
    /\ "controlPort" \in DOMAIN args \/ args.model = "FR3"
LevelValid(args) == args.level <= 3
FilesGiven(args) == args.model = "FR3" \/ args.urdf
Fr3Valid(args) ==
    args.model = "FR3" =>
        /\ args.role = "follower" /\ args.fr3Address
        /\ args.robotiq => args.timeoutMs > 0
ArgsAccepted(args) ==
    /\ RequiredGiven(args) /\ LevelValid(args) /\ parse_torq_rescale_csv(args)
    /\ FilesGiven(args) /\ Fr3Valid(args)

(* Device::init() and DeviceArm::init() after it, in their order.  The FR3   *)
(* device stops after the first.                                             *)
ReadOnlyFollower(args) == args.role = "follower" /\ ReadOnly(args.model)
GravityRequested(args) ==
    IF args.followerGravity = "config" THEN FollowerGravityDefault(args.model)
    ELSE args.followerGravity = "true"
new_device(args) ==
    CASE LinkOf(args.model) = "can" -> "DeviceArmCan"
      [] LinkOf(args.model) = "ethernet" -> "DeviceArm"
      [] LinkOf(args.model) = "serial" -> "DeviceArmSerial"
      [] LinkOf(args.model) = "fr3" -> "DeviceFR3"
supports_torque_feed_forward(args) == new_device(args) = "DeviceArmCan"

(* Algo::new_algo(): the command line overrides the model file's KDL, which  *)
(* is not built in; Algo::init() needs a URDF and a base orientation.        *)
AlgoInFile(model) ==
    CASE model = "FR3" -> "None" [] model \in {"Yam", "SO101"} -> "Pinocchio" [] OTHER -> "KDL"
new_algo(args) ==
    LET chosen == IF args.algo # "Undefined" THEN args.algo ELSE AlgoInFile(args.model)
    IN  IF chosen = "Pinocchio" THEN "AlgoPino" ELSE "none"
AlgoInits(args) == new_algo(args) # "none" => args.urdf /\ args.files # "noBase"
has_gravity_model(args) == new_algo(args) = "AlgoPino"
GravityHonoured(args) ==
    args.role = "follower" /\ GravityRequested(args) =>
        \/ LinkOf(args.model) = "ethernet"
        \/ supports_torque_feed_forward(args) /\ has_gravity_model(args)
ArmInitAccepted(args) ==
    args.model # "FR3" =>
        /\ args.rescale # "misfit"
        /\ ~(args.role = "follower" /\ ReadOnlyEffector(args.effector))
        /\ GravityHonoured(args)
DeviceAccepted(args) == ~ReadOnlyFollower(args) /\ AlgoInits(args) /\ ArmInitAccepted(args)

Compensation(args) ==
    IF args.model \in {"FR3", "Trossen_wai_ctrl"} THEN "vendor"
    ELSE IF args.role = "leader"
    THEN IF args.leaderGravity /\ ~ReadOnly(args.model) THEN "model" ELSE "off"
    ELSE IF GravityRequested(args) THEN "model" ELSE "off"

(* open(): the driver of the model's type on the interface of the order.     *)
BusOpens(o) == o.link = LinkOf(o.model) /\ o.host
----------------------------------------------------------------------------
LaunchInit ==
    /\ order \in Orders
    /\ client = "building" /\ node = "none" /\ exitCode = NoExit
    /\ terminate = FALSE /\ monitoring = FALSE /\ busOpen = FALSE /\ powered = FALSE
    /\ compensation = "off" /\ killed = FALSE

ClientTo(c) == client' = c /\ UNCHANGED <<order, terminate, killed, nodeVars>>

BuildConfig ==
    /\ client = "building"
    /\ ClientTo(IF ConfigAccepted(order) THEN "checking" ELSE "ended")

RefuseConnect ==
    /\ client = "checking" /\ ~ConnectAccepted(order)
    /\ ClientTo("ended")

(* Popen(): the node has the read end of the pipe, the client the write end. *)
Spawn ==
    /\ client = "checking" /\ ConnectAccepted(order)
    /\ client' = "waiting" /\ node' = "parsing"
    /\ UNCHANGED <<order, terminate, killed, exitCode, monitoring, busOpen, powered, compensation>>

(* The wait for handshake, READY and a state, and its three ends.            *)
Connected ==
    /\ client = "waiting" /\ node = "running"
    /\ ClientTo("connected")
NodeStopped ==
    /\ client \in {"waiting", "connected", "closing"} /\ node = "exited"
    /\ ClientTo("ended")
ConnectTimeout ==
    /\ client = "waiting"
    /\ ClientTo("closing")

(* close(): SHUTDOWN is only heard by the loop; when no acknowledgement      *)
(* comes, SIGTERM, and five seconds later SIGKILL, also for a node that has  *)
(* acknowledged the SHUTDOWN.                                                *)
Close == client = "connected" /\ ClientTo("closing")
SendTerminate ==
    /\ client = "closing" /\ ~terminate /\ node # "exited"
    /\ terminate' = TRUE
    /\ UNCHANGED <<order, client, killed, nodeVars>>
Kill ==
    /\ client = "closing" /\ node # "exited"
    /\ terminate \/ node = "running"
    /\ killed' = TRUE /\ node' = "exited" /\ exitCode' = -9
    /\ UNCHANGED <<order, client, terminate, monitoring, busOpen, powered, compensation>>

(* The client's process ends without closing anything.                       *)
ClientDies ==
    /\ client \in {"waiting", "connected", "closing"}
    /\ ClientTo("gone")
----------------------------------------------------------------------------
(* Every early return of main() destroys the device, whose destructor parks  *)
(* it (an FR3's driver stops the robot); the frames get through as long as   *)
(* the driver has not been closed.                                           *)
StillPowered == powered /\ ~busOpen
Exit(code) ==
    /\ node' = "exited" /\ exitCode' = code
    /\ powered' = StillPowered /\ busOpen' = FALSE
    /\ UNCHANGED <<order, client, terminate, killed, monitoring, compensation>>

To(stage) ==
    /\ node' = stage
    /\ UNCHANGED <<order, client, terminate, killed, exitCode>>

Args ==
    [x \in CommandLine(order) \cup DOMAIN OptionDefaults |->
        IF x \in CommandLine(order) THEN Written(order)[x] ELSE OptionDefaults[x]]

RefuseArgs == node = "parsing" /\ ~ArgsAccepted(Args) /\ Exit(2)
StartNowhere == FALSE                                                   \* mutant
StartMonitor == TRUE
ParseArgs ==
    /\ node = "parsing" /\ ArgsAccepted(Args)
    /\ To("creating") /\ monitoring' = StartMonitor
    /\ UNCHANGED <<busOpen, powered, compensation>>

(* The topic binds its ports before the rest is checked; a bind that finds   *)
(* them all taken throws.                                                    *)
BindThrows ==
    /\ node = "creating" /\ ~ReadOnlyFollower(Args) /\ ~order.ports
    /\ Exit(1)
RefuseDevice ==
    /\ node = "creating" /\ (order.ports \/ ReadOnlyFollower(Args))
    /\ ~DeviceAccepted(Args)
    /\ Exit(-1)
InitDevice ==
    /\ node = "creating" /\ order.ports /\ DeviceAccepted(Args)
    /\ To("opening") /\ compensation' = Compensation(Args)
    /\ UNCHANGED <<busOpen, powered, monitoring>>

OpenFails == node = "opening" /\ ~BusOpens(order) /\ Exit(-1)
Open ==
    /\ node = "opening" /\ BusOpens(order)
    /\ To("starting") /\ busOpen' = TRUE
    /\ UNCHANGED <<powered, monitoring, compensation>>

(* DeviceArm::start(): joint after joint is enabled; when one fails, stop()  *)
(* parks those that are and closes the driver, and the destructor parks      *)
(* again.                                                                    *)
StartHardware ==
    /\ node = "starting" /\ ~powered /\ ~ReadOnly(order.model)
    /\ To("starting") /\ powered' = TRUE
    /\ UNCHANGED <<busOpen, monitoring, compensation>>
CloseThenPark == busOpen' = FALSE /\ powered' = powered                 \* mutant
stop == busOpen' = FALSE /\ powered' = StillPowered
StartFails ==
    /\ node = "starting"
    /\ node' = "exited" /\ exitCode' = -1 /\ stop
    /\ UNCHANGED <<order, client, terminate, killed, monitoring, compensation>>
Started ==
    /\ node = "starting" /\ (powered \/ ReadOnly(order.model))
    /\ To("verifying")
    /\ UNCHANGED <<busOpen, powered, monitoring, compensation>>

(* verify_servos_operational() is a formality for a read-only arm and FR3.   *)
VerifyFails ==
    /\ node = "verifying" /\ ~ReadOnly(order.model) /\ order.model # "FR3"
    /\ Exit(-1)
Verify ==
    /\ node = "verifying" /\ To("running")
    /\ UNCHANGED <<busOpen, powered, monitoring, compensation>>

(* The control loop looks at the signal, which nothing before it does, and   *)
(* at is_running(): a SHUTDOWN, a move that ends in a stop and the end of a  *)
(* recovery stop the topic.  A readiness that cannot be published breaks the *)
(* loop too; an exception in it leaves by the handlers of main().            *)
LoopRuns == node = "running" /\ ~terminate /\ UNCHANGED launchVars
LeaveLoop ==
    /\ node' = "exited" /\ exitCode' = 0 /\ stop
    /\ UNCHANGED <<order, client, terminate, killed, monitoring, compensation>>
LoopEnds == node = "running" /\ terminate /\ LeaveLoop
LoopStops == node = "running" /\ ~terminate /\ LeaveLoop
LoopThrows == node = "running" /\ Exit(1)

(* monitor(): EOF on the pipe becomes SIGTERM to the node itself.            *)
MonitorSees ==
    /\ monitoring /\ node # "exited" /\ client = "gone" /\ ~terminate
    /\ terminate' = TRUE
    /\ UNCHANGED <<order, client, killed, nodeVars>>

NodeStep ==
    \/ RefuseArgs \/ ParseArgs \/ BindThrows \/ RefuseDevice \/ InitDevice
    \/ OpenFails \/ Open \/ StartHardware \/ StartFails \/ Started
    \/ VerifyFails \/ Verify \/ LoopEnds
ClientStep ==
    \/ BuildConfig \/ RefuseConnect \/ Spawn \/ Connected \/ NodeStopped
    \/ ConnectTimeout \/ SendTerminate \/ Kill

LaunchEnded == client \in {"ended", "gone"} /\ node \in {"none", "exited"} /\ UNCHANGED launchVars

LaunchNext ==
    \/ ClientStep \/ Close \/ ClientDies
    \/ NodeStep \/ LoopRuns \/ LoopStops \/ LoopThrows \/ MonitorSees \/ LaunchEnded

LaunchFairness ==
    /\ WF_launchVars(ClientStep)
    /\ WF_launchVars(NodeStep)
    /\ WF_launchVars(MonitorSees)

LaunchSpec == LaunchInit /\ [][LaunchNext]_launchVars /\ LaunchFairness
----------------------------------------------------------------------------
LaunchTypeOK ==
    /\ client \in {"building", "checking", "waiting", "connected", "closing", "ended", "gone"}
    /\ node \in {"none", "parsing", "creating", "opening", "starting", "verifying",
                 "running", "exited"}
    /\ exitCode \in {NoExit, 0, 1, 2, -1, -9}
    /\ {terminate, monitoring, busOpen, powered, killed} \subseteq BOOLEAN
    /\ compensation \in {"off", "model", "vendor"}
    /\ busOpen => node \in {"starting", "verifying", "running"} \/ killed

(* The two validators agree: what ArmConfig and connect() accept, the node   *)
(* does not refuse as a bad command line, but for a rescale factor that no   *)
(* float holds, a Robotiq timeout that rounds to no milliseconds and a log   *)
(* level taken from the environment.                                         *)
ValidatorsAgree ==
    exitCode = 2 =>
        \/ order.rescale = "huge"
        \/ order.model = "FR3" /\ order.gripper = "brief"
        \/ order.level > 3

(* No motor is enabled for an order that could not be honoured: a follower   *)
(* without motors or with a handle in place of a gripper, a calibration that *)
(* does not fit the joints, a connection of another kind than the arm's, a   *)
(* base orientation that no file gives; and                                  *)
(* the gravity torque comes from where the caller, or else the individual    *)
(* file, asked for it.                                                       *)
PoweredAsOrdered ==
    powered =>
        /\ ~(order.role = "follower" /\ (ReadOnly(order.model) \/ order.effector = "handle"))
        /\ order.model # "FR3" => order.rescale \in {"none", "fits"}
        /\ order.link = LinkOf(order.model)
        /\ order.model # "FR3" => order.files \notin {"missing", "noBase"}
        /\ order.model = "SO101" /\ order.role = "follower" => order.gravity # "true"
        /\ order.model = "Yam" =>
            (compensation = "model" <=>
                IF order.role = "leader" THEN order.leaderGravity # "off"
                ELSE order.gravity # "false")

(* Whichever way bring-up ends, the node has parked what it had enabled,     *)
(* before it closed the bus; only a SIGKILL leaves motors under power.       *)
NoTorqueLeftBehind == node = "exited" /\ powered => killed

(* The signal that an orphan sends itself, and the one of a closing client,  *)
(* are honoured however early they arrive: a node whose client is gone ends, *)
(* and does not end by being killed.                                         *)
OrphanEnds == (client = "gone" /\ node # "none") ~> (node = "exited")

(* connect() ends: in a connection, or in an error that leaves no node       *)
(* behind, whatever stage of its bring-up the node was in.                   *)
ConnectEnds ==
    (client = "waiting") ~>
        (client \in {"connected", "gone"} \/ (client = "ended" /\ node = "exited"))

(* Motors are powered as ordered, no longer and for nothing else: what the   *)
(* client has accepted is not refused, no arm is powered for an order that   *)
(* cannot be honoured, and none is left under power.                         *)
PowerAsOrdered ==
    LaunchTypeOK /\ ValidatorsAgree /\ PoweredAsOrdered /\ NoTorqueLeftBehind

(* No launch is left hanging on either side: connect() ends for the client,  *)
(* and the node ends when the client is gone.                                *)
LaunchEnds == OrphanEnds /\ ConnectEnds
=============================================================================
