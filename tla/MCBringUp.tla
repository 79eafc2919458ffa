---------------------------- MODULE MCBringUp ----------------------------
(* Configuration files, launch, ports and topics are checked side by side:   *)
(* one behaviour is about one of them, and the others keep their first state. *)
EXTENDS JointConfig, Launch, MergedUrdf, Ports, Transport
VARIABLE unit
----------------------------------------------------------------------------
(* One field is varied at a time, in each of the two files.                  *)
Joint0 == [id |-> 1, vel |-> 3, accel |-> 2]
JointVariants ==
    {Overlay(Joint0, e) : e \in
        {<<>>, [vel |-> 0], [follow |-> 1], [follow |-> 0], [damping |-> -1], [grip |-> -1],
         [normMin |-> 0], [normMin |-> 0, normMax |-> 1], [normMin |-> -2, normMax |-> 1],
         [normMin |-> 0, normMax |-> 1, margin |-> 1], [rescale |-> -1]}}
    \cup {[vel |-> 3, accel |-> 2], [id |-> 1, vel |-> 3]}
JointOverrides ==
    {<<>>, [vel |-> 1], [vel |-> 0], [accel |-> 1], [follow |-> 2], [ref |-> 1],
     [rescale |-> 1], [rescale |-> -1]}
Servo0 == [id |-> 1, index |-> 0, model |-> 0, posMin |-> -1, posMax |-> 1]
ServoVariants ==
    {Overlay(Servo0, e) : e \in {<<>>, [dir |-> -1], [dir |-> 0], [posMin |-> 2]}}
    \cup {[id |-> 1, index |-> 0, model |-> 0], [id |-> 1, index |-> 0]}
ServoOverrides ==
    {<<>>, [period |-> 3], [period |-> 2], [period |-> 4, zero |-> 1, dir |-> -1],
     [posMin |-> 0, posMax |-> 2, period |-> 3], [dir |-> 2], [posMax |-> -2]}
MCGarbage == {-1, 2}
Second == [joint |-> Joint0, servos |-> <<Overlay(Servo0, [id |-> 2])>>]
File(joints_) == [current |-> TRUE, joints |-> joints_]
MCModelFiles ==
    {File(<<[joint |-> j, servos |-> <<Servo0>>]>>) : j \in JointVariants}
    \cup {File(<<[joint |-> Joint0, servos |-> <<s>>]>>) : s \in ServoVariants}
    \cup {File(<<>>), File(<<[joint |-> Joint0, servos |-> <<>>]>>), [current |-> FALSE, joints |-> <<>>],
          File(<<[joint |-> Joint0, servos |-> <<Servo0>>], Second>>)}
MCIndividualFiles ==
    {File(<<[joint |-> j, servos |-> <<<<>>>>]>>) : j \in JointOverrides}
    \cup {File(<<[joint |-> <<>>, servos |-> <<s>>]>>) : s \in ServoOverrides}
    \cup {File(<<>>), File(<<[joint |-> <<>>, servos |-> <<<<>>, <<>>>>]>>),
          File(<<[joint |-> <<>>, servos |-> <<[period |-> 3]>>], [joint |-> [vel |-> 1], servos |-> <<<<>>>>]>>)}
----------------------------------------------------------------------------
(* One plain order per model, and every order that differs from one of them  *)
(* in a single field.                                                        *)
PlainOrder(m) ==
    [role |-> "follower", model |-> m, link |-> LinkOf(m),
     effector |-> IF m = "FR3" THEN "robotiq" ELSE "gripper", gripperLink |-> m = "FR3",
     gravity |-> "config", leaderGravity |-> "default", rescale |-> "none",
     address |-> TRUE, gripper |-> "plain", files |-> "good", level |-> 0, host |-> TRUE, ports |-> TRUE]
Variants ==
    {<<"role", "leader">>, <<"effector", "handle">>, <<"effector", "robotiq">>,
     <<"gripperLink", TRUE>>, <<"gravity", "true">>, <<"gravity", "false">>,
     <<"level", 4>>, <<"address", FALSE>>, <<"effector", "none">>, <<"host", FALSE>>, <<"ports", FALSE>>}
    \cup {<<"link", l>> : l \in {"can", "serial", "ethernet", "fr3"}}
    \cup {<<"gripper", g>> : g \in {"outOfRange", "brief", "absent"}}
    \cup {<<"files", f>> : f \in {"missing", "noMass", "noBase"}}
    \cup {<<"rescale", r>> : r \in {"fits", "misfit", "negative", "huge"}}
LeaderVariants ==
    {<<"leaderGravity", "on">>, <<"leaderGravity", "off">>, <<"effector", "handle">>}
MCOrders ==
    {PlainOrder(m) : m \in Models}
    \cup {[PlainOrder(m) EXCEPT ![v[1]] = v[2]] : m \in Models, v \in Variants}
    \cup {[PlainOrder(m) EXCEPT !.role = "leader", ![v[1]] = v[2]] :
            m \in Models, v \in LeaderVariants}
----------------------------------------------------------------------------
PortHashes == {<<3, 0>>, <<13, 4>>, <<8, 5>>, <<62, 8>>}
AnyOf(S) == CHOOSE x \in S : TRUE
Chosen(u, S) == IF unit = u THEN S ELSE {AnyOf(S)}

(* Inodes are interchangeable: the files that were left behind have numbers  *)
(* of their own.                                                             *)
MCInit ==
    /\ unit \in {"ports", "topic", "launch", "config", "urdf"}
    /\ modelFile \in Chosen("config", ModelFiles)
    /\ individualFile \in Chosen("config", IndividualFiles)
    /\ garbage \in Chosen("config", Garbage)
    /\ order \in Chosen("launch", Orders)
    /\ hash \in Chosen("ports", [Topics -> Hashes])
    /\ role \in Chosen("topic", {"leader", "follower"})
    /\ base \in Chosen("urdf", {<<>>, <<"baked">>})
    /\ effectorOf \in Chosen("urdf", [Clients -> Effectors])
    /\ merged \in Chosen("urdf", [none : {NoFile, 1}, gripper : {NoFile, 2}])
    /\ ConfigInit /\ UrdfInit /\ LaunchInit /\ PortsInit /\ TransportInit
PortsTurn == unit = "ports" /\ PortsNext /\ UNCHANGED <<transportVars, launchVars, configVars, urdfVars, unit>>
TopicTurn == unit = "topic" /\ TransportNext /\ UNCHANGED <<portVars, launchVars, configVars, urdfVars, unit>>
LaunchTurn == unit = "launch" /\ LaunchNext /\ UNCHANGED <<portVars, transportVars, configVars, urdfVars, unit>>
ConfigTurn == unit = "config" /\ ConfigNext /\ UNCHANGED <<portVars, transportVars, launchVars, urdfVars, unit>>
UrdfTurn ==
    unit = "urdf" /\ UrdfNext /\ UNCHANGED <<portVars, transportVars, launchVars, configVars, unit>>
MCVars == <<portVars, transportVars, launchVars, configVars, urdfVars, unit>>
Elsewhere == UNCHANGED <<portVars, transportVars, configVars, urdfVars, unit>>
MCFairness ==
    /\ WF_MCVars(unit = "topic" /\ TopicStep /\ UNCHANGED <<portVars, launchVars, configVars, urdfVars, unit>>)
    /\ WF_MCVars(unit = "launch" /\ ClientStep /\ Elsewhere)
    /\ WF_MCVars(unit = "launch" /\ NodeStep /\ Elsewhere)
    /\ WF_MCVars(unit = "launch" /\ MonitorSees /\ Elsewhere)
MCSpec == MCInit /\ [][PortsTurn \/ TopicTurn \/ LaunchTurn \/ ConfigTurn \/ UrdfTurn]_MCVars /\ MCFairness
=============================================================================
