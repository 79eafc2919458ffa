------------------------------- MODULE Ports -------------------------------
(* How a publisher and its subscribers meet.  There is no name service: both *)
(* sides hash the topic name to the same short list of TCP ports, the        *)
(* publisher binds the first free one and the subscriber connects to all of  *)
(* them.  The list is computed twice, once in C++ with 32-bit arithmetic     *)
(* (pi_topic_zmq.cpp) and once in Python with unbounded integers             *)
(* (protocol.py); a topic's two ends are usually of different languages.     *)
EXTENDS Integers, Sequences, FiniteSets

CONSTANTS
    Topics,             \* the topics of one session
    NativeTopics,       \* those the native node publishes: state, status, inputs, live
    HashSize,           \* the hash is unsigned: 2^32 values in the code
    PortRange,          \* PORT_RANGE_JOINT_DYNAMIC
    PortProbeCandidates,\* kZmqPortProbeCandidatesPub = kZmqPortProbeCandidatesSub
    Hashes,             \* the values of the two hashes of a topic name to consider
    MaxOccupied         \* how many ports other programs hold at once

ASSUME PortsAssumption ==
    /\ NativeTopics \subseteq Topics
    /\ {HashSize, PortRange, PortProbeCandidates} \subseteq Nat \ {0}
    /\ PortProbeCandidates <= PortRange
    /\ Hashes \subseteq (0 .. HashSize - 1) \X (0 .. HashSize - 1)
    /\ MaxOccupied \in Nat

VARIABLES
    hash,       \* hash[t] = <<fnv1a_32(t), fnv1a_32(t + "\x1fprobe")>>
    probe,      \* probe[t]: the candidate the publisher of t tries next, 0 when it is down
    bound,      \* bound[t]: the port the publisher of t holds
    occupied    \* ports held by programs of no concern here

portVars == <<hash, probe, bound, occupied>>

NoPort == -1
Failed == PortProbeCandidates + 1
AllPorts == 0 .. PortRange - 1
----------------------------------------------------------------------------
(* probe_step() and _probe_step(): odd and no multiple of 5, so that it has  *)
(* no divisor in common with the range, 2^3 * 5^3.                           *)
NonZero(step) == IF step = 0 THEN 1 ELSE step
Odd(step) == IF step % 2 = 0 THEN step + 1 ELSE step
NotByFive(step) == IF step % 5 = 0 THEN step + 2 ELSE step
probe_step(h) == NonZero(NotByFive(Odd(NonZero(h % PortRange))) % PortRange)

(* The i-th candidate, computed in unsigned arithmetic by                    *)
(* generate_port_candidates_from_topic() ...                                 *)
NativeCandidate(t, i) ==
    ((hash[t][1] + (i - 1) * probe_step(hash[t][2])) % HashSize) % PortRange

(* ... and in Python's integers by port_candidates().                        *)
PythonCandidate(t, i) == (hash[t][1] + (i - 1) * probe_step(hash[t][2])) % PortRange

PublisherCandidate(t, i) ==
    IF t \in NativeTopics THEN NativeCandidate(t, i) ELSE PythonCandidate(t, i)

(* The subscriber's connects: the Python client's for what the node          *)
(* publishes, the node's for what the client publishes.                      *)
FirstPorts(t) ==                                                         \* mutant
    {IF t \in NativeTopics THEN PythonCandidate(t, i) ELSE NativeCandidate(t, i) :
        i \in 1 .. PortProbeCandidates - 1}
SubscriberPorts(t) ==
    {IF t \in NativeTopics THEN PythonCandidate(t, i) ELSE NativeCandidate(t, i) :
        i \in 1 .. PortProbeCandidates}

Held == occupied \cup {bound[t] : t \in Topics}
----------------------------------------------------------------------------
PortsInit ==
    /\ hash \in [Topics -> Hashes]
    /\ probe = [t \in Topics |-> 0]
    /\ bound = [t \in Topics |-> NoPort]
    /\ occupied = {}

Start(t) ==
    /\ probe[t] = 0
    /\ probe' = [probe EXCEPT ![t] = 1]
    /\ UNCHANGED <<hash, bound, occupied>>

(* init_port() and _Publisher(): EADDRINUSE means the next candidate.        *)
Bind(t) ==
    /\ probe[t] \in 1 .. PortProbeCandidates
    /\ bound[t] = NoPort
    /\ LET port == PublisherCandidate(t, probe[t]) IN
       IF port \in Held
       THEN probe' = [probe EXCEPT ![t] = @ + 1] /\ UNCHANGED bound
       ELSE bound' = [bound EXCEPT ![t] = port] /\ UNCHANGED probe
    /\ UNCHANGED <<hash, occupied>>

(* Any other failure ends the native publisher's attempt (`break`); the      *)
(* Python publisher takes every ZMQError for a used port.                    *)
BindError(t) ==
    /\ probe[t] \in 1 .. PortProbeCandidates
    /\ bound[t] = NoPort
    /\ probe' = [probe EXCEPT ![t] = IF t \in NativeTopics THEN Failed ELSE @ + 1]
    /\ UNCHANGED <<hash, bound, occupied>>

(* The process of the publisher ends, with its socket or without one.        *)
Down(t) ==
    /\ probe[t] > 0
    /\ probe' = [probe EXCEPT ![t] = 0]
    /\ bound' = [bound EXCEPT ![t] = NoPort]
    /\ UNCHANGED <<hash, occupied>>

(* Other programs take ports and give them back.                             *)
Others ==
    /\ \E port \in AllPorts :
         \/ port \notin Held /\ Cardinality(occupied) < MaxOccupied
            /\ occupied' = occupied \cup {port}
         \/ port \in occupied /\ occupied' = occupied \ {port}
    /\ UNCHANGED <<hash, probe, bound>>

PortsNext ==
    \/ \E t \in Topics : Start(t) \/ Bind(t) \/ BindError(t) \/ Down(t)
    \/ Others

PortsSpec == PortsInit /\ [][PortsNext]_portVars
----------------------------------------------------------------------------
(* The 32-bit sum of the last candidate of t wraps around.                   *)
Wraps(t) ==
    hash[t][1] + (PortProbeCandidates - 1) * probe_step(hash[t][2]) >= HashSize

(* A publisher that had to fall back, also one that came back after a crash  *)
(* and found its old port taken, is on a port every subscriber of its topic  *)
(* connects to ("a publisher that fell back past the subscriber's last       *)
(* candidate becomes silently unreachable", pi_topic_zmq.hpp:289): the two   *)
(* implementations of the hash list agree.  They do not for the few names    *)
(* whose sum wraps in 32 bits: 2^32 is no multiple of the range.             *)
Reachable ==
    \A t \in Topics : bound[t] # NoPort => Wraps(t) \/ bound[t] \in SubscriberPorts(t)

=============================================================================
