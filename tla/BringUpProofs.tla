---------------------------- MODULE BringUpProofs ----------------------------
(***************************************************************************)
(* What has to hold before a node moves anything, for every number of      *)
(* topics, ports, clients and effectors: a publisher is on a port its      *)
(* subscribers connect to, and a node computes gravity with the inertia of *)
(* its own effector; an arm is powered only for an order that it can       *)
(* honour, and never left so; it runs with the limits that its files give; *)
(* and its topics keep the order of what they carry.                       *)
(***************************************************************************)
EXTENDS JointConfig, Launch, MergedUrdf, Ports, Transport,
        FiniteSetTheorems, SequenceTheorems, WellFoundedInduction, TLAPS

-----------------------------------------------------------------------------
(***************************************************************************)
(* Ports.  What a publisher holds is one of its own candidates; these are  *)
(* the subscriber's as long as the 32-bit sum does not wrap.               *)
(***************************************************************************)
PortTypes ==
    /\ hash \in [Topics -> Hashes]
    /\ probe \in [Topics -> 0 .. Failed]
    /\ bound \in [Topics -> AllPorts \cup {NoPort}]

BoundIsCandidate ==
    \A t \in Topics : bound[t] # NoPort =>
        \E i \in 1 .. PortProbeCandidates : bound[t] = PublisherCandidate(t, i)

PortsInv == PortTypes /\ BoundIsCandidate

(* The step between two candidates is a natural number.                      *)
LEMMA ProbeStepTypes == \A h \in Nat : probe_step(h) \in Nat
  <1> SUFFICES ASSUME NEW h \in Nat PROVE probe_step(h) \in Nat
    OBVIOUS
  <1> DEFINE first == NonZero(h % PortRange)
             second == Odd(first)
             third == NotByFive(second)
  <1>1. PortRange \in Nat \ {0}
    BY PortsAssumption
  <1>2. first \in Nat
    BY <1>1 DEF NonZero
  <1>3. second \in Nat
    BY <1>2 DEF Odd
  <1>4. third \in Nat
    BY <1>3 DEF NotByFive
  <1>5. third % PortRange \in Nat
    BY <1>1, <1>4
  <1>6. NonZero(third % PortRange) \in Nat
    BY <1>5 DEF NonZero
  <1> QED
    BY <1>6 DEF probe_step

(* A hash is a pair of naturals below the size of the unsigned type.         *)
LEMMA HashTypes ==
    ASSUME PortTypes, NEW t \in Topics
    PROVE  hash[t][1] \in 0 .. HashSize - 1 /\ hash[t][2] \in 0 .. HashSize - 1
  BY PortsAssumption DEF PortTypes

(* Where the sum of the last candidate does not wrap, that of an earlier one *)
(* does not either, and the two implementations agree on it.                 *)
LEMMA CandidatesAgree ==
    ASSUME PortTypes, NEW t \in Topics, ~Wraps(t),
           NEW i \in 1 .. PortProbeCandidates
    PROVE  NativeCandidate(t, i) = PythonCandidate(t, i)
  <1> DEFINE h == hash[t][1]
             step == probe_step(hash[t][2])
             last == PortProbeCandidates - 1
             sum == h + (i - 1) * step
  <1>1. h \in Nat /\ hash[t][2] \in Nat /\ HashSize \in Nat \ {0}
    BY HashTypes, PortsAssumption
  <1>2. step \in Nat
    BY <1>1, ProbeStepTypes
  <1>3. i - 1 \in Nat /\ last \in Nat /\ i - 1 <= last
    BY PortsAssumption
  <1> HIDE DEF step, last, h
  <1>4. (i - 1) * step \in Nat /\ (i - 1) * step <= last * step
    <2>1. \A a, b, c \in Nat : a <= b => a * c \in Nat /\ a * c <= b * c
      OBVIOUS
    <2> QED
      BY <1>2, <1>3, <2>1
  <1>5. ~(h + last * step >= HashSize)
    BY DEF Wraps, h, step, last
  <1>6. sum \in 0 .. HashSize - 1
    BY <1>1, <1>2, <1>3, <1>4, <1>5
  <1>7. sum % HashSize = sum
    BY <1>1, <1>6
  <1> QED
    BY <1>7 DEF NativeCandidate, PythonCandidate, h, step

(* Every candidate is a port of the range.                                   *)
LEMMA CandidateTypes ==
    ASSUME PortTypes, NEW t \in Topics, NEW i \in 1 .. PortProbeCandidates
    PROVE  PublisherCandidate(t, i) \in AllPorts
  <1> DEFINE step == probe_step(hash[t][2])
             sum == hash[t][1] + (i - 1) * step
  <1>1. PortRange \in Nat \ {0} /\ HashSize \in Nat \ {0}
    BY PortsAssumption
  <1>2. hash[t][1] \in Nat /\ hash[t][2] \in Nat
    BY HashTypes, PortsAssumption
  <1>3. step \in Nat
    BY <1>2, ProbeStepTypes
  <1> HIDE DEF step
  <1>4. (i - 1) * step \in Nat
    <2>1. \A a, b \in Nat : a * b \in Nat
      OBVIOUS
    <2>2. i - 1 \in Nat
      BY PortsAssumption
    <2> QED
      BY <1>3, <2>1, <2>2
  <1>5. sum \in Nat
    BY <1>2, <1>4
  <1> HIDE DEF sum
  <1>6. sum % HashSize \in Nat
    BY <1>1, <1>5
  <1>7. (sum % HashSize) % PortRange \in AllPorts
    BY <1>1, <1>6 DEF AllPorts
  <1>8. sum % PortRange \in AllPorts
    BY <1>1, <1>5 DEF AllPorts
  <1> QED
    BY <1>7, <1>8 DEF PublisherCandidate, NativeCandidate, PythonCandidate, sum, step

(* Every step of a publisher and of the programs around it keeps that.       *)
LEMMA PortsStep == PortsInv /\ [PortsNext]_portVars => PortsInv'
  <1> SUFFICES ASSUME PortsInv, [PortsNext]_portVars PROVE PortsInv'
    OBVIOUS
  <1> USE PortsAssumption DEF PortsInv, PortTypes
  <1>1. ASSUME NEW t \in Topics, Start(t) PROVE PortsInv'
    <2>1. probe' \in [Topics -> 0 .. Failed]
      BY <1>1 DEF Start, Failed
    <2> QED
      BY <1>1, <2>1 DEF Start, BoundIsCandidate, PublisherCandidate,
                    NativeCandidate, PythonCandidate
  <1>2. ASSUME NEW t \in Topics, Bind(t) PROVE PortsInv'
    <2> DEFINE port == PublisherCandidate(t, probe[t])
    <2>1. probe[t] \in 1 .. PortProbeCandidates /\ UNCHANGED <<hash, occupied>>
      BY <1>2 DEF Bind
    <2>2. \A u \in Topics, i \in 1 .. PortProbeCandidates :
              PublisherCandidate(u, i)' = PublisherCandidate(u, i)
      BY <2>1 DEF PublisherCandidate, NativeCandidate, PythonCandidate
    <2>3. port \in AllPorts
      BY <2>1, CandidateTypes
    <2> HIDE DEF port
    <2>4. CASE port \in Held
      <3>1. probe' = [probe EXCEPT ![t] = @ + 1] /\ bound' = bound
        BY <1>2, <2>4 DEF Bind, port
      <3>2. probe' \in [Topics -> 0 .. Failed]
        BY <2>1, <3>1 DEF Failed
      <3> QED
        BY <2>1, <2>2, <3>1, <3>2 DEF BoundIsCandidate
    <2>5. CASE port \notin Held
      <3>1. bound' = [bound EXCEPT ![t] = port] /\ probe' = probe
        BY <1>2, <2>5 DEF Bind, port
      <3>2. bound' \in [Topics -> AllPorts \cup {NoPort}]
        BY <2>3, <3>1
      <3>3. BoundIsCandidate'
        BY <2>1, <2>2, <3>1 DEF BoundIsCandidate, port
      <3> QED
        BY <2>1, <3>1, <3>2, <3>3
    <2> QED
      BY <2>4, <2>5
  <1>3. ASSUME NEW t \in Topics, BindError(t) PROVE PortsInv'
    <2>1. probe' \in [Topics -> 0 .. Failed]
      BY <1>3 DEF BindError, Failed
    <2> QED
      BY <1>3, <2>1 DEF BindError, BoundIsCandidate, PublisherCandidate,
                    NativeCandidate, PythonCandidate
  <1>4. ASSUME NEW t \in Topics, Down(t) PROVE PortsInv'
    <2>1. probe' \in [Topics -> 0 .. Failed]
      BY <1>4 DEF Down, Failed
    <2>2. bound' \in [Topics -> AllPorts \cup {NoPort}]
      BY <1>4 DEF Down
    <2>3. BoundIsCandidate'
      BY <1>4 DEF Down, BoundIsCandidate, PublisherCandidate, NativeCandidate,
                  PythonCandidate
    <2> QED
      BY <1>4, <2>1, <2>2, <2>3 DEF Down
  <1>5. CASE Others
    BY <1>5 DEF Others, BoundIsCandidate, PublisherCandidate, NativeCandidate,
                PythonCandidate
  <1>6. CASE UNCHANGED portVars
    BY <1>6 DEF portVars, BoundIsCandidate, PublisherCandidate, NativeCandidate,
                PythonCandidate
  <1> QED
    BY <1>1, <1>2, <1>3, <1>4, <1>5, <1>6 DEF PortsNext

(***************************************************************************)
(* A publisher that fell back, or came back after a crash, is reachable:   *)
(* Reachable, for every set of topics, every table of hashes and every     *)
(* behaviour of the programs that compete for the ports.                   *)
(***************************************************************************)
THEOREM PublishersAreReachable == PortsSpec => []Reachable
  <1>1. PortsInit => PortsInv
    BY PortsAssumption
       DEF PortsInit, PortsInv, PortTypes, BoundIsCandidate, Failed
  <1>2. PortsInv => Reachable
    <2> SUFFICES ASSUME PortsInv, NEW t \in Topics, bound[t] # NoPort, ~Wraps(t)
                 PROVE  bound[t] \in SubscriberPorts(t)
      BY DEF Reachable
    <2>1. PICK i \in 1 .. PortProbeCandidates : bound[t] = PublisherCandidate(t, i)
      BY DEF PortsInv, BoundIsCandidate
    <2>2. NativeCandidate(t, i) = PythonCandidate(t, i)
      BY CandidatesAgree DEF PortsInv
    <2> QED
      BY <2>1, <2>2 DEF PublisherCandidate, SubscriberPorts
  <1> QED
    BY <1>1, <1>2, PortsStep, PTL DEF PortsSpec

-----------------------------------------------------------------------------
(***************************************************************************)
(* Merged URDF.  The clients of one effector take turns; the temporary     *)
(* file of an effector is nobody else's inode, so that only its writer     *)
(* changes it, and what has been renamed or opened for parsing does not    *)
(* change at all.                                                          *)
(***************************************************************************)
UrdfTypes ==
    /\ base \in {<<>>, <<"baked">>}
    /\ effectorOf \in [Clients -> Effectors]
    /\ merged \in [Effectors -> Inodes \cup {NoFile}]
    /\ temp \in [Effectors -> Inodes \cup {NoFile}]
    /\ content = [i \in Inodes |-> content[i]]
    /\ phase \in [Clients -> {"start", "compare", "open", "write", "replace",
                              "prepared", "parsing", "parsed", "raised"}]
    /\ handle \in [Clients -> Inodes \cup {NoFile}]
    /\ seen = [c \in Clients |-> seen[c]]

TakingTurns ==
    \A c, d \in Clients :
        Preparing(c) /\ Preparing(d) /\ effectorOf[c] = effectorOf[d] => c = d

TempIsPrivate ==
    \A e \in Effectors : temp[e] # NoFile =>
        /\ \A f \in Effectors : merged[f] # temp[e] /\ (temp[f] = temp[e] => f = e)
        /\ \A c \in Clients : phase[c] = "parsing" => handle[c] # temp[e]

Own(i, c) == i # NoFile /\ content[i] = <<effectorOf[c]>>

PhaseInv(c) ==
    /\ phase[c] = "write" =>
           handle[c] = temp[effectorOf[c]] /\ handle[c] # NoFile
    /\ phase[c] = "replace" => Own(temp[effectorOf[c]], c)
    /\ phase[c] = "prepared" => Own(merged[effectorOf[c]], c)
    /\ phase[c] = "parsing" => Own(handle[c], c)
    /\ phase[c] = "parsed" => seen[c] = <<effectorOf[c]>>
    /\ phase[c] # "parsed" => seen[c] = Nothing
    /\ phase[c] # "raised"

UrdfInv ==
    UrdfTypes /\ TakingTurns /\ TempIsPrivate /\ \A c \in Clients : PhaseInv(c)

(* One inertial block, whether the base URDF has one or none.                *)
LEMMA MergedText ==
    ASSUME UrdfTypes, NEW c \in Clients
    PROVE  merged_text(c) = <<effectorOf[c]>>
  BY DEF UrdfTypes, merged_text, update_link_inertial

(* Every step of a client, its death and its node's steps keep it, provided  *)
(* that no two clients prepare the same file at once.                        *)
LEMMA UrdfStepKeeps ==
    ASSUME ~Overlapping, UrdfInv, [UrdfNext]_urdfVars
    PROVE  UrdfInv'
  <1> USE UrdfAssumption DEF UrdfInv, UrdfTypes
  <1>1. ASSUME NEW c \in Clients, Begin(c) PROVE UrdfInv'
    BY <1>1, ZenonT(60) DEF Begin, Goto, TakingTurns, TempIsPrivate, PhaseInv, Own, Preparing
  <1>2. ASSUME NEW c \in Clients, Compare(c) PROVE UrdfInv'
    <2>1. CASE Reusable(c)
      <3>1. Own(merged[effectorOf[c]], c)
        BY <2>1, MergedText DEF Reusable, Own
      <3> QED
        BY <1>2, <2>1, <3>1, ZenonT(60)
           DEF Compare, Goto, TakingTurns, TempIsPrivate, PhaseInv, Own, Preparing
    <2>2. CASE ~Reusable(c)
      BY <1>2, <2>2, ZenonT(60)
         DEF Compare, Goto, TakingTurns, TempIsPrivate, PhaseInv, Own, Preparing
    <2> QED
      BY <2>1, <2>2
  <1>3. ASSUME NEW c \in Clients, OpenTemp(c) PROVE UrdfInv'
    <2> DEFINE e == effectorOf[c]
    <2>1. PICK i \in Inodes :
              /\ IF temp[e] = NoFile THEN ~InUse(i) ELSE i = temp[e]
              /\ temp' = [temp EXCEPT ![e] = i]
              /\ handle' = [handle EXCEPT ![c] = i]
              /\ content' = [content EXCEPT ![i] = Truncated]
      BY <1>3 DEF OpenTemp
    <2>2. /\ phase[c] = "open" /\ phase' = [phase EXCEPT ![c] = "write"]
          /\ UNCHANGED <<base, effectorOf, merged, seen>>
      BY <1>3 DEF OpenTemp, Goto
    <2>3. UrdfTypes'
      BY <2>1, <2>2
    <2>4. TakingTurns'
      BY <2>2 DEF TakingTurns, Preparing
    <2>5. /\ \A f \in Effectors : merged[f] # i /\ (temp[f] = i => f = e)
          /\ \A d \in Clients : phase[d] = "parsing" => handle[d] # i
      BY <2>1 DEF InUse, TempIsPrivate
    <2>6. TempIsPrivate'
      BY <2>1, <2>2, <2>5 DEF TempIsPrivate
    <2>7. ASSUME NEW d \in Clients PROVE PhaseInv(d)'
      <3>1. PhaseInv(d) /\ effectorOf[d] \in Effectors /\ e \in Effectors
        OBVIOUS
      <3>2. CASE d = c
        <4>1. phase'[d] = "write" /\ handle'[d] = i /\ temp'[effectorOf'[d]] = i
          BY <2>1, <2>2, <3>1, <3>2
        <4>2. i # NoFile /\ seen'[d] = Nothing
          BY <2>2, <3>1, <3>2 DEF PhaseInv, NoFile
        <4> HIDE DEF UrdfInv, UrdfTypes
        <4> QED
          BY <4>1, <4>2 DEF PhaseInv
      <3>3. CASE d # c
        <4>1. phase[d] \in {"write", "replace"} => effectorOf[d] # e
          BY <2>2, <3>3 DEF TakingTurns, Preparing
        <4>2. phase'[d] = phase[d] /\ handle'[d] = handle[d] /\ seen'[d] = seen[d]
              /\ effectorOf'[d] = effectorOf[d] /\ merged' = merged
          BY <2>1, <2>2, <3>3
        <4>3. phase[d] \in {"write", "replace"} =>
                  temp'[effectorOf[d]] = temp[effectorOf[d]] /\ temp[effectorOf[d]] # i
          BY <2>1, <2>5, <3>1, <4>1
        <4>4. \A k \in Inodes : k # i => content'[k] = content[k]
          BY <2>1
        <4>5. temp[effectorOf[d]] \in Inodes \cup {NoFile}
              /\ merged[effectorOf[d]] \in Inodes \cup {NoFile}
              /\ handle[d] \in Inodes \cup {NoFile}
          BY <3>1
        <4>6. phase[d] = "replace" => Own(temp[effectorOf[d]], d)'
          BY <3>1, <4>2, <4>3, <4>4, <4>5 DEF PhaseInv, Own
        <4>7. phase[d] = "prepared" => Own(merged[effectorOf[d]], d)'
          BY <2>5, <3>1, <4>2, <4>4, <4>5 DEF PhaseInv, Own
        <4>8. phase[d] = "parsing" => Own(handle[d], d)'
          BY <2>5, <3>1, <4>2, <4>4, <4>5 DEF PhaseInv, Own
        <4> HIDE DEF UrdfInv, UrdfTypes
        <4> QED
          BY <3>1, <4>2, <4>3, <4>6, <4>7, <4>8 DEF PhaseInv
      <3> QED
        BY <3>2, <3>3
    <2> QED
      BY <2>3, <2>4, <2>6, <2>7
  <1>4. ASSUME NEW c \in Clients, WriteTemp(c) PROVE UrdfInv'
    <2> DEFINE e == effectorOf[c]
    <2>1. /\ phase[c] = "write" /\ phase' = [phase EXCEPT ![c] = "replace"]
          /\ content' = [content EXCEPT ![temp[e]] = <<e>>]
          /\ handle' = [handle EXCEPT ![c] = NoFile]
          /\ UNCHANGED <<base, effectorOf, merged, temp, seen>>
      BY <1>4, MergedText DEF WriteTemp, Goto, PhaseInv
    <2>2. temp[e] \in Inodes
      BY <2>1 DEF PhaseInv
    <2>3. UrdfTypes' /\ TakingTurns' /\ TempIsPrivate'
      <3>1. UrdfTypes'
        BY <2>1
      <3>2. TakingTurns'
        BY <2>1 DEF TakingTurns, Preparing
      <3>3. \A d \in Clients : phase'[d] = "parsing" =>
                phase[d] = "parsing" /\ handle'[d] = handle[d]
        BY <2>1
      <3>4. TempIsPrivate'
        BY <2>1, <3>3 DEF TempIsPrivate
      <3> QED
        BY <3>1, <3>2, <3>4
    <2>4. ASSUME NEW d \in Clients PROVE PhaseInv(d)'
      <3>1. PhaseInv(d) /\ effectorOf[d] \in Effectors /\ e \in Effectors
        OBVIOUS
      <3>2. CASE d = c
        <4>1. phase'[d] = "replace" /\ content'[temp[e]] = <<e>> /\ temp[e] # NoFile
          BY <2>1, <2>2, <3>2 DEF NoFile
        <4>2. seen'[d] = Nothing
          BY <2>1, <3>1, <3>2 DEF PhaseInv
        <4> HIDE DEF UrdfInv, UrdfTypes
        <4> QED
          BY <2>1, <3>2, <4>1, <4>2 DEF PhaseInv, Own
      <3>3. CASE d # c
        <4>1. phase[d] \in {"write", "replace"} => effectorOf[d] # e
          BY <2>1, <3>3 DEF TakingTurns, Preparing
        <4>2. phase'[d] = phase[d] /\ handle'[d] = handle[d] /\ seen'[d] = seen[d]
              /\ effectorOf' = effectorOf /\ merged' = merged /\ temp' = temp
          BY <2>1, <3>3
        <4>3. \A k \in Inodes : k # temp[e] => content'[k] = content[k]
          BY <2>1
        <4>4. temp[effectorOf[d]] \in Inodes \cup {NoFile}
              /\ merged[effectorOf[d]] \in Inodes \cup {NoFile}
              /\ handle[d] \in Inodes \cup {NoFile}
          BY <3>1
        <4>5. temp[e] # NoFile
          BY <2>2 DEF NoFile
        <4>6. /\ merged[effectorOf[d]] # temp[e]
              /\ temp[effectorOf[d]] = temp[e] => effectorOf[d] = e
              /\ phase[d] = "parsing" => handle[d] # temp[e]
          BY <3>1, <4>5 DEF TempIsPrivate
        <4> HIDE DEF UrdfInv, UrdfTypes
        <4>7. phase[d] = "replace" => Own(temp[effectorOf[d]], d)'
          BY <3>1, <4>1, <4>2, <4>3, <4>4, <4>6 DEF PhaseInv, Own
        <4>8. phase[d] = "prepared" => Own(merged[effectorOf[d]], d)'
          BY <3>1, <4>2, <4>3, <4>4, <4>6 DEF PhaseInv, Own
        <4>9. phase[d] = "parsing" => Own(handle[d], d)'
          BY <3>1, <4>2, <4>3, <4>4, <4>6 DEF PhaseInv, Own
        <4> QED
          BY <3>1, <4>2, <4>7, <4>8, <4>9 DEF PhaseInv
      <3> QED
        BY <3>2, <3>3
    <2> QED
      BY <2>3, <2>4
  <1>5. ASSUME NEW c \in Clients, Replace(c) PROVE UrdfInv'
    <2> DEFINE e == effectorOf[c]
    <2>1. phase[c] = "replace" /\ Own(temp[e], c)
      BY <1>5 DEF Replace, PhaseInv
    <2>2. /\ merged' = [merged EXCEPT ![e] = temp[e]]
          /\ temp' = [temp EXCEPT ![e] = NoFile]
          /\ phase' = [phase EXCEPT ![c] = "prepared"]
          /\ UNCHANGED <<base, effectorOf, content, handle, seen>>
      BY <1>5, <2>1 DEF Replace, Goto, Own
    <2>3. UrdfTypes' /\ TakingTurns'
      BY <2>1, <2>2 DEF TakingTurns, Preparing
    <2>4. TempIsPrivate'
      BY <2>1, <2>2 DEF TempIsPrivate, Own
    <2>5. ASSUME NEW d \in Clients PROVE PhaseInv(d)'
      <3>1. d # c /\ phase[d] \in {"write", "replace"} => effectorOf[d] # e
        BY <2>1 DEF TakingTurns, Preparing
      <3> QED
        BY <2>1, <2>2, <3>1 DEF PhaseInv, Own
    <2> QED
      BY <2>3, <2>4, <2>5
  <1>6. ASSUME NEW c \in Clients, Die(c) PROVE UrdfInv'
    BY <1>6, ZenonT(60) DEF Die, Goto, TakingTurns, TempIsPrivate, PhaseInv, Own, Preparing
  <1>7. ASSUME NEW c \in Clients, NodeOpens(c) PROVE UrdfInv'
    <2>1. Own(merged[effectorOf[c]], c)
      BY <1>7 DEF NodeOpens, PhaseInv
    <2>2. UrdfTypes' /\ TakingTurns'
      BY <1>7 DEF NodeOpens, Goto, TakingTurns, Preparing
    <2>3. TempIsPrivate'
      BY <1>7, <2>1 DEF NodeOpens, Goto, TempIsPrivate, Own
    <2>4. \A d \in Clients : PhaseInv(d)'
      BY <1>7, <2>1 DEF NodeOpens, Goto, PhaseInv, Own
    <2> QED
      BY <2>2, <2>3, <2>4
  <1>8. ASSUME NEW c \in Clients, NodeParses(c) PROVE UrdfInv'
    BY <1>8, ZenonT(60) DEF NodeParses, Goto, TakingTurns, TempIsPrivate, PhaseInv, Own, Preparing
  <1>9. CASE UNCHANGED urdfVars
    BY <1>9, ZenonT(60) DEF urdfVars, TakingTurns, TempIsPrivate, PhaseInv, Own, Preparing
  <1> QED
    BY <1>1, <1>2, <1>3, <1>4, <1>5, <1>6, <1>7, <1>8, <1>9
       DEF UrdfNext, UrdfStep, UrdfEnded

(***************************************************************************)
(* A node computes gravity with its own effector's inertia, exactly once   *)
(* (InertiaOnce), and no reader sees a truncated file (NeverTruncated),    *)
(* for every number of clients, effectors and left-behind files, if the    *)
(* clients of one effector prepare their file one after the other.         *)
(***************************************************************************)
THEOREM OwnInertia ==
    ASSUME ~Overlapping, "truncated" \notin Effectors
    PROVE  UrdfSpec => [](InertiaOnce /\ NeverTruncated)
  <1>1. UrdfInit => UrdfInv
    BY UrdfAssumption
       DEF UrdfInit, UrdfInv, UrdfTypes, LeftBehind, TakingTurns, TempIsPrivate,
           PhaseInv, Own, Preparing
  <1>2. UrdfInv /\ [UrdfNext]_urdfVars => UrdfInv'
    BY UrdfStepKeeps
  <1>3. UrdfInv => InertiaOnce /\ NeverTruncated
    BY DEF UrdfInv, PhaseInv, InertiaOnce, NeverTruncated, Nothing, Truncated, UrdfTypes
  <1> QED
    BY <1>1, <1>2, <1>3, PTL DEF UrdfSpec

-----------------------------------------------------------------------------
(***************************************************************************)
(* Launch.  What each stage of the bring-up has established about the      *)
(* order; a motor that is under power has passed them all.                 *)
(***************************************************************************)
LaunchTypes ==
    /\ order \in Orders
    /\ client \in {"building", "checking", "waiting", "connected", "closing", "ended", "gone"}
    /\ node \in {"none", "parsing", "creating", "opening", "starting", "verifying",
                 "running", "exited"}
    /\ exitCode \in {NoExit, 0, 1, 2, -1, -9}
    /\ terminate \in BOOLEAN /\ monitoring \in BOOLEAN /\ busOpen \in BOOLEAN
    /\ powered \in BOOLEAN /\ killed \in BOOLEAN
    /\ compensation \in {"off", "model", "vendor"}

Accepted == ConfigAccepted(order) /\ ConnectAccepted(order)

DeviceMade == DeviceAccepted(Args) /\ compensation = Compensation(Args)

OnTheBus == {"starting", "verifying", "running"}

StageInv ==
    /\ client \in {"building", "checking"} => node = "none"
    /\ node = "none" => client \in {"building", "checking", "ended"}
    /\ client = "checking" => ConfigAccepted(order)
    /\ node # "none" => Accepted
    /\ node \in {"creating", "opening"} \cup OnTheBus => ArgsAccepted(Args)
    /\ node \in {"opening"} \cup OnTheBus => DeviceMade
    /\ node \in OnTheBus => BusOpens(order) /\ busOpen
    /\ exitCode = 2 => Accepted /\ ~ArgsAccepted(Args)

PowerInv ==
    /\ powered => /\ node \in OnTheBus \/ (node = "exited" /\ killed)
                  /\ Accepted /\ ArgsAccepted(Args) /\ DeviceMade /\ BusOpens(order)
                  /\ ~ReadOnly(order.model)
    /\ busOpen => node \in OnTheBus \/ killed

LaunchInv == LaunchTypes /\ StageInv /\ PowerInv

(* The node reads from its command line what the client's order says.        *)
LEMMA ArgsFields ==
    ASSUME order \in Orders
    PROVE  /\ Args.role = order.role /\ Args.model = order.model
           /\ Args.level = order.level /\ Args.files = order.files
           /\ Args.rescale = order.rescale /\ Args.effector = order.effector
           /\ Args.algo = IF order.link = "fr3" THEN "None" ELSE "Pinocchio"
           /\ Args.urdf = (order.link # "fr3") /\ Args.fr3Address = (order.link = "fr3")
           /\ order.link = "fr3" => Args.timeoutMs = TimeoutMs(order)
           /\ {"role", "model"} \subseteq DOMAIN Args
           /\ order.link # "fr3" => "controlPort" \in DOMAIN Args
           /\ order.role = "follower" => Args.followerGravity = order.gravity
           /\ order.role = "leader" => Args.leaderGravity = LeaderGravity(order)
  <1> DEFINE C == CommandLine(order)
             D == C \cup DOMAIN OptionDefaults
  <1>1. \A x \in C : x \in D /\ Args[x] = Written(order)[x]
    BY DEF Args
  <1>2. \A x \in DOMAIN OptionDefaults : x \notin C => Args[x] = OptionDefaults[x]
    BY DEF Args
  <1>3. DOMAIN Args = D
    BY DEF Args
  <1> HIDE DEF D
  <1>4. {"role", "model", "level", "files", "algo"} \subseteq C
    BY DEF CommandLine
  <1>5. /\ Args.role = order.role /\ Args.model = order.model
        /\ Args.level = order.level /\ Args.files = order.files
        /\ Args.algo = IF order.link = "fr3" THEN "None" ELSE "Pinocchio"
    BY <1>1, <1>4 DEF Written
  <1>6. {"role", "model"} \subseteq DOMAIN Args
    BY <1>1, <1>3, <1>4
  <1>7. /\ order.link # "fr3" => "controlPort" \in C /\ "urdf" \in C
        /\ order.link = "fr3" => "fr3Address" \in C /\ "timeoutMs" \in C
        /\ order.link # "fr3" => "fr3Address" \notin C
        /\ order.link = "fr3" => "urdf" \notin C
    BY DEF CommandLine, ConnectionArgs, If
  <1>8. /\ order.rescale # "none" <=> "rescale" \in C
        /\ order.effector # "none" <=> "effector" \in C
        /\ order.role = "follower" => (order.gravity # "config" <=> "followerGravity" \in C)
        /\ order.role = "leader" => (LeaderGravity(order) <=> "leaderGravity" \in C)
    BY DEF CommandLine, ConnectionArgs, If
  <1> HIDE DEF C
  <1>9. Args.urdf = (order.link # "fr3") /\ Args.fr3Address = (order.link = "fr3")
    BY <1>1, <1>2, <1>7 DEF Written, OptionDefaults
  <1>10. order.link = "fr3" => Args.timeoutMs = TimeoutMs(order)
    BY <1>1, <1>7 DEF Written
  <1>11. order.link # "fr3" => "controlPort" \in DOMAIN Args
    BY <1>1, <1>3, <1>7
  <1>12. Args.rescale = order.rescale
    BY <1>1, <1>2, <1>8 DEF Written, OptionDefaults
  <1>13. Args.effector = order.effector
    BY <1>1, <1>2, <1>8 DEF Written, OptionDefaults
  <1>14. order.role = "follower" => Args.followerGravity = order.gravity
    BY <1>1, <1>2, <1>8 DEF Written, OptionDefaults
  <1>15. order.role = "leader" => Args.leaderGravity = LeaderGravity(order)
    BY <1>1, <1>2, <1>8 DEF Written, OptionDefaults, LeaderGravity
  <1> QED
    BY <1>5, <1>6, <1>9, <1>10, <1>11, <1>12, <1>13, <1>14, <1>15

(* The two validators agree, but for the three values that they check        *)
(* differently.                                                              *)
LEMMA AcceptedArgs ==
    ASSUME order \in Orders, Accepted, ~ArgsAccepted(Args)
    PROVE  \/ order.rescale = "huge"
           \/ order.model = "FR3" /\ order.gripper = "brief"
           \/ order.level > 3
  <1>1. order.link = "fr3" <=> order.model = "FR3"
    BY DEF Accepted, ConfigAccepted
  <1>2. RequiredGiven(Args) /\ FilesGiven(Args)
    BY ArgsFields, <1>1 DEF RequiredGiven, FilesGiven
  <1>3. LevelValid(Args) \/ order.level > 3
    BY ArgsFields, LaunchAssumption DEF LevelValid
  <1>4. parse_torq_rescale_csv(Args) \/ order.rescale = "huge"
    BY ArgsFields DEF parse_torq_rescale_csv, Accepted, ConfigAccepted,
                      RescaleIsNonNegative
  <1>5. Fr3Valid(Args) \/ (order.model = "FR3" /\ order.gripper = "brief")
    <2>1. order.link = "fr3" => order.role = "follower"
      BY DEF Accepted, ConnectAccepted
    <2>2. CASE order.model = "FR3" /\ order.gripper # "brief"
      <3>1. Args.timeoutMs = 200
        BY ArgsFields, <1>1, <2>2 DEF TimeoutMs
      <3>2. Args.fr3Address /\ Args.role = "follower"
        BY ArgsFields, <1>1, <2>1, <2>2
      <3> QED
        BY <3>1, <3>2 DEF Fr3Valid
    <2> QED
      BY ArgsFields, <2>2 DEF Fr3Valid
  <1> QED
    BY <1>2, <1>3, <1>4, <1>5 DEF ArgsAccepted

(* An order that a device has accepted on a bus of its own kind can be       *)
(* honoured.                                                                 *)
LEMMA MadeAsOrdered ==
    ASSUME order \in Orders, Accepted, ArgsAccepted(Args), DeviceMade, BusOpens(order)
    PROVE  /\ ~(order.role = "follower" /\ (ReadOnly(order.model) \/ order.effector = "handle"))
           /\ order.model # "FR3" => order.rescale \in {"none", "fits"}
           /\ order.link = LinkOf(order.model)
           /\ order.model # "FR3" => order.files \notin {"missing", "noBase"}
           /\ order.model = "SO101" /\ order.role = "follower" => order.gravity # "true"
           /\ order.model = "Yam" =>
               (compensation = "model" <=>
                   IF order.role = "leader" THEN order.leaderGravity # "off"
                   ELSE order.gravity # "false")
  <1> USE ArgsFields, LaunchAssumption
  <1>1. ~ReadOnlyFollower(Args) /\ AlgoInits(Args) /\ ArmInitAccepted(Args)
        /\ compensation = Compensation(Args)
    BY DEF DeviceMade, DeviceAccepted
  <1>2. /\ order.link = "fr3" <=> order.model = "FR3"
        /\ order.model = "FR3" => order.effector = "robotiq"
        /\ order.rescale # "negative"
        /\ order.files # "missing"
    BY DEF Accepted, ConfigAccepted, ConnectAccepted, resolve_model_assets,
           RescaleIsNonNegative
  <1>3. ~(order.role = "follower" /\ (ReadOnly(order.model) \/ order.effector = "handle"))
    BY <1>1, <1>2 DEF ReadOnlyFollower, ArmInitAccepted, ReadOnlyEffector
  <1>4. order.model # "FR3" => order.rescale \in {"none", "fits"}
    BY <1>1, <1>2 DEF ArmInitAccepted, ArgsAccepted, parse_torq_rescale_csv
  <1>5. order.model # "FR3" => order.files \notin {"missing", "noBase"}
    BY <1>1, <1>2 DEF AlgoInits, new_algo
  <1>6. order.model = "SO101" /\ order.role = "follower" => order.gravity # "true"
    <2> SUFFICES ASSUME order.model = "SO101", order.role = "follower",
                        order.gravity = "true"
                 PROVE  FALSE
      OBVIOUS
    <2>1. GravityRequested(Args) /\ GravityHonoured(Args)
      BY <1>1 DEF GravityRequested, ArmInitAccepted
    <2>2. LinkOf(Args.model) = "serial"
      BY DEF LinkOf
    <2> QED
      BY <2>1, <2>2 DEF GravityHonoured, supports_torque_feed_forward, new_device
  <1>7. order.model = "Yam" =>
            (compensation = "model" <=>
                IF order.role = "leader" THEN order.leaderGravity # "off"
                ELSE order.gravity # "false")
    BY <1>1 DEF Compensation, GravityRequested, LeaderGravity, ReadOnly,
                FollowerGravityDefault
  <1> QED
    BY <1>3, <1>4, <1>5, <1>6, <1>7 DEF BusOpens

(* The client's steps and the monitor's change neither the order nor what    *)
(* the node has made of it.                                                  *)
LEMMA ClientKeeps ==
    ASSUME LaunchInv,
           \/ ClientStep \/ Close \/ ClientDies \/ LoopRuns \/ MonitorSees
           \/ LaunchEnded \/ UNCHANGED launchVars
    PROVE  LaunchInv'
  <1> USE DEF LaunchInv, LaunchTypes, StageInv, PowerInv, OnTheBus
  <1>1. CASE UNCHANGED <<order, killed, nodeVars>> /\ client' = client
             /\ terminate' \in BOOLEAN
    BY <1>1 DEF nodeVars, Accepted, DeviceMade, Args
  <1>2. ASSUME NEW c \in {"checking", "waiting", "connected", "closing", "ended", "gone"},
               ClientTo(c), c = "checking" => ConfigAccepted(order) /\ node = "none",
               node = "none" => c \in {"checking", "ended"}
        PROVE  LaunchInv'
    BY <1>2 DEF ClientTo, nodeVars, Accepted, DeviceMade, Args
  <1>3. CASE Spawn
    <2>1. node = "none" /\ Accepted /\ Accepted' = Accepted /\ Args' = Args
      BY <1>3 DEF Spawn, Accepted, Args
    <2>2. powered = FALSE
      BY <2>1
    <2> QED
      BY <1>3, <2>1, <2>2 DEF Spawn
  <1>4. CASE Kill
    <2>1. node # "none" /\ Accepted' = Accepted /\ Args' = Args
          /\ DeviceMade' = DeviceMade
      BY <1>4 DEF Kill, Accepted, DeviceMade, Args
    <2> QED
      BY <1>4, <2>1 DEF Kill
  <1>5. CASE BuildConfig
    BY <1>2, <1>5 DEF BuildConfig
  <1>6. CASE RefuseConnect \/ Connected \/ NodeStopped \/ ConnectTimeout \/ Close
             \/ ClientDies
    BY <1>2, <1>6 DEF RefuseConnect, Connected, NodeStopped, ConnectTimeout, Close, ClientDies
  <1>7. CASE SendTerminate \/ LoopRuns \/ MonitorSees \/ LaunchEnded
             \/ UNCHANGED launchVars
    BY <1>1, <1>7 DEF SendTerminate, LoopRuns, MonitorSees, LaunchEnded, launchVars,
                      nodeVars
  <1> QED
    BY <1>3, <1>4, <1>5, <1>6, <1>7 DEF ClientStep

(* A stage that the node passes leaves what it has checked behind; one that  *)
(* it fails parks the motors before the bus closes.                          *)
LEMMA NodeKeeps ==
    ASSUME LaunchInv, NodeStep \/ LoopStops \/ LoopThrows
    PROVE  LaunchInv'
  <1> USE DEF LaunchInv, LaunchTypes, StageInv, PowerInv, OnTheBus
  <1>1. UNCHANGED <<order, client, terminate, killed>>
    BY DEF NodeStep, RefuseArgs, ParseArgs, BindThrows, RefuseDevice, InitDevice,
           OpenFails, Open, StartHardware, StartFails, Started, VerifyFails, Verify,
           LoopEnds, LoopStops, LoopThrows, LeaveLoop, Exit, To
  <1>2. Args' = Args /\ Accepted' = Accepted
    BY <1>1 DEF Args, Accepted
  <1>3. node # "none" /\ node # "exited"
    BY DEF NodeStep, RefuseArgs, ParseArgs, BindThrows, RefuseDevice, InitDevice,
           OpenFails, Open, StartHardware, StartFails, Started, VerifyFails, Verify,
           LoopEnds, LoopStops, LoopThrows
  <1>4. ASSUME NEW code \in {0, 1, 2, -1}, node' = "exited", exitCode' = code,
               powered' = StillPowered, busOpen' = FALSE,
               UNCHANGED <<monitoring, compensation>>,
               code = 2 => ~ArgsAccepted(Args)
        PROVE  LaunchInv'
    <2>1. powered' = FALSE
      BY <1>3, <1>4 DEF StillPowered
    <2> QED
      BY <1>1, <1>2, <1>3, <1>4, <2>1
  <1> HIDE DEF LaunchInv, LaunchTypes, StageInv, PowerInv, OnTheBus
  <1>5. CASE RefuseArgs \/ BindThrows \/ RefuseDevice \/ OpenFails \/ VerifyFails
             \/ LoopThrows
    <2>1. PICK code \in {1, 2, -1} : Exit(code) /\ (code = 2 => ~ArgsAccepted(Args))
      BY <1>5 DEF RefuseArgs, BindThrows, RefuseDevice, OpenFails, VerifyFails, LoopThrows
    <2> QED
      BY <1>4, <2>1 DEF Exit
  <1>6. CASE StartFails \/ LoopEnds \/ LoopStops
    <2>1. PICK code \in {0, -1} : node' = "exited" /\ exitCode' = code /\ stop
                                  /\ UNCHANGED <<monitoring, compensation>>
      BY <1>6 DEF StartFails, LoopEnds, LoopStops, LeaveLoop
    <2>2. code # 2 /\ code \in {0, 1, 2, -1}
      OBVIOUS
    <2> QED
      BY <1>4, <2>1, <2>2, Zenon DEF stop
  <1> USE DEF LaunchInv, LaunchTypes, StageInv, PowerInv, OnTheBus
  <1>7. CASE ParseArgs
    BY <1>1, <1>2, <1>7 DEF ParseArgs, To, StartMonitor
  <1>8. CASE InitDevice
    <2>1. Compensation(Args) \in {"off", "model", "vendor"}
      BY DEF Compensation
    <2>2. DeviceMade'
      BY <1>2, <1>8 DEF InitDevice, DeviceMade
    <2> QED
      BY <1>1, <1>2, <1>8, <2>1, <2>2 DEF InitDevice, To
  <1>9. CASE Open \/ StartHardware \/ Started \/ Verify
    <2>1. DeviceMade /\ DeviceMade'
      BY <1>2, <1>9 DEF Open, StartHardware, Started, Verify, DeviceMade
    <2>2. CASE Open
      BY <1>1, <1>2, <2>1, <2>2 DEF Open, To
    <2>3. CASE StartHardware
      BY <1>1, <1>2, <2>1, <2>3 DEF StartHardware, To
    <2>4. CASE Started \/ Verify
      BY <1>1, <1>2, <2>1, <2>4 DEF Started, Verify, To
    <2> QED
      BY <1>9, <2>2, <2>3, <2>4
  <1> QED
    BY <1>5, <1>6, <1>7, <1>8, <1>9 DEF NodeStep

(***************************************************************************)
(* Motors are powered as ordered (PowerAsOrdered), for every set of        *)
(* orders: the node refuses nothing that the client has accepted but for   *)
(* the three values named, enables no motor for an order that cannot be    *)
(* honoured, and leaves none enabled unless it is killed.                  *)
(***************************************************************************)
THEOREM PoweredAsTheOrderSays == LaunchSpec => []PowerAsOrdered
  <1>1. LaunchInit => LaunchInv
    <2> SUFFICES ASSUME LaunchInit PROVE LaunchInv
      OBVIOUS
    <2>1. LaunchTypes
      BY DEF LaunchInit, LaunchTypes
    <2>2. StageInv
      BY DEF LaunchInit, StageInv, OnTheBus, NoExit
    <2>3. PowerInv
      BY DEF LaunchInit, PowerInv
    <2> QED
      BY <2>1, <2>2, <2>3 DEF LaunchInv
  <1>2. LaunchInv /\ [LaunchNext]_launchVars => LaunchInv'
    BY ClientKeeps, NodeKeeps DEF LaunchNext
  <1>3. LaunchInv => PowerAsOrdered
    <2> SUFFICES ASSUME LaunchInv PROVE PowerAsOrdered
      OBVIOUS
    <2>1. LaunchTypeOK
      BY DEF LaunchInv, LaunchTypes, PowerInv, LaunchTypeOK, OnTheBus
    <2>2. ValidatorsAgree
      BY AcceptedArgs DEF LaunchInv, LaunchTypes, StageInv, ValidatorsAgree
    <2>3. PoweredAsOrdered
      BY MadeAsOrdered DEF LaunchInv, LaunchTypes, PowerInv, PoweredAsOrdered
    <2>4. NoTorqueLeftBehind
      BY DEF LaunchInv, PowerInv, NoTorqueLeftBehind, OnTheBus
    <2> QED
      BY <2>1, <2>2, <2>3, <2>4 DEF PowerAsOrdered
  <1> QED
    BY <1>1, <1>2, <1>3, PTL DEF LaunchSpec

-----------------------------------------------------------------------------
(***************************************************************************)
(* Configuration.  What is loaded is, at every stage, given by the entries *)
(* read so far, and every one of them was accepted.                        *)
(***************************************************************************)
(* The entries of one joint in both files and what they load to.            *)
IsJointEntry(entry) ==
    /\ IsEntry(entry.joint)
    /\ IsSequence(entry.servos)
    /\ \A k \in DOMAIN entry.servos : IsEntry(entry.servos[k])

(* What is loaded of a joint so far: everything up to the individual file's  *)
(* entry that is next is overridden.                                         *)
LoadedJoint(i) ==
    IF stage = "model" \/ (stage = "individual" /\ i >= at) THEN Loaded(modelFile.joints[i])
    ELSE Overridden(Loaded(modelFile.joints[i]), individualFile.joints[i])

LoadedCount == IF stage = "model" THEN at - 1 ELSE Len(modelFile.joints)

ConfigTypes ==
    /\ modelFile \in ModelFiles /\ individualFile \in IndividualFiles
    /\ stage \in {"model", "individual", "starting", "running", "refused"}
    /\ at \in Nat \ {0}
    /\ garbage \in Int /\ truth \in Int /\ lost \in Int
    /\ wrap \in [done : BOOLEAN, offset : Int]

LoadedSoFar ==
    stage # "refused" =>
        /\ joints = [i \in 1 .. LoadedCount |-> LoadedJoint(i)]
        /\ LoadedCount \in 0 .. Len(modelFile.joints)
        /\ \A i \in 1 .. LoadedCount : EntryAccepted(modelFile.joints[i])
        /\ registered = UNION {EntryIds(modelFile.joints[i]) : i \in 1 .. LoadedCount}

OverriddenSoFar ==
    /\ stage = "individual" =>
        \A i \in 1 .. at - 1 :
            /\ i <= Len(modelFile.joints) /\ i <= Len(individualFile.joints)
            /\ IndividualAccepted(Loaded(modelFile.joints[i]), individualFile.joints[i])
    /\ Ready =>
        \A i \in 1 .. LoadedCount :
            IndividualAccepted(Loaded(modelFile.joints[i]), individualFile.joints[i])
    /\ Ready => Len(modelFile.joints) = Len(individualFile.joints)
    /\ stage \in {"individual", "starting", "running"} => modelFile.joints # <<>>

ConfigInv ==
    /\ ConfigTypes /\ LoadedSoFar /\ OverriddenSoFar
    /\ stage = "refused" => registered = {}
    /\ stage \notin {"running", "refused"} => ~wrap.done

(* A file is a sequence of entries.                                          *)
LEMMA FileIsSequence ==
    ASSUME NEW file, IsFile(file)
    PROVE  /\ Len(file.joints) \in Nat
           /\ DOMAIN file.joints = 1 .. Len(file.joints)
           /\ file.joints = <<>> <=> Len(file.joints) = 0
           /\ \A i \in 1 .. Len(file.joints) : IsJointEntry(file.joints[i])
  <1> DEFINE S == {file.joints[i] : i \in DOMAIN file.joints}
  <1>1. file.joints \in Seq(S)
    BY DEF IsFile, IsSequence
  <1>2. Len(file.joints) \in Nat /\ DOMAIN file.joints = 1 .. Len(file.joints)
    BY <1>1
  <1>3. file.joints = <<>> <=> Len(file.joints) = 0
    BY <1>1, EmptySeq
  <1> QED
    BY <1>2, <1>3 DEF IsFile, IsJointEntry

(* So are the servos of an entry.                                            *)
LEMMA EntryIsSequence ==
    ASSUME NEW entry, IsJointEntry(entry)
    PROVE  /\ Len(entry.servos) \in Nat
           /\ DOMAIN entry.servos = 1 .. Len(entry.servos)
           /\ entry.servos = <<>> <=> Len(entry.servos) = 0
  <1> DEFINE S == {entry.servos[i] : i \in DOMAIN entry.servos}
  <1>1. entry.servos \in Seq(S)
    BY DEF IsJointEntry, IsSequence
  <1>2. Len(entry.servos) \in Nat /\ DOMAIN entry.servos = 1 .. Len(entry.servos)
    BY <1>1
  <1>3. entry.servos = <<>> <=> Len(entry.servos) = 0
    BY <1>1, EmptySeq
  <1> QED
    BY <1>2, <1>3

(* A function on an initial segment is a sequence of that length.            *)
LEMMA LoadedServos ==
    ASSUME NEW entry, IsJointEntry(entry)
    PROVE  /\ DOMAIN Loaded(entry).servos = 1 .. Len(entry.servos)
           /\ Len(Loaded(entry).servos) = Len(entry.servos)
  <1>1. Len(entry.servos) \in Nat /\ DOMAIN entry.servos = 1 .. Len(entry.servos)
    BY EntryIsSequence
  <1> QED
    BY <1>1 DEF Loaded

(* Every field of the joint's values is an integer.                          *)
LEMMA OverlayTypes ==
    ASSUME NEW values, values \in [DOMAIN values -> Int], NEW entry, IsEntry(entry)
    PROVE  /\ Overlay(values, entry) \in [DOMAIN values \cup DOMAIN entry -> Int]
           /\ DOMAIN Overlay(values, entry) = DOMAIN values \cup DOMAIN entry
           /\ \A f \in DOMAIN values \cup DOMAIN entry :
                Overlay(values, entry)[f] = IF f \in DOMAIN entry THEN entry[f] ELSE values[f]
  BY DEF Overlay, IsEntry

(* The fallback changes the follower's slew limit and nothing else.          *)
LEMMA FallBackTypes ==
    ASSUME NEW values, values \in [DOMAIN values -> Int], NEW given,
           "follow" \in DOMAIN values, "vel" \in DOMAIN values
    PROVE  /\ FallBack(values, given) \in [DOMAIN values -> Int]
           /\ DOMAIN FallBack(values, given) = DOMAIN values
           /\ \A f \in DOMAIN values :
                FallBack(values, given)[f] =
                    IF f = "follow" /\ "follow" \notin given THEN values["vel"] ELSE values[f]
  BY DEF FallBack

JointMembers == {"accel", "rescale", "vel", "follow", "damping", "grip", "ref",
                 "normMin", "normMax"}

(* What a model entry and an override of it make of the joint's members.     *)
LEMMA ModelJointTypes ==
    ASSUME garbage \in Int, NEW entry, IsEntry(entry)
    PROVE  /\ ModelJoint(entry) \in [DOMAIN ModelJoint(entry) -> Int]
           /\ JointMembers \subseteq DOMAIN ModelJoint(entry)
           /\ \A f \in {"vel", "accel", "rescale"} :
                ModelJoint(entry)[f] =
                    IF f \in DOMAIN entry THEN entry[f] ELSE IF f = "vel" THEN 0 ELSE garbage
           /\ "follow" \in DOMAIN entry => ModelJoint(entry)["follow"] = entry["follow"]
  <1>1. /\ NewJoint \in [DOMAIN NewJoint -> Int]
        /\ DOMAIN NewJoint = JointMembers
        /\ NewJoint["vel"] = 0 /\ NewJoint["accel"] = garbage /\ NewJoint["rescale"] = garbage
    BY DEF NewJoint, JointMembers
  <1> DEFINE values == Overlay(NewJoint, entry)
  <1>2. /\ values \in [JointMembers \cup DOMAIN entry -> Int]
        /\ DOMAIN values = JointMembers \cup DOMAIN entry
        /\ \A f \in JointMembers \cup DOMAIN entry :
             values[f] = IF f \in DOMAIN entry THEN entry[f] ELSE NewJoint[f]
    BY <1>1, OverlayTypes
  <1>3. ModelJoint(entry) = FallBack(values, DOMAIN entry)
    BY DEF ModelJoint
  <1> HIDE DEF values
  <1>4. /\ "vel" \in DOMAIN values /\ "follow" \in DOMAIN values
        /\ values \in [DOMAIN values -> Int]
    BY <1>2 DEF JointMembers
  <1>5. /\ ModelJoint(entry) \in [DOMAIN values -> Int]
        /\ DOMAIN ModelJoint(entry) = DOMAIN values
        /\ \A f \in DOMAIN values :
             ModelJoint(entry)[f] =
                 IF f = "follow" /\ "follow" \notin DOMAIN entry THEN values["vel"] ELSE values[f]
    BY <1>3, <1>4, FallBackTypes
  <1> QED
    BY <1>1, <1>2, <1>5 DEF JointMembers

(* The individual file's entry over a loaded joint.                          *)
LEMMA OverriddenJointTypes ==
    ASSUME garbage \in Int, NEW m, IsJointEntry(m), NEW o, IsJointEntry(o)
    PROVE  LET values == OverriddenJoint(Loaded(m), o.joint) IN
           /\ values \in [DOMAIN values -> Int]
           /\ JointMembers \subseteq DOMAIN values
           /\ \A f \in {"vel", "accel", "rescale"} :
                values[f] =
                    IF f \in DOMAIN o.joint THEN o.joint[f]
                    ELSE IF f \in DOMAIN m.joint THEN m.joint[f]
                    ELSE IF f = "vel" THEN 0 ELSE garbage
           /\ values["follow"] =
                IF "follow" \in DOMAIN o.joint THEN o.joint["follow"]
                ELSE IF "follow" \in DOMAIN m.joint THEN m.joint["follow"]
                ELSE values["vel"]
  <1> DEFINE before == ModelJoint(m.joint)
             over == Overlay(before, o.joint)
             values == OverriddenJoint(Loaded(m), o.joint)
  <1>0. IsEntry(m.joint) /\ IsEntry(o.joint)
    BY DEF IsJointEntry
  <1>1. /\ before \in [DOMAIN before -> Int]
        /\ JointMembers \subseteq DOMAIN before
        /\ \A f \in {"vel", "accel", "rescale"} :
             before[f] =
                 IF f \in DOMAIN m.joint THEN m.joint[f] ELSE IF f = "vel" THEN 0 ELSE garbage
        /\ "follow" \in DOMAIN m.joint => before["follow"] = m.joint["follow"]
    BY <1>0, ModelJointTypes
  <1>2. Loaded(m).values = before /\ Loaded(m).given = DOMAIN m.joint
    BY DEF Loaded
  <1>3. values = FallBack(over, DOMAIN m.joint \cup DOMAIN o.joint)
    BY <1>2 DEF OverriddenJoint
  <1> HIDE DEF before, values
  <1>4. /\ over \in [DOMAIN before \cup DOMAIN o.joint -> Int]
        /\ DOMAIN over = DOMAIN before \cup DOMAIN o.joint
        /\ \A f \in DOMAIN before \cup DOMAIN o.joint :
             over[f] = IF f \in DOMAIN o.joint THEN o.joint[f] ELSE before[f]
    BY <1>0, <1>1, OverlayTypes
  <1> HIDE DEF over
  <1>5. /\ "vel" \in DOMAIN over /\ "follow" \in DOMAIN over
        /\ over \in [DOMAIN over -> Int]
    BY <1>1, <1>4 DEF JointMembers
  <1>6. /\ values \in [DOMAIN over -> Int]
        /\ DOMAIN values = DOMAIN over
        /\ \A f \in DOMAIN over :
             values[f] =
                 IF f = "follow" /\ "follow" \notin DOMAIN m.joint \cup DOMAIN o.joint
                 THEN over["vel"] ELSE over[f]
    BY <1>3, <1>5, FallBackTypes
  <1>7. /\ values \in [DOMAIN values -> Int]
        /\ JointMembers \subseteq DOMAIN values
    BY <1>1, <1>4, <1>6
  <1>8. ASSUME NEW f \in {"vel", "accel", "rescale"}
        PROVE  values[f] =
                    IF f \in DOMAIN o.joint THEN o.joint[f]
                    ELSE IF f \in DOMAIN m.joint THEN m.joint[f]
                    ELSE IF f = "vel" THEN 0 ELSE garbage
    <2>1. f \in DOMAIN over /\ f \in DOMAIN before /\ f # "follow"
      BY <1>1, <1>4 DEF JointMembers
    <2>2. values[f] = over[f]
      BY <2>1, <1>6
    <2>3. over[f] = IF f \in DOMAIN o.joint THEN o.joint[f] ELSE before[f]
      BY <2>1, <1>4
    <2> QED
      BY <2>2, <2>3, <1>1
  <1>9. values["follow"] =
            IF "follow" \in DOMAIN o.joint THEN o.joint["follow"]
            ELSE IF "follow" \in DOMAIN m.joint THEN m.joint["follow"]
            ELSE values["vel"]
    BY <1>1, <1>4, <1>5, <1>6
  <1> QED
    BY <1>7, <1>8, <1>9 DEF values

ServoMembers == {"posMin", "posMax", "dir", "zero", "period"}

(* A servo of an accepted joint turns one way or the other, and a servo with *)
(* a wrap period has limits closer together than that.                       *)
LEMMA OverriddenServoTypes ==
    ASSUME garbage \in Int, NEW m, IsJointEntry(m), NEW o, IsJointEntry(o),
           NEW k \in 1 .. Len(m.servos), DOMAIN o.servos = 1 .. Len(m.servos),
           ServoOverrideAccepted(Loaded(m).servos[k], o.servos[k])
    PROVE  LET values == OverriddenServo(Loaded(m).servos[k], o.servos[k]) IN
           /\ values \in [DOMAIN values -> Int]
           /\ ServoMembers \subseteq DOMAIN values
           /\ values.dir \in {1, -1}
           /\ values.period > 0 =>
                values.posMin < values.posMax /\ values.posMax - values.posMin < values.period
  <1> DEFINE before == Overlay(NewServo, m.servos[k])
             reset == [before EXCEPT !.period = 0]
             values == OverriddenServo(Loaded(m).servos[k], o.servos[k])
  <1>0. IsEntry(m.servos[k]) /\ IsEntry(o.servos[k])
    BY EntryIsSequence DEF IsJointEntry
  <1>1. NewServo \in [DOMAIN NewServo -> Int] /\ DOMAIN NewServo = ServoMembers
    BY DEF NewServo, ServoMembers
  <1>2. before \in [ServoMembers \cup DOMAIN m.servos[k] -> Int]
    BY <1>0, <1>1, OverlayTypes
  <1> HIDE DEF before
  <1>3. /\ reset \in [DOMAIN reset -> Int] /\ ServoMembers \subseteq DOMAIN reset
        /\ reset["period"] = 0
    BY <1>2 DEF ServoMembers
  <1>4. Loaded(m).servos[k].values = before
    BY EntryIsSequence DEF Loaded, before
  <1>5. values = Overlay(reset, o.servos[k])
    BY <1>4 DEF OverriddenServo
  <1> HIDE DEF reset
  <1>6. /\ Overlay(reset, o.servos[k]) \in [DOMAIN reset \cup DOMAIN o.servos[k] -> Int]
        /\ DOMAIN Overlay(reset, o.servos[k]) = DOMAIN reset \cup DOMAIN o.servos[k]
        /\ \A f \in DOMAIN reset \cup DOMAIN o.servos[k] :
                Overlay(reset, o.servos[k])[f] =
                    IF f \in DOMAIN o.servos[k] THEN o.servos[k][f] ELSE reset[f]
    BY <1>0, <1>3, OverlayTypes
  <1>7. values \in [DOMAIN values -> Int] /\ ServoMembers \subseteq DOMAIN values
    BY <1>3, <1>5, <1>6
  <1>8. values["period"] > 0 => "period" \in DOMAIN o.servos[k]
    BY <1>3, <1>5, <1>6 DEF ServoMembers
  <1>9. /\ values.dir \in {1, -1}
        /\ "period" \in DOMAIN o.servos[k] =>
            values.posMin < values.posMax /\ RangeIsNarrow(values)
    BY DEF ServoOverrideAccepted
  <1> QED
    BY <1>7, <1>8, <1>9 DEF RangeIsNarrow

(* The quotient of a number between two neighbouring multiples.              *)
LEMMA Quotient ==
    ASSUME NEW p \in Nat \ {0}, NEW n \in Int, NEW x \in 0 .. p - 1
    PROVE  (x + n * p) \div p = n
  <1> DEFINE a == x + n * p
             q == a \div p
  <1>1. a \in Int /\ n * p \in Int
    OBVIOUS
  <1>2. q \in Int /\ q * p <= a /\ a < q * p + p
    BY <1>1
  <1>3. CASE q < n
    <2>1. (q + 1) * p <= n * p
      BY <1>2, <1>3
    <2> QED
      BY <1>2, <2>1
  <1>4. CASE q > n
    <2>1. (n + 1) * p <= q * p
      BY <1>2, <1>4
    <2> QED
      BY <1>2, <2>1
  <1> QED
    BY <1>2, <1>3, <1>4

ReferenceTypes ==
    /\ {Reference.posMin, Reference.posMax, Reference.zero, Reference.period} \subseteq Int
    /\ Reference.dir \in {1, -1}
    /\ Reference.period > 0 => Reference.posMax - Reference.posMin < Reference.period

(* Whatever the direction and the zero of a servo, its reading is the true   *)
(* position less the lost turns, and commanding a reading asks for the       *)
(* measured position.                                                        *)
LEMMA ReadingIsTruth ==
    ASSUME ReferenceTypes, truth \in Int, lost \in Int, wrap.offset \in Int
    PROVE  /\ BaseRelative = truth - lost * Reference.period
           /\ CommandOf(Relative) = MeasuredAbsolute
  <1> DEFINE d == Reference.dir
             z == Reference.zero
             t == truth - lost * Reference.period
  <1>1. d \in {1, -1} /\ z \in Int /\ t \in Int
    BY DEF ReferenceTypes
  <1>2. BaseRelative = (MeasuredAbsolute - z) * d
    BY DEF BaseRelative
  <1>3. MeasuredAbsolute = t * d + z
    BY DEF MeasuredAbsolute
  <1>4. /\ CommandOf(Relative) = (Relative - wrap.offset) * d + z
        /\ Relative = BaseRelative + wrap.offset
    BY DEF CommandOf, Relative
  <1> HIDE DEF d, z, t
  <1>5. BaseRelative = t
    BY <1>1, <1>2, <1>3
  <1>6. CommandOf(Relative) = MeasuredAbsolute
    BY <1>1, <1>3, <1>4, <1>5
  <1> QED
    BY <1>5, <1>6 DEF t

(* A joint within its limits has lost the one number of turns that brings    *)
(* its reading within them.                                                  *)
LEMMA LostTurnsFound ==
    ASSUME ReferenceTypes, truth \in Int, lost \in Int, wrap.offset \in Int,
           Reference.period > 0, truth \in Reference.posMin .. Reference.posMax
    PROVE  WrapOffset = lost * Reference.period
  <1> DEFINE p == Reference.period
             above == Reference.posMax - truth
             below == truth - Reference.posMin
  <1>1. p \in Nat \ {0} /\ above \in 0 .. p - 1 /\ below \in 0 .. p - 1
    BY DEF ReferenceTypes
  <1>2. BaseRelative = truth - lost * p
    BY ReadingIsTruth
  <1>3. /\ Reference.posMax - BaseRelative = above + lost * p
        /\ -(Reference.posMin - BaseRelative) = below + (-lost) * p
    <2>1. Reference.posMax \in Int /\ Reference.posMin \in Int /\ p \in Int /\ lost * p \in Int
      BY <1>1 DEF ReferenceTypes
    <2>2. (-lost) * p = -(lost * p)
      BY <1>1
    <2> QED
      BY <1>2, <2>1, <2>2
  <1> HIDE DEF above, below, p
  <1>4. (above + lost * p) \div p = lost
    BY <1>1, Quotient
  <1>5. (below + (-lost) * p) \div p = -lost
    BY <1>1, Quotient
  <1>6. Ceiling(Reference.posMin - BaseRelative, p) = lost
    BY <1>3, <1>5 DEF Ceiling
  <1>7. Turns = lost .. lost
    BY <1>3, <1>4, <1>6 DEF Turns, p
  <1>8. Turns = {lost}
    BY <1>7
  <1>9. Cardinality(Turns) = 1
    BY <1>8, FS_Singleton
  <1> QED
    BY <1>8, <1>9 DEF WrapOffset, p

(* The files in force are files.                                             *)
LEMMA FilesAreFiles == ASSUME ConfigTypes PROVE IsFile(modelFile) /\ IsFile(individualFile)
  BY JointConfigAssumption DEF ConfigTypes

(* A joint that drives an arm comes from an entry of each file, both         *)
(* accepted.                                                                 *)
LEMMA ReadyJoint ==
    ASSUME ConfigInv, Ready, NEW i \in DOMAIN joints
    PROVE  /\ DOMAIN joints = 1 .. Len(modelFile.joints) /\ i \in 1 .. Len(modelFile.joints)
           /\ IsJointEntry(modelFile.joints[i]) /\ IsJointEntry(individualFile.joints[i])
           /\ joints[i] = Overridden(Loaded(modelFile.joints[i]), individualFile.joints[i])
           /\ EntryAccepted(modelFile.joints[i])
           /\ IndividualAccepted(Loaded(modelFile.joints[i]), individualFile.joints[i])
  <1>1. IsFile(modelFile) /\ IsFile(individualFile)
    BY FilesAreFiles DEF ConfigInv
  <1>2. stage \notin {"model", "individual", "refused"} /\ LoadedCount = Len(modelFile.joints)
    BY DEF Ready, LoadedCount
  <1>3. joints = [k \in 1 .. Len(modelFile.joints) |-> LoadedJoint(k)]
    BY <1>2 DEF ConfigInv, LoadedSoFar
  <1>4. i \in 1 .. Len(modelFile.joints) /\ DOMAIN joints = 1 .. Len(modelFile.joints)
    BY <1>3
  <1>5. joints[i] = Overridden(Loaded(modelFile.joints[i]), individualFile.joints[i])
    BY <1>2, <1>3, <1>4 DEF LoadedJoint
  <1>6. /\ EntryAccepted(modelFile.joints[i])
        /\ IndividualAccepted(Loaded(modelFile.joints[i]), individualFile.joints[i])
        /\ Len(modelFile.joints) = Len(individualFile.joints)
    BY <1>2, <1>4 DEF ConfigInv, LoadedSoFar, OverriddenSoFar
  <1>7. IsJointEntry(modelFile.joints[i]) /\ IsJointEntry(individualFile.joints[i])
    BY <1>1, <1>4, <1>6, FileIsSequence
  <1> QED
    BY <1>4, <1>5, <1>6, <1>7

(* Its members, one by one.                                                  *)
LEMMA ReadyMembers ==
    ASSUME ConfigInv, Ready, NEW i \in DOMAIN joints
    PROVE  LET m == modelFile.joints[i]
               o == individualFile.joints[i] IN
           /\ joints[i].values = OverriddenJoint(Loaded(m), o.joint)
           /\ joints[i].given = DOMAIN m.joint \cup DOMAIN o.joint
           /\ DOMAIN joints[i].servos = 1 .. Len(m.servos) /\ Len(m.servos) \in Nat
           /\ DOMAIN o.servos = 1 .. Len(m.servos)
           /\ joints[i].values.ref \in 0 .. Len(m.servos) - 1
           /\ \A k \in 1 .. Len(m.servos) :
                /\ joints[i].servos[k].values = OverriddenServo(Loaded(m).servos[k], o.servos[k])
                /\ joints[i].servos[k].given = Loaded(m).servos[k].given \cup DOMAIN o.servos[k]
                /\ ServoOverrideAccepted(Loaded(m).servos[k], o.servos[k])
  <1> DEFINE m == modelFile.joints[i]
             o == individualFile.joints[i]
  <1>1. /\ IsJointEntry(m) /\ IsJointEntry(o)
        /\ joints[i] = Overridden(Loaded(m), o) /\ IndividualAccepted(Loaded(m), o)
    BY ReadyJoint
  <1> HIDE DEF m, o
  <1>2. /\ DOMAIN Loaded(m).servos = 1 .. Len(m.servos)
        /\ Len(Loaded(m).servos) = Len(m.servos) /\ Len(m.servos) \in Nat
    BY <1>1, LoadedServos, EntryIsSequence
  <1>3. /\ joints[i].values = OverriddenJoint(Loaded(m), o.joint)
        /\ joints[i].given = DOMAIN m.joint \cup DOMAIN o.joint
    BY <1>1 DEF Overridden, Loaded
  <1>4. joints[i].servos = [k \in 1 .. Len(m.servos) |->
            [values |-> OverriddenServo(Loaded(m).servos[k], o.servos[k]),
             given |-> Loaded(m).servos[k].given \cup DOMAIN o.servos[k]]]
    BY <1>1, <1>2 DEF Overridden
  <1>5. DOMAIN o.servos = 1 .. Len(m.servos)
    BY <1>1, <1>2, EntryIsSequence DEF IndividualAccepted
  <1>6. joints[i].values.ref \in 0 .. Len(m.servos) - 1
    BY <1>1, <1>2, <1>3 DEF IndividualAccepted, OverrideAccepted
  <1>7. \A k \in 1 .. Len(m.servos) : ServoOverrideAccepted(Loaded(m).servos[k], o.servos[k])
    BY <1>1, <1>2 DEF IndividualAccepted
  <1>8. DOMAIN joints[i].servos = 1 .. Len(m.servos)
    BY <1>4
  <1>9. \A k \in 1 .. Len(m.servos) :
            /\ joints[i].servos[k].values = OverriddenServo(Loaded(m).servos[k], o.servos[k])
            /\ joints[i].servos[k].given = Loaded(m).servos[k].given \cup DOMAIN o.servos[k]
    BY <1>4
  <1> QED
    BY <1>2, <1>3, <1>5, <1>6, <1>7, <1>8, <1>9, Zenon DEF m, o

(* An accepted joint has sane limits.                                        *)
LEMMA LoadedSanity == ASSUME ConfigInv PROVE LoadedIsSane
  <1> SUFFICES ASSUME Ready, NEW i \in DOMAIN joints
      PROVE LET j == joints[i] IN
            /\ j.values.vel > 0 /\ j.values.accel > 0 /\ j.values.follow > 0
            /\ \A s \in DOMAIN j.servos :
                {"posMin", "posMax"} \subseteq j.servos[s].given =>
                    j.servos[s].values.posMin <= j.servos[s].values.posMax
            /\ LET limits == j.servos[j.values.ref + 1] IN
               {"normMin", "normMax"} \subseteq j.given
                    /\ {"posMin", "posMax"} \subseteq limits.given =>
                limits.values.posMin <= j.values.normMin /\ j.values.normMax <= limits.values.posMax
    BY Zenon DEF LoadedIsSane
  <1> DEFINE m == modelFile.joints[i]
             o == individualFile.joints[i]
             j == joints[i]
  <1>1. /\ j = Overridden(Loaded(m), o) /\ IndividualAccepted(Loaded(m), o)
    BY ReadyJoint
  <1>2. /\ j.values = OverriddenJoint(Loaded(m), o.joint)
        /\ DOMAIN j.servos = 1 .. Len(m.servos)
        /\ \A k \in 1 .. Len(m.servos) :
                /\ j.servos[k].values = OverriddenServo(Loaded(m).servos[k], o.servos[k])
                /\ j.servos[k].given = Loaded(m).servos[k].given \cup DOMAIN o.servos[k]
                /\ ServoOverrideAccepted(Loaded(m).servos[k], o.servos[k])
    BY ReadyMembers
  <1> HIDE DEF m, o, j
  <1>3. j.values.vel > 0 /\ j.values.accel > 0 /\ j.values.follow > 0
    BY <1>1, <1>2 DEF IndividualAccepted, OverrideAccepted
  <1>4. ASSUME NEW s \in DOMAIN j.servos, {"posMin", "posMax"} \subseteq j.servos[s].given
        PROVE  j.servos[s].values.posMin <= j.servos[s].values.posMax
    BY <1>2, <1>4 DEF ServoOverrideAccepted, LimitsOrdered
  <1>5. validate_normalized_position_range(j)
    BY <1>1 DEF IndividualAccepted
  <1>6. {"normMin", "normMax"} \subseteq j.given =>
            LET limits == j.servos[j.values.ref + 1] IN
            limits.values.posMin <= j.values.normMin /\ j.values.normMax <= limits.values.posMax
    BY <1>5 DEF validate_normalized_position_range
  <1> QED
    BY <1>3, <1>4, <1>6 DEF j

(* The individual file's fields win.                                         *)
LEMMA OverridesWin == ASSUME ConfigInv PROVE IndividualWins
  <1> SUFFICES ASSUME Ready, NEW i \in DOMAIN joints
      PROVE /\ \A f \in {"vel", "accel", "rescale"} :
                joints[i].values[f] = Effective(i, f, IF f = "vel" THEN 0 ELSE garbage)
            /\ joints[i].values.follow = Effective(i, "follow", Effective(i, "vel", 0))
    BY DEF IndividualWins
  <1> DEFINE m == modelFile.joints[i]
             o == individualFile.joints[i]
             values == OverriddenJoint(Loaded(m), o.joint)
  <1>1. IsJointEntry(m) /\ IsJointEntry(o) /\ joints[i].values = values /\ garbage \in Int
    BY ReadyJoint, ReadyMembers DEF ConfigInv, ConfigTypes
  <1>2. /\ \A f \in {"vel", "accel", "rescale"} :
                values[f] =
                    IF f \in DOMAIN o.joint THEN o.joint[f]
                    ELSE IF f \in DOMAIN m.joint THEN m.joint[f]
                    ELSE IF f = "vel" THEN 0 ELSE garbage
        /\ values["follow"] =
                IF "follow" \in DOMAIN o.joint THEN o.joint["follow"]
                ELSE IF "follow" \in DOMAIN m.joint THEN m.joint["follow"]
                ELSE values["vel"]
    BY <1>1, OverriddenJointTypes
  <1> QED
    BY <1>1, <1>2 DEF Effective

(* Registered are the servos of what is loaded.                              *)
LEMMA RegistryMatching == ASSUME ConfigInv PROVE RegistryMatches
  <1>1. ASSUME Ready PROVE registered = UNION {EntryIds(modelFile.joints[i]) : i \in DOMAIN joints}
    <2>1. stage # "refused" /\ DOMAIN joints = 1 .. LoadedCount
      BY <1>1 DEF ConfigInv, LoadedSoFar, Ready
    <2> QED
      BY <2>1 DEF ConfigInv, LoadedSoFar
  <1> QED
    BY <1>1 DEF RegistryMatches, ConfigInv

(* The reference servo of the first joint exists and was accepted.           *)
LEMMA ReferenceIsTyped == ASSUME ConfigInv, Ready PROVE ReferenceTypes
  <1>1. 1 \in DOMAIN joints
    <2>1. IsFile(modelFile) /\ modelFile.joints # <<>>
      BY FilesAreFiles DEF ConfigInv, OverriddenSoFar, Ready
    <2>2. Len(modelFile.joints) \in Nat \ {0}
      BY <2>1, FileIsSequence
    <2>3. DOMAIN joints = 1 .. Len(modelFile.joints)
      BY DEF ConfigInv, LoadedSoFar, Ready, LoadedCount
    <2> QED
      BY <2>2, <2>3
  <1> DEFINE m == modelFile.joints[1]
             o == individualFile.joints[1]
             k == joints[1].values.ref + 1
             values == OverriddenServo(Loaded(m).servos[k], o.servos[k])
  <1>2. IsJointEntry(m) /\ IsJointEntry(o) /\ garbage \in Int
    BY <1>1, ReadyJoint DEF ConfigInv, ConfigTypes
  <1>3. /\ k \in 1 .. Len(m.servos) /\ Reference = values
        /\ ServoOverrideAccepted(Loaded(m).servos[k], o.servos[k])
        /\ DOMAIN o.servos = 1 .. Len(m.servos)
    <2>1. /\ joints[1].values.ref \in 0 .. Len(m.servos) - 1 /\ Len(m.servos) \in Nat
          /\ DOMAIN o.servos = 1 .. Len(m.servos)
          /\ \A n \in 1 .. Len(m.servos) :
              /\ joints[1].servos[n].values = OverriddenServo(Loaded(m).servos[n], o.servos[n])
              /\ ServoOverrideAccepted(Loaded(m).servos[n], o.servos[n])
      BY <1>1, ReadyMembers, Zenon
    <2>2. k \in 1 .. Len(m.servos)
      BY <2>1
    <2> QED
      BY <2>1, <2>2, Zenon DEF Reference
  <1>4. /\ values \in [DOMAIN values -> Int]
        /\ ServoMembers \subseteq DOMAIN values
        /\ values.dir \in {1, -1}
        /\ values.period > 0 => values.posMax - values.posMin < values.period
    BY <1>2, <1>3, OverriddenServoTypes
  <1> QED
    BY <1>3, <1>4 DEF ReferenceTypes, ServoMembers

(* Commanding a reading asks the motor to stay.                              *)
LEMMA CommandsMeetReadings == ASSUME ConfigInv PROVE CommandMeetsReading
  BY ReferenceIsTyped, ReadingIsTruth DEF ConfigInv, ConfigTypes, CommandMeetsReading, Ready

(* Nothing is loaded when the program starts.                                *)
LEMMA ConfigStart == ConfigInit => ConfigInv
  <1> SUFFICES ASSUME ConfigInit PROVE ConfigInv
    OBVIOUS
  <1>1. ConfigTypes
    BY JointConfigAssumption DEF ConfigInit, ConfigTypes
  <1>2. Len(modelFile.joints) \in Nat
    BY <1>1, FilesAreFiles, FileIsSequence
  <1>3. stage = "model" /\ LoadedCount = 0 /\ joints = <<>> /\ registered = {} /\ ~wrap.done
    BY DEF ConfigInit, LoadedCount
  <1>4. LoadedSoFar
    BY <1>2, <1>3 DEF LoadedSoFar
  <1> QED
    BY <1>1, <1>3, <1>4 DEF ConfigInv, OverriddenSoFar, Ready

(* A refusal drops everything that was loaded.                               *)
LEMMA RefuseStep == ASSUME ConfigInv, Refuse PROVE ConfigInv'
  <1>1. ConfigTypes'
    BY DEF ConfigInv, ConfigTypes, Refuse, files
  <1> QED
    BY <1>1 DEF ConfigInv, LoadedSoFar, OverriddenSoFar, Ready, Refuse

(* The files and the garbage stay.                                           *)
SameFiles == modelFile' = modelFile /\ individualFile' = individualFile /\ garbage' = garbage

(* Entries are then accepted and loaded as before.                           *)
LEMMA SameLoading ==
    ASSUME SameFiles, NEW i
    PROVE  /\ Loaded(modelFile.joints[i])' = Loaded(modelFile.joints[i])
           /\ EntryAccepted(modelFile.joints[i])' = EntryAccepted(modelFile.joints[i])
           /\ EntryIds(modelFile.joints[i])' = EntryIds(modelFile.joints[i])
           /\ individualFile'.joints[i] = individualFile.joints[i]
  <1>1. NewJoint' = NewJoint /\ NewServo' = NewServo
    BY DEF SameFiles, NewJoint, NewServo
  <1>2. modelFile'.joints[i] = modelFile.joints[i] /\ individualFile'.joints[i] = individualFile.joints[i]
    BY DEF SameFiles
  <1>3. Loaded(modelFile.joints[i])' = Loaded(modelFile.joints[i])
    BY <1>1, <1>2, Zenon DEF Loaded, ModelJoint
  <1>4. EntryAccepted(modelFile.joints[i])' = EntryAccepted(modelFile.joints[i])
    BY <1>1, <1>2, Zenon DEF EntryAccepted, ModelJointAccepted, ModelServoAccepted, ModelJoint
  <1>5. EntryIds(modelFile.joints[i])' = EntryIds(modelFile.joints[i])
    BY <1>2, Zenon DEF EntryIds
  <1> QED
    BY <1>2, <1>3, <1>4, <1>5

(* An entry of the model file makes a joint and registers its servos.        *)
LEMMA LoadModelStep == ASSUME ConfigInv, LoadModel PROVE ConfigInv'
  <1> DEFINE n == Len(modelFile.joints)
  <1>1. /\ stage = "model" /\ stage' = "model" /\ at' = at + 1 /\ at <= n
        /\ EntryAccepted(modelFile.joints[at])
        /\ modelFile' = modelFile /\ individualFile' = individualFile /\ garbage' = garbage
        /\ truth' = truth /\ lost' = lost /\ wrap' = wrap
        /\ joints' = Append(joints, Loaded(modelFile.joints[at]))
        /\ registered' = registered \cup EntryIds(modelFile.joints[at])
    BY DEF LoadModel, files
  <1>2. at \in Nat \ {0} /\ n \in Nat
    BY FilesAreFiles, FileIsSequence DEF ConfigInv, ConfigTypes
  <1>3. LoadedCount = at - 1 /\ LoadedCount' = at
    BY <1>1, <1>2 DEF LoadedCount
  <1>4. \A i : /\ LoadedJoint(i) = Loaded(modelFile.joints[i])
               /\ LoadedJoint(i)' = Loaded(modelFile.joints[i])
    <2>1. SameFiles
      BY <1>1 DEF SameFiles
    <2>2. \A i : Loaded(modelFile.joints[i])' = Loaded(modelFile.joints[i])
      BY <2>1, SameLoading
    <2> QED
      BY <1>1, <2>2, Zenon DEF LoadedJoint
  <1>5. joints = [i \in 1 .. at - 1 |-> Loaded(modelFile.joints[i])]
    BY <1>1, <1>3, <1>4 DEF ConfigInv, LoadedSoFar
  <1> DEFINE S == {Loaded(modelFile.joints[i]) : i \in 1 .. at}
  <1>6. joints \in Seq(S) /\ Len(joints) = at - 1
    BY <1>2, <1>5
  <1>7. joints' = [i \in 1 .. at |-> Loaded(modelFile.joints[i])]
    <2>1. Loaded(modelFile.joints[at]) \in S
      BY <1>2
    <2> HIDE DEF S
    <2> DEFINE x == Loaded(modelFile.joints[at])
    <2>2. /\ DOMAIN joints' = 1 .. at
          /\ joints' = [i \in 1 .. at |-> IF i <= at - 1 THEN joints[i] ELSE x]
      BY <1>1, <1>2, <1>6, <2>1
    <2> QED
      BY <1>2, <1>5, <2>2
  <1>8. \A i \in 1 .. at : EntryAccepted(modelFile.joints[i])'
    <2>1. \A i \in 1 .. at : EntryAccepted(modelFile.joints[i])
      BY <1>1, <1>2, <1>3 DEF ConfigInv, LoadedSoFar
    <2>2. \A i : EntryAccepted(modelFile.joints[i])' = EntryAccepted(modelFile.joints[i])
      BY <1>1, SameLoading DEF SameFiles
    <2> QED
      BY <2>1, <2>2
  <1>9. registered' = UNION {EntryIds(modelFile.joints[i])' : i \in 1 .. at}
    <2>1. registered = UNION {EntryIds(modelFile.joints[i]) : i \in 1 .. at - 1}
      BY <1>1, <1>3 DEF ConfigInv, LoadedSoFar
    <2>2. \A i : EntryIds(modelFile.joints[i])' = EntryIds(modelFile.joints[i])
      BY <1>1 DEF EntryIds
    <2>3. 1 .. at = (1 .. at - 1) \cup {at}
      BY <1>2
    <2> QED
      BY <1>1, <2>1, <2>2, <2>3
  <1>10. LoadedSoFar'
    BY <1>1, <1>2, <1>3, <1>4, <1>7, <1>8, <1>9 DEF LoadedSoFar
  <1>11. ConfigTypes' /\ OverriddenSoFar'
    BY <1>1, <1>2 DEF ConfigInv, ConfigTypes, OverriddenSoFar, Ready
  <1> QED
    BY <1>1, <1>10, <1>11 DEF ConfigInv

(* The individual file begins where nothing is overridden yet.               *)
LEMMA TurnToIndividualStep == ASSUME ConfigInv, TurnToIndividual PROVE ConfigInv'
  <1> DEFINE n == Len(modelFile.joints)
  <1>1. /\ stage = "model" /\ stage' = "individual" /\ at' = 1 /\ at = n + 1
        /\ modelFile.joints # <<>> /\ UNCHANGED <<modelFile, individualFile, garbage>>
        /\ UNCHANGED <<truth, lost, wrap, joints, registered>>
    BY DEF TurnToIndividual, files
  <1>2. n \in Nat
    BY FilesAreFiles, FileIsSequence DEF ConfigInv
  <1>3. LoadedCount = n /\ LoadedCount' = n
    BY <1>1, <1>2 DEF LoadedCount
  <1>4. SameFiles
    BY <1>1 DEF SameFiles
  <1>5. \A i \in 1 .. n : LoadedJoint(i)' = LoadedJoint(i)
    <2> SUFFICES ASSUME NEW i \in 1 .. n PROVE LoadedJoint(i)' = LoadedJoint(i)
      OBVIOUS
    <2>1. Loaded(modelFile.joints[i])' = Loaded(modelFile.joints[i])
      BY <1>4, SameLoading
    <2>2. i >= at'
      BY <1>1
    <2> QED
      BY <1>1, <2>1, <2>2, Zenon DEF LoadedJoint
  <1>6. LoadedSoFar'
    BY <1>1, <1>2, <1>3, <1>4, <1>5, SameLoading DEF ConfigInv, LoadedSoFar
  <1>7. ConfigTypes' /\ OverriddenSoFar'
    BY <1>1 DEF ConfigInv, ConfigTypes, OverriddenSoFar, Ready
  <1> QED
    BY <1>1, <1>6, <1>7 DEF ConfigInv

(* An entry of the individual file overrides the joint in its place.         *)
LEMMA LoadIndividualStep == ASSUME ConfigInv, LoadIndividual PROVE ConfigInv'
  <1> DEFINE n == Len(modelFile.joints)
  <1>1. /\ stage = "individual" /\ stage' = "individual" /\ at' = at + 1
        /\ at <= Len(individualFile.joints) /\ at <= Len(joints)
        /\ IndividualAccepted(joints[at], individualFile.joints[at])
        /\ joints' = [joints EXCEPT ![at] = Overridden(joints[at], individualFile.joints[at])]
        /\ UNCHANGED <<modelFile, individualFile, garbage>>
        /\ UNCHANGED <<truth, lost, wrap, registered>>
    BY DEF LoadIndividual, files
  <1>2. n \in Nat /\ Len(individualFile.joints) \in Nat /\ at \in Nat \ {0}
    BY FilesAreFiles, FileIsSequence DEF ConfigInv, ConfigTypes
  <1>3. LoadedCount = n /\ LoadedCount' = n
    BY <1>1 DEF LoadedCount
  <1>4. SameFiles
    BY <1>1 DEF SameFiles
  <1>5. joints = [i \in 1 .. n |-> LoadedJoint(i)]
    BY <1>1, <1>3 DEF ConfigInv, LoadedSoFar
  <1>6. Len(joints) = n /\ at \in 1 .. n
    <2>1. joints \in Seq({LoadedJoint(i) : i \in 1 .. n}) /\ Len(joints) = n
      BY <1>2, <1>5
    <2> QED
      BY <1>1, <1>2, <2>1
  <1>7. joints[at] = Loaded(modelFile.joints[at])
    BY <1>1, <1>2, <1>5, <1>6 DEF LoadedJoint
  <1>8. joints' = [i \in 1 .. n |-> LoadedJoint(i)']
    <2>1. ASSUME NEW i \in 1 .. n PROVE joints'[i] = LoadedJoint(i)'
      <3>1. /\ Loaded(modelFile.joints[i])' = Loaded(modelFile.joints[i])
            /\ individualFile'.joints[i] = individualFile.joints[i]
        BY <1>4, SameLoading
      <3>2. CASE i = at
        <4>1. joints'[i] = Overridden(Loaded(modelFile.joints[i]), individualFile.joints[i])
          BY <1>1, <1>5, <1>6, <1>7, <3>2
        <4>2. ~(i >= at') /\ stage' # "model"
          BY <1>1, <1>2, <3>2
        <4> QED
          BY <3>1, <4>1, <4>2, Zenon DEF LoadedJoint
      <3>3. CASE i # at
        <4>1. joints'[i] = LoadedJoint(i)
          BY <1>1, <1>5, <3>3
        <4>2. (i >= at') <=> (i >= at)
          BY <1>1, <1>2, <3>3
        <4> QED
          BY <1>1, <3>1, <4>1, <4>2, Zenon DEF LoadedJoint
      <3> QED
        BY <3>2, <3>3
    <2> QED
      BY <1>1, <1>5, <2>1
  <1>9. LoadedSoFar'
    <2>1. \A i \in 1 .. n : EntryAccepted(modelFile.joints[i])'
      BY <1>1, <1>3, <1>4, SameLoading DEF ConfigInv, LoadedSoFar
    <2>2. registered' = UNION {EntryIds(modelFile.joints[i])' : i \in 1 .. n}
      BY <1>1, <1>3, <1>4, SameLoading DEF ConfigInv, LoadedSoFar
    <2>3. LoadedCount' \in (0 .. Len(modelFile.joints))'
      BY <1>1, <1>2, <1>3
    <2> QED
      BY <1>3, <1>8, <2>1, <2>2, <2>3, Zenon DEF LoadedSoFar
  <1>10. OverriddenSoFar'
    <2>1. ASSUME NEW i \in 1 .. at' - 1
          PROVE  /\ i <= n /\ i <= Len(individualFile.joints)
                 /\ IndividualAccepted(Loaded(modelFile.joints[i]), individualFile.joints[i])
      <3>1. CASE i = at
        BY <1>1, <1>2, <1>6, <1>7, <3>1
      <3>2. CASE i # at
        <4>1. i \in 1 .. at - 1
          BY <1>1, <1>2, <3>2
        <4> QED
          BY <1>1, <4>1 DEF ConfigInv, OverriddenSoFar
      <3> QED
        BY <3>1, <3>2
    <2>2. \A i : Loaded(modelFile.joints[i])' = Loaded(modelFile.joints[i])
      BY <1>4, SameLoading
    <2>3. ASSUME NEW i \in 1 .. at' - 1
          PROVE  /\ i <= Len(modelFile'.joints) /\ i <= Len(individualFile'.joints)
                 /\ IndividualAccepted(Loaded(modelFile.joints[i]), individualFile.joints[i])'
      BY <1>1, <2>1, <2>2, Zenon
    <2>4. modelFile'.joints # <<>>
      BY <1>1 DEF ConfigInv, OverriddenSoFar
    <2> QED
      BY <1>1, <2>3, <2>4 DEF OverriddenSoFar, Ready
  <1>11. ConfigTypes'
    BY <1>1, <1>2 DEF ConfigInv, ConfigTypes
  <1> QED
    BY <1>1, <1>9, <1>10, <1>11 DEF ConfigInv

(* A load is complete when both files have the same number of joints.        *)
LEMMA CompleteStep == ASSUME ConfigInv, Complete PROVE ConfigInv'
  <1> DEFINE n == Len(modelFile.joints)
  <1>1. /\ stage = "individual" /\ stage' = "starting" /\ at' = at
        /\ at > Len(individualFile.joints) /\ at > Len(joints)
        /\ truth' \in -MaxPosition .. MaxPosition /\ lost' \in -1 .. 1
        /\ UNCHANGED <<modelFile, individualFile, garbage>>
        /\ UNCHANGED <<joints, wrap, registered>>
    BY DEF Complete, files
  <1>2. n \in Nat /\ Len(individualFile.joints) \in Nat /\ at \in Nat \ {0}
    BY FilesAreFiles, FileIsSequence DEF ConfigInv, ConfigTypes
  <1>3. LoadedCount = n /\ LoadedCount' = n
    BY <1>1 DEF LoadedCount
  <1>4. SameFiles
    BY <1>1 DEF SameFiles
  <1>5. joints = [i \in 1 .. n |-> LoadedJoint(i)]
    BY <1>1, <1>3 DEF ConfigInv, LoadedSoFar
  <1>6. at > n
    <2>1. joints \in Seq({LoadedJoint(i) : i \in 1 .. n}) /\ Len(joints) = n
      BY <1>2, <1>5
    <2> QED
      BY <1>1, <2>1
  <1>7. \A i \in 1 .. n : LoadedJoint(i)' = LoadedJoint(i)
    <2> SUFFICES ASSUME NEW i \in 1 .. n PROVE LoadedJoint(i)' = LoadedJoint(i)
      OBVIOUS
    <2>1. /\ Loaded(modelFile.joints[i])' = Loaded(modelFile.joints[i])
          /\ individualFile'.joints[i] = individualFile.joints[i]
      BY <1>4, SameLoading
    <2>2. ~(i >= at)
      BY <1>2, <1>6
    <2> QED
      BY <1>1, <2>1, <2>2, Zenon DEF LoadedJoint
  <1>8. LoadedSoFar'
    BY <1>1, <1>2, <1>3, <1>4, <1>5, <1>7, SameLoading DEF ConfigInv, LoadedSoFar
  <1>9. \A i \in 1 .. at - 1 :
            /\ i <= n /\ i <= Len(individualFile.joints)
            /\ IndividualAccepted(Loaded(modelFile.joints[i]), individualFile.joints[i])
    BY <1>1 DEF ConfigInv, OverriddenSoFar
  <1>10. at = n + 1 /\ Len(individualFile.joints) = n
    <2>1. at - 1 <= n /\ at - 1 <= Len(individualFile.joints)
      <3>1. CASE at = 1
        BY <1>2, <3>1
      <3>2. CASE at # 1
        <4>1. at - 1 \in 1 .. at - 1
          BY <1>2, <3>2
        <4> QED
          BY <1>9, <4>1
      <3> QED
        BY <3>1, <3>2
    <2> QED
      BY <1>1, <1>2, <1>6, <2>1
  <1>11. OverriddenSoFar'
    <2>1. \A i : Loaded(modelFile.joints[i])' = Loaded(modelFile.joints[i])
      BY <1>4, SameLoading
    <2>2. \A i \in 1 .. n :
              IndividualAccepted(Loaded(modelFile.joints[i]), individualFile.joints[i])
      BY <1>9, <1>10, <1>2
    <2>3. \A i \in 1 .. n :
              IndividualAccepted(Loaded(modelFile.joints[i]), individualFile.joints[i])'
      BY <1>1, <2>1, <2>2, Zenon
    <2>4. modelFile'.joints # <<>>
      BY <1>1 DEF ConfigInv, OverriddenSoFar
    <2> QED
      BY <1>1, <1>3, <1>10, <2>3, <2>4 DEF OverriddenSoFar, Ready
  <1>12. ConfigTypes'
    BY <1>1, <1>2, JointConfigAssumption DEF ConfigInv, ConfigTypes
  <1> QED
    BY <1>1, <1>8, <1>11, <1>12 DEF ConfigInv

(* The first reading sets the offset, which is a number of whole turns.      *)
LEMMA WrapTypes ==
    ASSUME ConfigInv, Ready, wrap' = initialize_position_wrap
    PROVE  wrap' \in [done : BOOLEAN, offset : Int]
  <1>1. ReferenceTypes /\ wrap \in [done : BOOLEAN, offset : Int] /\ truth \in Int /\ lost \in Int
    BY ReferenceIsTyped DEF ConfigInv, ConfigTypes
  <1>2. CASE UndecidedWrap
    <2>1. Reference.period \in Nat \ {0}
      BY <1>1, <1>2 DEF UndecidedWrap, ReferenceTypes
    <2>2. WrapOffset \in Int
      <3>1. CASE Cardinality(Turns) # 1
        BY <3>1 DEF WrapOffset
      <3>2. CASE Cardinality(Turns) = 1
        <4>1. BaseRelative \in Int
          <5>1. BaseRelative = truth - lost * Reference.period
            BY <1>1, ReadingIsTruth
          <5> QED
            BY <1>1, <2>1, <5>1
        <4>2. /\ Ceiling(Reference.posMin - BaseRelative, Reference.period) \in Int
              /\ (Reference.posMax - BaseRelative) \div Reference.period \in Int
          BY <1>1, <2>1, <4>1 DEF ReferenceTypes, Ceiling
        <4>3. Turns \subseteq Int /\ IsFiniteSet(Turns)
          BY <4>2, FS_Interval DEF Turns
        <4>4. Turns # {}
          BY <3>2, FS_EmptySet
        <4>5. (CHOOSE n \in Turns : TRUE) \in Int
          BY <4>3, <4>4
        <4> QED
          BY <2>1, <3>2, <4>5 DEF WrapOffset
      <3> QED
        BY <3>1, <3>2
    <2> QED
      BY <1>2, <2>2 DEF initialize_position_wrap
  <1>3. CASE ~UndecidedWrap
    BY <1>1, <1>3 DEF initialize_position_wrap
  <1> QED
    BY <1>2, <1>3

(* Readings and moves leave what was loaded alone.                           *)
LEMMA RunningStep ==
    ASSUME ConfigInv, Ready, stage' = "running", SameFiles,
           at' = at, joints' = joints, registered' = registered, lost' = lost,
           truth' \in Int, wrap' = initialize_position_wrap
    PROVE  ConfigInv'
  <1>1. stage \in {"starting", "running"} /\ Ready'
    BY DEF Ready
  <1>2. LoadedCount' = LoadedCount
    BY <1>1 DEF LoadedCount, SameFiles
  <1>3. \A i : /\ Loaded(modelFile.joints[i])' = Loaded(modelFile.joints[i])
               /\ EntryAccepted(modelFile.joints[i])' = EntryAccepted(modelFile.joints[i])
               /\ EntryIds(modelFile.joints[i])' = EntryIds(modelFile.joints[i])
               /\ individualFile'.joints[i] = individualFile.joints[i]
    BY SameLoading
  <1>4. \A i : LoadedJoint(i)' = LoadedJoint(i)
    BY <1>1, <1>3, Zenon DEF LoadedJoint
  <1>5. LoadedSoFar'
    BY <1>1, <1>2, <1>3, <1>4 DEF ConfigInv, LoadedSoFar, SameFiles
  <1>6. OverriddenSoFar'
    <2>1. \A i \in 1 .. LoadedCount :
              IndividualAccepted(Loaded(modelFile.joints[i]), individualFile.joints[i])
      BY DEF ConfigInv, OverriddenSoFar
    <2>2. \A i \in 1 .. LoadedCount' :
              IndividualAccepted(Loaded(modelFile.joints[i]), individualFile.joints[i])'
      BY <1>2, <1>3, <2>1, Zenon
    <2>3. Len(modelFile'.joints) = Len(individualFile'.joints) /\ modelFile'.joints # <<>>
      BY <1>1 DEF ConfigInv, OverriddenSoFar, SameFiles
    <2> QED
      BY <2>2, <2>3 DEF OverriddenSoFar
  <1>7. ConfigTypes'
    BY WrapTypes DEF ConfigInv, ConfigTypes, SameFiles
  <1> QED
    BY <1>5, <1>6, <1>7 DEF ConfigInv

(* One step of the loaders or of a running joint.                            *)
LEMMA ConfigStep == ConfigInv /\ [ConfigNext]_configVars => ConfigInv'
  <1> SUFFICES ASSUME ConfigInv, [ConfigNext]_configVars PROVE ConfigInv'
    OBVIOUS
  <1>1. CASE RefuseModel \/ RefuseIndividual
    BY <1>1, RefuseStep DEF RefuseModel, RefuseIndividual
  <1>2. CASE ReadServo
    BY <1>2, RunningStep DEF ReadServo, SameFiles, files, Ready, ConfigInv, ConfigTypes
  <1>3. CASE MoveJoint
    <2>1. truth' \in Int
      BY <1>3, JointConfigAssumption DEF MoveJoint
    <2> QED
      BY <1>3, <2>1, RunningStep DEF MoveJoint, SameFiles, files, Ready
  <1>4. CASE UNCHANGED configVars
    <2>1. /\ SameFiles
          /\ UNCHANGED <<stage, at, joints, registered, truth, lost, wrap>>
      BY <1>4 DEF configVars, files, SameFiles
    <2>2. \A i : /\ Loaded(modelFile.joints[i])' = Loaded(modelFile.joints[i])
                 /\ EntryAccepted(modelFile.joints[i])' = EntryAccepted(modelFile.joints[i])
                 /\ EntryIds(modelFile.joints[i])' = EntryIds(modelFile.joints[i])
                 /\ individualFile'.joints[i] = individualFile.joints[i]
      BY <2>1, SameLoading
    <2>3. LoadedCount' = LoadedCount /\ \A i : LoadedJoint(i)' = LoadedJoint(i)
      BY <2>1, <2>2, Zenon DEF LoadedCount, LoadedJoint, SameFiles
    <2>4. LoadedSoFar'
      BY <2>1, <2>2, <2>3 DEF ConfigInv, LoadedSoFar, SameFiles
    <2>5. OverriddenSoFar'
      BY <2>1, <2>2, <2>3, Zenon DEF ConfigInv, OverriddenSoFar, Ready, SameFiles
    <2> QED
      BY <2>1, <2>4, <2>5 DEF ConfigInv, ConfigTypes, SameFiles
  <1> QED
    BY <1>1, <1>2, <1>3, <1>4, LoadModelStep, TurnToIndividualStep, LoadIndividualStep,
       CompleteStep DEF ConfigNext, ConfigDone

(* The first reading finds the turns that were lost, and no later one        *)
(* touches the offset.                                                       *)
LEMMA TurnsStep == ASSUME ConfigInv, ConfigNext PROVE TurnsRecovered
  <1>1. CASE ReadServo \/ MoveJoint
    <2>1. Ready /\ wrap' = initialize_position_wrap
      BY <1>1 DEF ReadServo, MoveJoint, Ready
    <2>2. /\ ReferenceTypes /\ wrap \in [done : BOOLEAN, offset : Int]
          /\ truth \in Int /\ lost \in Int
      BY <2>1, ReferenceIsTyped DEF ConfigInv, ConfigTypes
    <2>3. CASE UndecidedWrap
      <3>1. wrap' = [done |-> TRUE, offset |-> WrapOffset] /\ Reference.period > 0 /\ ~wrap.done
        BY <2>1, <2>3 DEF initialize_position_wrap, UndecidedWrap
      <3>2. truth \in Reference.posMin .. Reference.posMax => WrapOffset = lost * Reference.period
        BY <2>2, <3>1, LostTurnsFound
      <3> QED
        BY <3>1, <3>2 DEF TurnsRecovered
    <2>4. CASE ~UndecidedWrap
      BY <2>1, <2>4 DEF initialize_position_wrap, TurnsRecovered
    <2> QED
      BY <2>3, <2>4
  <1>2. CASE ~(ReadServo \/ MoveJoint)
    <2>1. wrap' = wrap
      BY <1>2 DEF ConfigNext, LoadModel, RefuseModel, RefuseIndividual, Refuse, TurnToIndividual,
          LoadIndividual, Complete, ConfigDone, configVars
    <2> QED
      BY <2>1 DEF TurnsRecovered
  <1> QED
    BY <1>1, <1>2

(* Whatever the files say, an arm runs with the limits they give, the        *)
(* individual file's first, with the servos of the model file registered,    *)
(* and with the turns its encoder lost put back, or not at all               *)
(* (Joint::init_config_*(), Servo::initialize_position_wrap()).              *)
THEOREM ConfigAsWritten == ConfigSpec => LoadedAsWritten
  <1> DEFINE Sound == LoadedIsSane /\ IndividualWins /\ RegistryMatches /\ CommandMeetsReading
  <1>1. ConfigSpec => []ConfigInv
    BY ConfigStart, ConfigStep, PTL DEF ConfigSpec
  <1>2. ConfigInv => Sound
    BY LoadedSanity, OverridesWin, RegistryMatching, CommandsMeetReadings
  <1>3. ConfigInv /\ [ConfigNext]_configVars => [TurnsRecovered]_configVars
    BY TurnsStep
  <1>4. ConfigInv /\ ConfigInv' /\ [ConfigNext]_configVars => [TurnsRecovered /\ Sound']_configVars
    <2>1. ConfigInv' => Sound'
      BY <1>2, PTL
    <2> QED
      BY <1>3, <2>1
  <1> QED
    BY <1>1, <1>4, PTL DEF ConfigSpec, LoadedAsWritten

-----------------------------------------------------------------------------
(***************************************************************************)
(* Topics.  The newest good frame on a socket is the newest delivered one, *)
(* and commands wait in the order of their ids.                            *)
(***************************************************************************)
(* A set of indices that is not empty has a greatest member.                *)
LEMMA GreatestIndex ==
    ASSUME NEW n \in Nat, NEW I \in SUBSET (1 .. n), I # {}
    PROVE  Max(I) \in I /\ \A i \in I : i <= Max(I)
  <1> DEFINE R == OpToRel(<, Nat)
             T == {n - i : i \in I}
  <1>1. T \subseteq Nat /\ T # {}
    <2>1. \A i \in I : n - i \in Nat
      OBVIOUS
    <2> QED
      BY <2>1
  <1>2. PICK x \in T : \A y \in T : ~(<<y, x>> \in R)
    BY <1>1, NatLessThanWellFounded, WFMin
  <1>3. \A y \in T : ~(y < x)
    BY <1>1, <1>2 DEF OpToRel
  <1>4. PICK k \in I : x = n - k
    OBVIOUS
  <1>5. \A i \in I : i <= k
    BY <1>3, <1>4
  <1> QED
    BY <1>5 DEF Max

(* What SelectLastInSeq() returns for the indices that pass its test.        *)
LEMMA LastIndex ==
    ASSUME NEW n \in Nat, NEW I \in SUBSET (1 .. n)
    PROVE  LET i == IF I # {} THEN Max(I) ELSE 0 IN
           /\ i \in 0 .. n
           /\ i # 0 => i \in I /\ \A k \in i + 1 .. n : k \notin I
           /\ i = 0 => I = {}
  <1>1. CASE I = {}
    BY <1>1
  <1>2. CASE I # {}
    <2> DEFINE i == Max(I)
    <2>1. i \in I /\ \A k \in I : k <= i
      BY <1>2, GreatestIndex
    <2> HIDE DEF i
    <2>3. i \in 1 .. n
      BY <2>1
    <2>2. \A k \in i + 1 .. n : k \notin I
      BY <2>1
    <2> QED
      BY <1>2, <2>1, <2>2, <2>3 DEF i
  <1> QED
    BY <1>1, <1>2

(* What is queued and acknowledged.                                          *)
Frames == [kind : FrameKinds, id : Nat]
Messages == [kind : FrameKinds, command : Commands \cup {"none"}, id : Nat]
Acks == [id : Nat, command : Commands \cup {"none"},
         result : {"success", "busy", "notSupported"}]

TransportTypes ==
    /\ role \in {"leader", "follower"}
    /\ running \in BOOLEAN /\ stepDue \in BOOLEAN /\ paused \in BOOLEAN
    /\ recovering \in BOOLEAN /\ rejecting \in BOOLEAN
    /\ commandQueue \in Seq(Messages) /\ Len(commandQueue) <= QueueBound
    /\ queue \in [Streams -> Seq(Frames)] /\ \A s \in Streams : Len(queue[s]) <= QueueBound
    /\ acks \in Seq(Acks)
    /\ applied \in [Streams -> Nat] /\ delivered \in [Streams -> Nat]
    /\ commandsSent \in Nat /\ framesSent \in 0 .. MaxFrames

(* The newest good frame on a socket is the newest that was delivered.       *)
LastGood(frames, i) ==
    frames[i].kind = "good" /\ \A k \in i + 1 .. Len(frames) : frames[k].kind # "good"
NewestDelivered ==
    \A s \in Streams :
        /\ applied[s] <= delivered[s] /\ delivered[s] <= framesSent
        /\ \A i \in 1 .. Len(queue[s]) : LastGood(queue[s], i) => queue[s][i].id = delivered[s]

(* The node sends its client nothing malformed.                              *)
WellFormed ==
    \A s \in ClientStreams : \A i \in 1 .. Len(queue[s]) : queue[s][i].kind \in {"good", "foreign"}

(* Commands wait in the order of their ids, behind all that were answered.   *)
Waiting ==
    /\ \A i \in 1 .. Len(commandQueue) : commandQueue[i].id <= commandsSent
    /\ \A i, k \in 1 .. Len(commandQueue) : i < k => commandQueue[i].id < commandQueue[k].id
    /\ \A i \in 1 .. Len(acks) :
        /\ acks[i].id <= commandsSent
        /\ \A k \in 1 .. Len(commandQueue) : acks[i].id < commandQueue[k].id

(* A follower that listens has acknowledged a resume, and no pause since.    *)
Pausing(ack) == ack.command \in PauseCommands /\ ack.result = "success"
Resumed ==
    role = "follower" /\ ~paused =>
        \E i \in 1 .. Len(acks) :
            /\ Pausing(acks[i]) /\ acks[i].command = "resume"
            /\ \A k \in i + 1 .. Len(acks) : ~Pausing(acks[k])

TransportInv ==
    TransportTypes /\ NewestDelivered /\ WellFormed /\ Waiting /\ AnsweredInOrder /\ Resumed

(* A queued frame and its fields.                                            *)
LEMMA FrameTypes ==
    ASSUME NEW q \in Seq(Frames), NEW i \in 1 .. Len(q)
    PROVE  q[i].kind \in FrameKinds /\ q[i].id \in Nat
  <1>1. q[i] \in Frames
    OBVIOUS
  <1> QED
    BY <1>1 DEF Frames

(* The same for lifecycle messages.                                          *)
LEMMA MessageTypes ==
    ASSUME NEW q \in Seq(Messages), NEW i \in 1 .. Len(q)
    PROVE  q[i].kind \in FrameKinds /\ q[i].command \in Commands \cup {"none"} /\ q[i].id \in Nat
  <1>1. q[i] \in Messages
    OBVIOUS
  <1> QED
    BY <1>1 DEF Messages

(* The same for acknowledgements.                                            *)
LEMMA AckTypes ==
    ASSUME NEW q \in Seq(Acks), NEW i \in 1 .. Len(q)
    PROVE  q[i].id \in Nat /\ q[i].command \in Commands \cup {"none"}
  <1>1. q[i] \in Acks
    OBVIOUS
  <1> QED
    BY <1>1 DEF Acks

(* Nothing is queued when the topic is made.                                 *)
LEMMA TransportStart == TransportInit => TransportInv
  <1> SUFFICES ASSUME TransportInit PROVE TransportInv
    OBVIOUS
  <1>0. QueueBound \in Nat /\ MaxFrames \in Nat
    BY TransportAssumption
  <1>1. TransportTypes
    <2>1. running \in BOOLEAN /\ paused \in BOOLEAN /\ recovering \in BOOLEAN /\ rejecting \in BOOLEAN
      BY Zenon DEF TransportInit
    <2>2. /\ queue \in [Streams -> Seq(Frames)] /\ \A s \in Streams : Len(queue[s]) <= QueueBound
          /\ commandQueue \in Seq(Messages) /\ Len(commandQueue) <= QueueBound
          /\ acks \in Seq(Acks)
      BY <1>0 DEF TransportInit
    <2>3. /\ applied \in [Streams -> Nat] /\ delivered \in [Streams -> Nat]
          /\ commandsSent \in Nat /\ framesSent \in 0 .. MaxFrames
      BY <1>0 DEF TransportInit
    <2> QED
      BY <2>1, <2>2, <2>3 DEF TransportInit, TransportTypes
  <1>2. NewestDelivered /\ WellFormed
    BY TransportAssumption DEF TransportInit, NewestDelivered, WellFormed, Streams, ClientStreams
  <1>3. Waiting /\ AnsweredInOrder
    BY DEF TransportInit, Waiting, AnsweredInOrder
  <1>4. Resumed
    BY Zenon DEF TransportInit, Resumed
  <1> QED
    BY <1>1, <1>2, <1>3, <1>4 DEF TransportInv

(* A message with a new id waits behind all others.                          *)
LEMMA DeliverCommandStep == ASSUME TransportInv, DeliverCommand PROVE TransportInv'
  <1>1. PICK kind \in FrameKinds \ {"wrongType"}, command \in Commands \cup {"none"} :
            commandQueue' = Append(commandQueue,
                [kind |-> kind, command |-> command, id |-> commandsSent + 1])
    BY DEF DeliverCommand
  <1> DEFINE message == [kind |-> kind, command |-> command, id |-> commandsSent + 1]
             n == Len(commandQueue)
  <1>2. /\ commandsSent' = commandsSent + 1 /\ n < QueueBound
        /\ UNCHANGED <<role, queue, running, stepDue, paused, recovering, rejecting, applied, delivered>>
        /\ UNCHANGED <<acks, framesSent>>
    BY DEF DeliverCommand
  <1>3. /\ commandQueue \in Seq(Messages) /\ n \in Nat /\ commandsSent \in Nat
        /\ message \in Messages
    BY DEF TransportInv, TransportTypes, Messages
  <1> HIDE DEF message
  <1>4. /\ commandQueue' \in Seq(Messages) /\ Len(commandQueue') = n + 1
        /\ \A i \in 1 .. n : commandQueue'[i] = commandQueue[i]
        /\ commandQueue'[n + 1] = message
    BY <1>1, <1>3 DEF message
  <1>5. message.id = commandsSent + 1
    BY DEF message
  <1>6. QueueBound \in Nat
    BY TransportAssumption
  <1>7. TransportTypes'
    BY <1>2, <1>3, <1>4, <1>6 DEF TransportInv, TransportTypes
  <1>8. Waiting'
    <2>1. ASSUME NEW i \in 1 .. n + 1 PROVE commandQueue'[i].id <= commandsSent + 1
      <3>1. CASE i \in 1 .. n
        <4>1. commandQueue[i].id <= commandsSent
          BY <3>1 DEF TransportInv, Waiting
        <4>2. commandQueue[i].id \in Nat
          BY <1>3, <3>1, MessageTypes
        <4> QED
          BY <1>3, <1>4, <3>1, <4>1, <4>2
      <3>2. CASE i = n + 1
        BY <1>3, <1>4, <1>5, <3>2
      <3> QED
        BY <1>3, <3>1, <3>2
    <2>2. ASSUME NEW i \in 1 .. n + 1, NEW k \in 1 .. n + 1, i < k
          PROVE  commandQueue'[i].id < commandQueue'[k].id
      <3>1. i \in 1 .. n /\ commandQueue'[i] = commandQueue[i]
        BY <1>3, <1>4, <2>2
      <3>2. CASE k \in 1 .. n
        BY <1>4, <2>2, <3>1, <3>2 DEF TransportInv, Waiting
      <3>3. CASE k = n + 1
        <4>1. commandQueue[i].id <= commandsSent
          BY <3>1 DEF TransportInv, Waiting
        <4>2. commandQueue[i].id \in Nat
          BY <1>3, <3>1, MessageTypes
        <4> QED
          BY <1>3, <1>4, <1>5, <3>1, <3>3, <4>1, <4>2
      <3> QED
        BY <1>3, <3>2, <3>3
    <2>3. ASSUME NEW i \in 1 .. Len(acks)
          PROVE  /\ acks[i].id <= commandsSent + 1
                 /\ \A k \in 1 .. n + 1 : acks[i].id < commandQueue'[k].id
      <3>1. acks[i].id <= commandsSent
        BY DEF TransportInv, Waiting
      <3>0. acks[i].id \in Nat
        <4>1. acks \in Seq(Acks)
          BY DEF TransportInv, TransportTypes
        <4> QED
          BY <4>1, AckTypes
      <3>2. \A k \in 1 .. n : acks[i].id < commandQueue[k].id
        BY DEF TransportInv, Waiting
      <3>3. ASSUME NEW k \in 1 .. n + 1 PROVE acks[i].id < commandQueue'[k].id
        <4>1. CASE k \in 1 .. n
          BY <1>4, <3>2, <4>1
        <4>2. CASE k = n + 1
          BY <1>3, <1>4, <1>5, <3>0, <3>1, <4>2
        <4> QED
          BY <1>3, <4>1, <4>2
      <3> QED
        BY <1>3, <3>0, <3>1, <3>3
    <2> QED
      BY <1>2, <1>4, <2>1, <2>2, <2>3 DEF Waiting
  <1>9. NewestDelivered' /\ WellFormed'
    <2>1. NewestDelivered /\ WellFormed
      BY DEF TransportInv
    <2>2. NewestDelivered'
      BY <1>2, <2>1 DEF NewestDelivered, LastGood
    <2>3. WellFormed'
      BY <1>2, <2>1 DEF WellFormed
    <2> QED
      BY <2>2, <2>3
  <1>10. AnsweredInOrder' /\ Resumed'
    BY <1>2, Zenon DEF TransportInv, AnsweredInOrder, Resumed
  <1> QED
    BY <1>7, <1>8, <1>9, <1>10 DEF TransportInv

(* A frame on the socket of a stream, well formed if it is the client's.     *)
LEMMA EnqueueStep ==
    ASSUME TransportInv, NEW s \in Streams, NEW kind \in FrameKinds, Enqueue(s, kind),
           framesSent < MaxFrames, Len(queue[s]) < QueueBound,
           s \in ClientStreams => kind \in {"good", "foreign"},
           UNCHANGED <<role, commandQueue, running, stepDue, paused, recovering, rejecting, applied>>,
           UNCHANGED <<acks, commandsSent>>
    PROVE  TransportInv'
  <1> DEFINE frame == [kind |-> kind, id |-> framesSent + 1]
             n == Len(queue[s])
  <1>0. MaxFrames \in Nat /\ QueueBound \in Nat
    BY TransportAssumption
  <1>9. /\ queue \in [Streams -> Seq(Frames)] /\ framesSent \in 0 .. MaxFrames
        /\ delivered \in [Streams -> Nat] /\ applied \in [Streams -> Nat]
    BY DEF TransportInv, TransportTypes
  <1>1. /\ queue \in [Streams -> Seq(Frames)] /\ n \in Nat /\ framesSent \in Nat
        /\ frame \in Frames /\ frame.kind = kind /\ frame.id = framesSent + 1
        /\ delivered \in [Streams -> Nat] /\ applied \in [Streams -> Nat]
        /\ MaxFrames \in Nat /\ QueueBound \in Nat
    <2>1. framesSent \in Nat /\ queue[s] \in Seq(Frames)
      BY <1>0, <1>9
    <2>2. n \in Nat
      BY <2>1
    <2>3. frame \in Frames /\ frame.kind = kind /\ frame.id = framesSent + 1
      BY <2>1 DEF Frames
    <2> QED
      BY <1>0, <1>9, <2>1, <2>2, <2>3
  <1>2. /\ queue' = [queue EXCEPT ![s] = Append(queue[s], frame)]
        /\ framesSent' = framesSent + 1
        /\ delivered' = IF kind = "good" THEN [delivered EXCEPT ![s] = framesSent + 1] ELSE delivered
    BY DEF Enqueue
  <1> HIDE DEF frame
  <1>3. /\ queue'[s] \in Seq(Frames) /\ Len(queue'[s]) = n + 1
        /\ \A i \in 1 .. n : queue'[s][i] = queue[s][i]
        /\ queue'[s][n + 1] = frame
        /\ \A r \in Streams \ {s} : queue'[r] = queue[r]
        /\ queue' \in [Streams -> Seq(Frames)]
    BY <1>1, <1>2
  <1>4. /\ delivered' \in [Streams -> Nat]
        /\ \A r \in Streams \ {s} : delivered'[r] = delivered[r]
        /\ delivered'[s] = IF kind = "good" THEN framesSent + 1 ELSE delivered[s]
    BY <1>1, <1>2
  <1>5. TransportTypes'
    BY <1>1, <1>2, <1>3, <1>4 DEF TransportInv, TransportTypes
  <1>6. NewestDelivered'
    <2> SUFFICES ASSUME NEW r \in Streams
        PROVE  /\ applied[r] <= delivered'[r] /\ delivered'[r] <= framesSent + 1
               /\ \A i \in 1 .. Len(queue'[r]) :
                    LastGood(queue'[r], i) => queue'[r][i].id = delivered'[r]
      BY <1>2 DEF NewestDelivered, LastGood
    <2>1. /\ applied[r] <= delivered[r] /\ delivered[r] <= framesSent
          /\ \A i \in 1 .. Len(queue[r]) : LastGood(queue[r], i) => queue[r][i].id = delivered[r]
      BY DEF TransportInv, NewestDelivered
    <2>2. applied[r] <= delivered'[r] /\ delivered'[r] <= framesSent + 1
      <3>1. /\ applied[r] \in Nat /\ delivered[r] \in Nat /\ framesSent \in Nat
            /\ delivered'[r] = delivered[r] \/ delivered'[r] = framesSent + 1
        BY <1>1, <1>4
      <3> QED
        BY <2>1, <3>1
    <2>3. CASE r # s
      BY <1>3, <1>4, <2>1, <2>2, <2>3
    <2>4. CASE r = s
      <3>1. ASSUME NEW i \in 1 .. n + 1, LastGood(queue'[s], i)
            PROVE  queue'[s][i].id = delivered'[s]
        <4>1. CASE i = n + 1
          BY <1>1, <1>3, <1>4, <3>1, <4>1 DEF LastGood
        <4>2. CASE i \in 1 .. n
          <5>1. kind # "good"
            <6>1. n + 1 \in i + 1 .. n + 1
              BY <1>1, <4>2
            <6>2. queue'[s][n + 1].kind = kind
              BY <1>1, <1>3
            <6> QED
              BY <1>3, <3>1, <6>1, <6>2 DEF LastGood
          <5>2. LastGood(queue[s], i)
            <6>1. queue[s][i].kind = "good"
              BY <1>3, <3>1, <4>2 DEF LastGood
            <6>2. ASSUME NEW k \in i + 1 .. n PROVE queue[s][k].kind # "good"
              <7>1. k \in 1 .. n /\ k \in i + 1 .. n + 1
                BY <1>1, <4>2
              <7> QED
                BY <1>3, <3>1, <7>1 DEF LastGood
            <6> QED
              BY <6>1, <6>2 DEF LastGood
          <5> QED
            BY <1>3, <1>4, <2>1, <2>4, <4>2, <5>1, <5>2
        <4> QED
          BY <1>1, <4>1, <4>2
      <3> QED
        BY <1>3, <2>2, <2>4, <3>1
    <2> QED
      BY <2>3, <2>4
  <1>7. WellFormed'
    <2> SUFFICES ASSUME NEW r \in ClientStreams, NEW i \in 1 .. Len(queue'[r])
        PROVE  queue'[r][i].kind \in {"good", "foreign"}
      BY DEF WellFormed
    <2>1. r \in Streams /\ \A k \in 1 .. Len(queue[r]) : queue[r][k].kind \in {"good", "foreign"}
      BY DEF TransportInv, WellFormed, Streams
    <2>2. CASE r = s
      <3>1. CASE i = n + 1
        BY <1>1, <1>3, <2>2, <3>1
      <3>2. CASE i \in 1 .. n
        BY <1>3, <2>1, <2>2, <3>2
      <3> QED
        BY <1>1, <1>3, <2>2, <3>1, <3>2
    <2>3. CASE r # s
      BY <1>3, <2>1, <2>3
    <2> QED
      BY <2>2, <2>3
  <1>8. Waiting' /\ AnsweredInOrder' /\ Resumed'
    BY Zenon DEF TransportInv, Waiting, AnsweredInOrder, Resumed
  <1> QED
    BY <1>5, <1>6, <1>7, <1>8 DEF TransportInv

(* Whatever leaves queues, acknowledgements and the pause alone.             *)
LEMMA QuietStep ==
    ASSUME TransportInv, TransportTypes',
           UNCHANGED <<role, commandQueue, queue, paused, applied, delivered, acks, commandsSent>>,
           framesSent <= framesSent'
    PROVE  TransportInv'
  <1>1. Waiting' /\ AnsweredInOrder' /\ Resumed' /\ WellFormed'
    BY Zenon DEF TransportInv, Waiting, AnsweredInOrder, Resumed, WellFormed
  <1>2. NewestDelivered'
    <2> SUFFICES ASSUME NEW s \in Streams
        PROVE  /\ applied[s] <= delivered[s] /\ delivered[s] <= framesSent'
               /\ \A i \in 1 .. Len(queue[s]) : LastGood(queue[s], i) => queue[s][i].id = delivered[s]
      BY DEF NewestDelivered, LastGood
    <2>1. /\ applied[s] <= delivered[s] /\ delivered[s] <= framesSent
          /\ \A i \in 1 .. Len(queue[s]) : LastGood(queue[s], i) => queue[s][i].id = delivered[s]
      BY DEF TransportInv, NewestDelivered
    <2>2. delivered[s] \in Nat /\ framesSent \in Int /\ framesSent' \in Int
      BY TransportAssumption DEF TransportInv, TransportTypes
    <2> QED
      BY <2>1, <2>2
  <1> QED
    BY <1>1, <1>2 DEF TransportInv

(* A frame for the node is no frame of the client's streams.                 *)
LEMMA DeliverJointsStep ==
    ASSUME TransportInv, NEW s \in Streams, DeliverJoints(s) PROVE TransportInv'
  <1>1. s \notin ClientStreams
    BY DEF DeliverJoints, Subscribed, ClientStreams
  <1>2. PICK kind \in FrameKinds : Enqueue(s, kind)
    BY DEF DeliverJoints
  <1> QED
    BY <1>1, <1>2, EnqueueStep DEF DeliverJoints

(* What the node publishes is queued or lost.                                *)
LEMMA PublishStep ==
    ASSUME TransportInv, NEW s \in ClientStreams, Publish(s) PROVE TransportInv'
  <1>1. s \in Streams
    BY DEF Streams
  <1>2. PICK kind \in FrameKinds \cap {"good", "foreign"} :
            \/ Len(queue[s]) < QueueBound /\ Enqueue(s, kind)
            \/ framesSent' = framesSent + 1 /\ UNCHANGED <<queue, delivered>>
    BY DEF Publish
  <1>3. CASE Len(queue[s]) < QueueBound /\ Enqueue(s, kind)
    BY <1>1, <1>2, <1>3, EnqueueStep DEF Publish
  <1>4. CASE framesSent' = framesSent + 1 /\ UNCHANGED <<queue, delivered>>
    <2>1. framesSent \in 0 .. MaxFrames /\ MaxFrames \in Nat /\ framesSent < MaxFrames
      BY TransportAssumption DEF TransportInv, TransportTypes, Publish
    <2>2. framesSent' \in 0 .. MaxFrames /\ framesSent <= framesSent'
      BY <1>4, <2>1
    <2>3. UNCHANGED <<role, commandQueue, running, stepDue, paused, recovering, rejecting, applied, acks,
                      commandsSent>>
      BY DEF Publish
    <2>4. TransportTypes'
      BY <1>4, <2>2, <2>3 DEF TransportInv, TransportTypes
    <2> QED
      BY <1>4, <2>2, <2>3, <2>4, QuietStep
  <1> QED
    BY <1>2, <1>3, <1>4

(* The device changes none of the queues.                                    *)
LEMMA DeviceChangesStep == ASSUME TransportInv, DeviceChanges PROVE TransportInv'
  <1>1. UNCHANGED <<role, commandQueue, queue, paused, applied, delivered, acks, commandsSent,
                    framesSent>>
    BY DEF DeviceChanges
  <1>2. /\ recovering' \in BOOLEAN /\ rejecting' \in BOOLEAN /\ running' \in BOOLEAN
        /\ stepDue' \in BOOLEAN
    BY Zenon DEF DeviceChanges, TransportInv, TransportTypes
  <1>3. TransportTypes'
    BY <1>1, <1>2 DEF TransportInv, TransportTypes
  <1>4. framesSent <= framesSent'
    BY <1>1, TransportAssumption DEF TransportInv, TransportTypes
  <1> QED
    BY <1>1, <1>3, <1>4, QuietStep

(* What a client's poll and a drain of the node act on is the newest good    *)
(* frame.                                                                    *)
LEMMA NewestApplied ==
    ASSUME TransportInv, NEW s \in Streams, NEW i \in 1 .. Len(queue[s]),
           queue[s][i].kind = "good",
           \A k \in i + 1 .. Len(queue[s]) : queue[s][k].kind # "good"
    PROVE  queue[s][i].id = delivered[s]
  BY DEF TransportInv, NewestDelivered, LastGood

(* The node's drain keeps the last payload of the right size.                *)
LEMMA LatestIsNewest ==
    ASSUME TransportInv, NEW s \in Streams
    PROVE  LET i == Latest(queue[s]) IN
           i # 0 /\ ValidFrame(queue[s][i]) => queue[s][i].id = delivered[s]
  <1> DEFINE q == queue[s]
             I == {i \in 1 .. Len(q) : q[i].kind \in Sized}
             i == Latest(q)
  <1>1. Len(q) \in Nat
    BY DEF TransportInv, TransportTypes
  <1>2. i = IF I # {} THEN Max(I) ELSE 0
    BY DEF Latest, SelectLastInSeq
  <1>3. i \in 0 .. Len(q) /\ (i # 0 => i \in I /\ \A k \in i + 1 .. Len(q) : k \notin I)
    <2>1. I \in SUBSET (1 .. Len(q))
      OBVIOUS
    <2> HIDE DEF i, I, q
    <2> QED
      BY <1>1, <1>2, <2>1, LastIndex
  <1> HIDE DEF i
  <1> SUFFICES ASSUME i # 0, ValidFrame(q[i]) PROVE q[i].id = delivered[s]
    BY DEF i
  <1>4. i \in 1 .. Len(q) /\ q[i].kind = "good"
    BY <1>1, <1>3 DEF ValidFrame
  <1>5. ASSUME NEW k \in i + 1 .. Len(q) PROVE q[k].kind # "good"
    <2>1. k \in 1 .. Len(q) /\ k \notin I
      BY <1>1, <1>3, <1>4
    <2> QED
      BY <2>1 DEF Sized
  <1> QED
    BY <1>4, <1>5, NewestApplied

(* The client's drain keeps the last frame of its topic.                     *)
LEMMA PolledIsNewest ==
    ASSUME TransportInv, NEW s \in ClientStreams
    PROVE  LET i == SelectLastInSeq(queue[s], LAMBDA f : f.kind # "foreign") IN
           i # 0 => queue[s][i].id = delivered[s]
  <1> DEFINE q == queue[s]
             I == {i \in 1 .. Len(q) : q[i].kind # "foreign"}
             i == SelectLastInSeq(q, LAMBDA f : f.kind # "foreign")
  <1>0. s \in Streams
    BY DEF Streams
  <1>1. Len(q) \in Nat
    BY <1>0 DEF TransportInv, TransportTypes
  <1>2. i = IF I # {} THEN Max(I) ELSE 0
    BY DEF SelectLastInSeq
  <1>3. i \in 0 .. Len(q) /\ (i # 0 => i \in I /\ \A k \in i + 1 .. Len(q) : k \notin I)
    <2>1. I \in SUBSET (1 .. Len(q))
      OBVIOUS
    <2> HIDE DEF i, I, q
    <2> QED
      BY <1>1, <1>2, <2>1, LastIndex
  <1> HIDE DEF i
  <1> SUFFICES ASSUME i # 0 PROVE q[i].id = delivered[s]
    BY DEF i
  <1>4. i \in 1 .. Len(q) /\ q[i].kind # "foreign"
    BY <1>1, <1>3
  <1>5. q[i].kind = "good"
    BY <1>4 DEF TransportInv, WellFormed
  <1>6. ASSUME NEW k \in i + 1 .. Len(q) PROVE q[k].kind # "good"
    <2>1. k \in 1 .. Len(q) /\ k \notin I
      BY <1>1, <1>3, <1>4
    <2> QED
      BY <2>1
  <1> QED
    BY <1>0, <1>4, <1>5, <1>6, NewestApplied

(* A poll of the client touches its own streams only.                        *)
LEMMA ClientPollStep ==
    ASSUME TransportInv, NEW s \in ClientStreams, ClientPoll(s)
    PROVE  /\ TransportInv'
           /\ \A r \in Streams : applied'[r] # applied[r] => applied'[r] = delivered[r]
           /\ applied'["live"] = applied["live"]
  <1> DEFINE i == SelectLastInSeq(queue[s], LAMBDA f : f.kind # "foreign")
  <1>1. /\ queue' = [queue EXCEPT ![s] = << >>]
        /\ applied' = IF i = 0 THEN applied ELSE [applied EXCEPT ![s] = queue[s][i].id]
        /\ UNCHANGED <<role, commandQueue, running, stepDue, paused, recovering, rejecting, delivered>>
        /\ UNCHANGED <<acks, commandsSent, framesSent>>
    BY DEF ClientPoll
  <1>2. i # 0 => queue[s][i].id = delivered[s]
    BY PolledIsNewest
  <1> HIDE DEF i
  <1>3. s \in Streams /\ "live" \in Streams /\ s # "live"
    BY DEF Streams, ClientStreams
  <1>4. /\ queue \in [Streams -> Seq(Frames)] /\ applied \in [Streams -> Nat]
        /\ delivered \in [Streams -> Nat] /\ QueueBound \in Nat
    BY TransportAssumption DEF TransportInv, TransportTypes
  <1>5. applied' = applied \/ applied' = [applied EXCEPT ![s] = delivered[s]]
    BY <1>1, <1>2
  <1>6. /\ \A r \in Streams : applied'[r] = applied[r] \/ applied'[r] = delivered[r]
        /\ applied' \in [Streams -> Nat] /\ applied'["live"] = applied["live"]
    BY <1>3, <1>4, <1>5
  <1>7. /\ queue' \in [Streams -> Seq(Frames)] /\ queue'[s] = <<>>
        /\ \A r \in Streams : queue'[r] = <<>> \/ queue'[r] = queue[r]
    BY <1>1, <1>3, <1>4
  <1>8. TransportTypes'
    <2>1. \A r \in Streams : Len(queue'[r]) <= QueueBound
      BY <1>4, <1>7 DEF TransportInv, TransportTypes
    <2> QED
      BY <1>1, <1>6, <1>7, <2>1 DEF TransportInv, TransportTypes
  <1>9. NewestDelivered'
    <2> SUFFICES ASSUME NEW r \in Streams
        PROVE  /\ applied'[r] <= delivered[r] /\ delivered[r] <= framesSent
               /\ \A k \in 1 .. Len(queue'[r]) :
                    LastGood(queue'[r], k) => queue'[r][k].id = delivered[r]
      BY <1>1 DEF NewestDelivered, LastGood
    <2>1. /\ applied[r] <= delivered[r] /\ delivered[r] <= framesSent
          /\ \A k \in 1 .. Len(queue[r]) : LastGood(queue[r], k) => queue[r][k].id = delivered[r]
      BY DEF TransportInv, NewestDelivered
    <2>2. applied'[r] <= delivered[r]
      <3>1. delivered[r] \in Nat
        BY <1>4
      <3> QED
        BY <1>6, <2>1, <3>1
    <2>3. \A k \in 1 .. Len(queue'[r]) :
              LastGood(queue'[r], k) => queue'[r][k].id = delivered[r]
      BY <1>7, <2>1
    <2> QED
      BY <2>1, <2>2, <2>3
  <1>10. WellFormed'
    <2> SUFFICES ASSUME NEW r \in ClientStreams, NEW k \in 1 .. Len(queue'[r])
        PROVE  queue'[r][k].kind \in {"good", "foreign"}
      BY DEF WellFormed
    <2>1. r \in Streams
      BY DEF Streams
    <2>2. queue'[r] = queue[r]
      BY <1>7, <2>1
    <2> QED
      BY <2>2 DEF TransportInv, WellFormed
  <1>11. Waiting' /\ AnsweredInOrder' /\ Resumed'
    BY <1>1, Zenon DEF TransportInv, Waiting, AnsweredInOrder, Resumed
  <1> QED
    BY <1>6, <1>8, <1>9, <1>10, <1>11 DEF TransportInv

(* The three results of a command.                                           *)
LEMMA CommandResults == \A command : CommandResult(command) \in {"success", "busy", "notSupported"}
  BY DEF CommandResult, EffectorResult

(* One message fewer waits.                                                  *)
LEMMA ConsumedQueue ==
    ASSUME TransportInv, commandQueue' = Consumed
    PROVE  /\ commandQueue' \in Seq(Messages) /\ Len(commandQueue') <= Len(commandQueue)
           /\ commandQueue # <<>> =>
                /\ Len(commandQueue') = Len(commandQueue) - 1
                /\ \A k \in 1 .. Len(commandQueue') : commandQueue'[k] = commandQueue[k + 1]
           /\ commandQueue = <<>> => commandQueue' = commandQueue
  <1>1. commandQueue \in Seq(Messages)
    BY DEF TransportInv, TransportTypes
  <1>2. CASE commandQueue = <<>>
    BY <1>1, <1>2 DEF Consumed
  <1>3. CASE commandQueue # <<>>
    <2>1. commandQueue' = Tail(commandQueue)
      BY <1>3 DEF Consumed
    <2> QED
      BY <1>1, <1>3, <2>1
  <1> QED
    BY <1>2, <1>3

(* Commands are taken in order, and a pause counts with its acknowledgement. *)
LEMMA TakeCommandStep ==
    ASSUME TransportInv, TakeCommand, commandQueue' = Consumed, commandsSent' = commandsSent,
           role' = role
    PROVE  /\ running' \in BOOLEAN /\ paused' \in BOOLEAN /\ acks' \in Seq(Acks)
           /\ Waiting' /\ AnsweredInOrder' /\ Resumed'
  <1> DEFINE q == commandQueue
             n == Len(acks)
  <1>1. /\ q \in Seq(Messages) /\ acks \in Seq(Acks) /\ n \in Nat /\ Len(q) \in Nat
        /\ commandsSent \in Nat
    BY DEF TransportInv, TransportTypes
  <1>2. running \in BOOLEAN /\ paused \in BOOLEAN
    BY DEF TransportInv, TransportTypes
  <1>3. /\ q' \in Seq(Messages) /\ Len(q') <= Len(q)
        /\ q # <<>> => /\ Len(q') = Len(q) - 1
                       /\ \A k \in 1 .. Len(q') : q'[k] = q[k + 1]
        /\ q = <<>> => q' = q
    BY ConsumedQueue
  <1>4. \A k \in 1 .. Len(q') : \E m \in 1 .. Len(q) : q'[k] = q[m] /\ k <= m /\ (q # <<>> => m = k + 1)
    <2> SUFFICES ASSUME NEW k \in 1 .. Len(q')
        PROVE \E m \in 1 .. Len(q) : q'[k] = q[m] /\ k <= m /\ (q # <<>> => m = k + 1)
      OBVIOUS
    <2>1. CASE q = <<>>
      BY <1>1, <1>3, <2>1
    <2>2. CASE q # <<>>
      <3>1. k + 1 \in 1 .. Len(q) /\ q'[k] = q[k + 1] /\ k <= k + 1
        BY <1>1, <1>3, <2>2
      <3> QED
        BY <2>2, <3>1
    <2> QED
      BY <2>1, <2>2
  <1>5. /\ \A k \in 1 .. Len(q') : q'[k].id <= commandsSent
        /\ \A i, k \in 1 .. Len(q') : i < k => q'[i].id < q'[k].id
        /\ \A i \in 1 .. n, k \in 1 .. Len(q') : acks[i].id < q'[k].id
    <2>1. \A k \in 1 .. Len(q') : q'[k].id <= commandsSent
      BY <1>4 DEF TransportInv, Waiting
    <2>2. \A i \in 1 .. n, k \in 1 .. Len(q') : acks[i].id < q'[k].id
      BY <1>4 DEF TransportInv, Waiting
    <2>3. ASSUME NEW i \in 1 .. Len(q'), NEW k \in 1 .. Len(q'), i < k PROVE q'[i].id < q'[k].id
      <3>1. CASE q = <<>>
        BY <1>1, <1>3, <3>1
      <3>2. CASE q # <<>>
        <4>1. q'[i] = q[i + 1] /\ q'[k] = q[k + 1] /\ i + 1 < k + 1
              /\ i + 1 \in 1 .. Len(q) /\ k + 1 \in 1 .. Len(q)
          BY <1>1, <1>3, <2>3, <3>2
        <4> QED
          BY <4>1 DEF TransportInv, Waiting
      <3> QED
        BY <3>1, <3>2
    <2> QED
      BY <2>1, <2>2, <2>3
  <1>6. CASE q = <<>> \/ Head(q).kind # "good"
    <2>1. UNCHANGED <<running, paused, acks>>
      BY <1>6 DEF TakeCommand
    <2>2. Waiting'
      BY <1>5, <2>1 DEF TransportInv, Waiting
    <2>3. AnsweredInOrder' /\ Resumed'
      BY <2>1, Zenon DEF TransportInv, AnsweredInOrder, Resumed
    <2> QED
      BY <1>1, <1>2, <2>1, <2>2, <2>3
  <1>7. CASE q # <<>> /\ Head(q).kind = "good"
    <2> DEFINE message == Head(q)
               ack == Ack(message)
    <2>1. /\ running' = RunningAfter(message.command)
          /\ paused' = PausedAfter(message.command)
          /\ acks' = Append(acks, ack)
      BY <1>7 DEF TakeCommand
    <2>2. message = q[1] /\ 1 \in 1 .. Len(q)
      BY <1>1, <1>7
    <2>3. message.id \in Nat /\ message.command \in Commands \cup {"none"}
      BY <1>1, <2>2, MessageTypes
    <2> HIDE DEF message
    <2>4. /\ ack.id = message.id /\ ack.command = message.command
          /\ ack.result = CommandResult(message.command)
          /\ ack \in Acks
      BY <2>3, CommandResults DEF Ack, Acks
    <2> HIDE DEF ack
    <2>5. /\ acks' \in Seq(Acks) /\ Len(acks') = n + 1 /\ acks'[n + 1] = ack
          /\ \A i \in 1 .. n : acks'[i] = acks[i]
      BY <1>1, <2>1, <2>4
    <2>6. running' \in BOOLEAN
      BY <1>2, <2>1, Zenon DEF RunningAfter
    <2>7. paused' \in BOOLEAN
      BY <1>2, <2>1, Zenon DEF PausedAfter
    <2>8. \A i \in 1 .. n : acks[i].id < message.id
      BY <2>2 DEF TransportInv, Waiting
    <2>9. message.id <= commandsSent
      BY <2>2 DEF TransportInv, Waiting
    <2>10. \A k \in 1 .. Len(q') : message.id < q'[k].id
      <3> SUFFICES ASSUME NEW k \in 1 .. Len(q') PROVE message.id < q'[k].id
        OBVIOUS
      <3>1. q'[k] = q[k + 1] /\ k + 1 \in 1 .. Len(q) /\ 1 < k + 1
        BY <1>1, <1>3, <1>7
      <3> QED
        BY <2>2, <3>1 DEF TransportInv, Waiting
    <2>11. Waiting'
      <3>1. ASSUME NEW i \in 1 .. n + 1
            PROVE  /\ acks'[i].id <= commandsSent
                   /\ \A k \in 1 .. Len(q') : acks'[i].id < q'[k].id
        <4>1. CASE i = n + 1
          BY <2>4, <2>5, <2>9, <2>10, <4>1
        <4>2. CASE i \in 1 .. n
          <5>1. acks[i].id <= commandsSent
            BY <4>2 DEF TransportInv, Waiting
          <5> QED
            BY <1>5, <2>5, <4>2, <5>1
        <4> QED
          BY <1>1, <4>1, <4>2
      <3> QED
        BY <1>5, <2>5, <3>1 DEF Waiting
    <2>12. AnsweredInOrder'
      <3> SUFFICES ASSUME NEW i \in 2 .. n + 1 PROVE acks'[i - 1].id < acks'[i].id
        BY <2>5 DEF AnsweredInOrder
      <3>1. i - 1 \in 1 .. n /\ acks'[i - 1] = acks[i - 1]
        BY <1>1, <2>5
      <3>2. CASE i = n + 1
        BY <2>4, <2>5, <2>8, <3>1, <3>2
      <3>3. CASE i \in 2 .. n
        <4>1. acks'[i] = acks[i]
          BY <1>1, <2>5, <3>3
        <4> QED
          BY <3>1, <3>3, <4>1 DEF TransportInv, AnsweredInOrder
      <3> QED
        BY <1>1, <3>2, <3>3
    <2>13. Resumed'
      <3> SUFFICES ASSUME role = "follower", ~paused'
          PROVE \E i \in 1 .. n + 1 :
                  /\ Pausing(acks'[i]) /\ acks'[i].command = "resume"
                  /\ \A k \in i + 1 .. n + 1 : ~Pausing(acks'[k])
        BY <2>5 DEF Resumed
      <3>1. CASE message.command = "resume" /\ CommandResult(message.command) = "success"
        <4>1. Pausing(acks'[n + 1]) /\ acks'[n + 1].command = "resume"
          BY <2>4, <2>5, <3>1 DEF Pausing, PauseCommands
        <4>2. n + 1 \in 1 .. n + 1 /\ \A k \in (n + 1) + 1 .. n + 1 : ~Pausing(acks'[k])
          BY <1>1
        <4> QED
          BY <4>1, <4>2
      <3>2. CASE ~(message.command = "resume" /\ CommandResult(message.command) = "success")
        <4>1. ~paused /\ ~Pausing(ack)
          <5>1. CASE CommandResult(message.command) # "success"
            BY <2>1, <2>4, <5>1, Zenon DEF PausedAfter, Pausing
          <5>2. CASE CommandResult(message.command) = "success"
            <6>1. message.command \notin {"pause", "moveAndPause", "moveAndStop"}
              BY <2>1, <5>2, Zenon DEF PausedAfter
            <6>2. message.command # "resume"
              BY <3>2, <5>2
            <6>3. message.command \notin PauseCommands
              BY <6>1, <6>2 DEF PauseCommands
            <6>4. ~paused
              BY <2>1, <5>2, <6>1, <6>2, Zenon DEF PausedAfter
            <6> QED
              BY <2>4, <6>3, <6>4 DEF Pausing
          <5> QED
            BY <5>1, <5>2
        <4>2. PICK i \in 1 .. n :
                /\ Pausing(acks[i]) /\ acks[i].command = "resume"
                /\ \A k \in i + 1 .. n : ~Pausing(acks[k])
          BY <4>1 DEF TransportInv, Resumed
        <4>3. i \in 1 .. n + 1 /\ Pausing(acks'[i]) /\ acks'[i].command = "resume"
          BY <1>1, <2>5, <4>2
        <4>4. ASSUME NEW k \in i + 1 .. n + 1 PROVE ~Pausing(acks'[k])
          <5>1. CASE k = n + 1
            BY <2>5, <4>1, <5>1
          <5>2. CASE k # n + 1
            <6>1. k \in i + 1 .. n /\ k \in 1 .. n
              BY <1>1, <4>2, <5>2
            <6> QED
              BY <2>5, <4>2, <6>1
          <5> QED
            BY <5>1, <5>2
        <4> QED
          BY <4>3, <4>4
      <3> QED
        BY <3>1, <3>2
    <2> QED
      BY <2>5, <2>6, <2>7, <2>11, <2>12, <2>13
  <1> QED
    BY <1>6, <1>7

(* The drains empty the sockets the role subscribes to; a live target is     *)
(* acted on only by a follower that listens after the step's command.        *)
LEMMA DrainStep ==
    ASSUME TransportInv, DrainStreams
    PROVE  /\ queue' \in [Streams -> Seq(Frames)] /\ applied' \in [Streams -> Nat]
           /\ \A s \in Streams : applied'[s] = applied[s] \/ applied'[s] = delivered[s]
           /\ \A s \in Streams : queue'[s] = <<>> \/ queue'[s] = queue[s]
           /\ running' => \A s \in Subscribed : queue'[s] = <<>>
           /\ applied'["live"] # applied["live"] => role = "follower" /\ ~paused'
  <1>1. /\ queue \in [Streams -> Seq(Frames)] /\ applied \in [Streams -> Nat]
        /\ delivered \in [Streams -> Nat]
    BY DEF TransportInv, TransportTypes
  <1>2. Subscribed \subseteq Streams /\ "live" \in Streams
        /\ ("live" \in Subscribed => role = "follower")
    BY DEF Subscribed, Streams
  <1>3. ASSUME NEW s \in Streams PROVE AppliedFrom(s) = applied[s] \/ AppliedFrom(s) = delivered[s]
    <2> DEFINE i == Latest(queue[s])
    <2>1. i # 0 /\ ValidFrame(queue[s][i]) => queue[s][i].id = delivered[s]
      BY LatestIsNewest
    <2> HIDE DEF i
    <2>2. AppliedFrom(s) =
              IF i = 0 \/ ~ValidFrame(queue[s][i]) \/ ~Accepts(s) THEN applied[s] ELSE queue[s][i].id
      BY DEF AppliedFrom, i
    <2> QED
      BY <2>1, <2>2
  <1>4. CASE running'
    <2>1. /\ applied' = [s \in Streams |-> IF s \in Subscribed THEN AppliedFrom(s) ELSE applied[s]]
          /\ queue' = [s \in Streams |-> IF s \in Subscribed THEN << >> ELSE queue[s]]
      BY <1>4 DEF DrainStreams
    <2>2. /\ queue' \in [Streams -> Seq(Frames)]
          /\ \A s \in Streams : queue'[s] = <<>> \/ queue'[s] = queue[s]
          /\ \A s \in Subscribed : queue'[s] = <<>>
      BY <1>1, <1>2, <2>1
    <2>3. \A s \in Streams : applied'[s] = applied[s] \/ applied'[s] = delivered[s]
      BY <1>3, <2>1
    <2>4. applied' \in [Streams -> Nat]
      <3>1. \A s \in Streams :
              (IF s \in Subscribed THEN AppliedFrom(s) ELSE applied[s]) \in Nat
        BY <1>1, <1>3
      <3> QED
        BY <2>1, <3>1
    <2>5. ASSUME applied'["live"] # applied["live"] PROVE role = "follower" /\ ~paused'
      <3>1. "live" \in Subscribed /\ AppliedFrom("live") # applied["live"]
        BY <1>2, <2>1, <2>5
      <3>2. role = "follower" /\ Accepts("live")
        BY <1>2, <3>1, Zenon DEF AppliedFrom
      <3> QED
        BY <3>2, Zenon DEF Accepts
    <2> QED
      BY <2>2, <2>3, <2>4, <2>5
  <1>5. CASE ~running'
    <2>1. applied' = applied /\ queue' = queue
      BY <1>5 DEF DrainStreams
    <2> QED
      BY <1>1, <1>5, <2>1
  <1> QED
    BY <1>4, <1>5

(* One step of the topic: the command first, then the drains.                *)
LEMMA TopicStepStep == ASSUME TransportInv, TopicStep PROVE TransportInv'
  <1>1. /\ running' \in BOOLEAN /\ paused' \in BOOLEAN /\ acks' \in Seq(Acks)
        /\ Waiting' /\ AnsweredInOrder' /\ Resumed'
    BY TakeCommandStep DEF TopicStep
  <1>2. /\ queue' \in [Streams -> Seq(Frames)] /\ applied' \in [Streams -> Nat]
        /\ \A s \in Streams : applied'[s] = applied[s] \/ applied'[s] = delivered[s]
        /\ \A s \in Streams : queue'[s] = <<>> \/ queue'[s] = queue[s]
    BY DrainStep DEF TopicStep
  <1>3. commandQueue' \in Seq(Messages) /\ Len(commandQueue') <= Len(commandQueue)
    BY ConsumedQueue DEF TopicStep
  <1>4. UNCHANGED <<role, recovering, rejecting, delivered, commandsSent, framesSent>>
    BY DEF TopicStep
  <1>9. stepDue' \in BOOLEAN
    BY <1>1, Zenon DEF TopicStep
  <1>5. /\ QueueBound \in Nat /\ delivered \in [Streams -> Nat] /\ applied \in [Streams -> Nat]
        /\ commandQueue \in Seq(Messages) /\ Len(commandQueue) <= QueueBound
        /\ \A s \in Streams : Len(queue[s]) <= QueueBound
    BY TransportAssumption DEF TransportInv, TransportTypes
  <1>6. TransportTypes'
    <2>1. Len(commandQueue') <= QueueBound
      <3>1. Len(commandQueue') \in Nat /\ Len(commandQueue) \in Nat
        BY <1>3, <1>5
      <3> QED
        BY <1>3, <1>5, <3>1
    <2>2. ASSUME NEW s \in Streams PROVE Len(queue'[s]) <= QueueBound
      <3>1. Len(<<>>) <= QueueBound
        BY <1>5
      <3> QED
        BY <1>2, <1>5, <3>1
    <2> QED
      BY <1>1, <1>2, <1>3, <1>4, <1>9, <2>1, <2>2 DEF TransportInv, TransportTypes
  <1>7. NewestDelivered'
    <2> SUFFICES ASSUME NEW s \in Streams
        PROVE  /\ applied'[s] <= delivered[s] /\ delivered[s] <= framesSent
               /\ \A k \in 1 .. Len(queue'[s]) :
                    LastGood(queue'[s], k) => queue'[s][k].id = delivered[s]
      BY <1>4 DEF NewestDelivered, LastGood
    <2>1. /\ applied[s] <= delivered[s] /\ delivered[s] <= framesSent
          /\ \A k \in 1 .. Len(queue[s]) : LastGood(queue[s], k) => queue[s][k].id = delivered[s]
      BY DEF TransportInv, NewestDelivered
    <2>2. applied'[s] <= delivered[s]
      <3>1. delivered[s] \in Nat
        BY <1>5
      <3> QED
        BY <1>2, <2>1, <3>1
    <2>3. \A k \in 1 .. Len(queue'[s]) :
              LastGood(queue'[s], k) => queue'[s][k].id = delivered[s]
      BY <1>2, <2>1
    <2> QED
      BY <2>1, <2>2, <2>3
  <1>8. WellFormed'
    <2> SUFFICES ASSUME NEW s \in ClientStreams, NEW k \in 1 .. Len(queue'[s])
        PROVE  queue'[s][k].kind \in {"good", "foreign"}
      BY DEF WellFormed
    <2>1. s \in Streams
      BY DEF Streams
    <2>2. queue'[s] = queue[s]
      BY <1>2, <2>1
    <2> QED
      BY <2>2 DEF TransportInv, WellFormed
  <1> QED
    BY <1>1, <1>6, <1>7, <1>8 DEF TransportInv

(* One step of the topic, its peers or its device.                           *)
LEMMA TransportStep == TransportInv /\ [TransportNext]_transportVars => TransportInv'
  <1> SUFFICES ASSUME TransportInv, [TransportNext]_transportVars PROVE TransportInv'
    OBVIOUS
  <1>1. CASE TopicEnded \/ UNCHANGED transportVars
    <2>1. UNCHANGED <<role, commandQueue, queue, running, stepDue, paused, recovering, rejecting,
                      applied, delivered, acks, commandsSent, framesSent>>
      BY <1>1 DEF TopicEnded, transportVars
    <2>2. TransportTypes'
      BY <2>1 DEF TransportInv, TransportTypes
    <2>3. framesSent <= framesSent'
      BY <2>1, TransportAssumption DEF TransportInv, TransportTypes
    <2> QED
      BY <2>1, <2>2, <2>3, QuietStep
  <1>2. CASE PublishJoints \/ PublishJoystick
    <2>1. "state" \in ClientStreams /\ "inputs" \in ClientStreams
      BY DEF ClientStreams
    <2> QED
      BY <1>2, <2>1, PublishStep DEF PublishJoints, PublishJoystick
  <1>3. CASE \E s \in ClientStreams : ClientPoll(s)
    BY <1>3, ClientPollStep
  <1>4. CASE \E s \in Streams : DeliverJoints(s)
    BY <1>4, DeliverJointsStep
  <1> QED
    BY <1>1, <1>2, <1>3, <1>4, DeliverCommandStep, DeviceChangesStep, TopicStepStep
    DEF TransportNext

(* The last acknowledged pause or resume of a follower that listens is a     *)
(* resume.                                                                   *)
LEMMA ResumeIsLast ==
    ASSUME NEW answers \in Seq(Acks), NEW i \in 1 .. Len(answers), Pausing(answers[i]),
           \A k \in i + 1 .. Len(answers) : ~Pausing(answers[k])
    PROVE  LastPauseAck(answers) = i
  <1> DEFINE I == {k \in 1 .. Len(answers) : answers[k].command \in PauseCommands /\ answers[k].result = "success"}
             j == LastPauseAck(answers)
  <1>1. j = IF I # {} THEN Max(I) ELSE 0
    BY DEF LastPauseAck, SelectLastInSeq
  <1>2. I \in SUBSET (1 .. Len(answers))
    OBVIOUS
  <1>9. Len(answers) \in Nat
    OBVIOUS
  <1>3. i \in I
    BY DEF Pausing
  <1>4. ASSUME NEW k \in i + 1 .. Len(answers) PROVE k \notin I
    BY <1>4 DEF Pausing
  <1>10. i \in 1 .. Len(answers)
    OBVIOUS
  <1> HIDE DEF I, j
  <1>5. j \in 0 .. Len(answers) /\ (j # 0 => j \in I /\ \A k \in j + 1 .. Len(answers) : k \notin I)
    BY <1>1, <1>2, <1>9, LastIndex
  <1>6. j # 0
    <2>1. j = 0 => I = {}
      BY <1>1, <1>2, <1>9, LastIndex
    <2> QED
      BY <1>3, <2>1
  <1>7. ~(i < j)
    <2>1. i < j => j \in i + 1 .. Len(answers)
      BY <1>5, <1>9, <1>10
    <2> QED
      BY <1>4, <1>5, <1>6, <2>1
  <1>8. ~(j < i)
    <2>1. j < i => i \in j + 1 .. Len(answers)
      BY <1>5, <1>9, <1>10
    <2> QED
      BY <1>3, <1>5, <1>6, <2>1
  <1>11. j = i
    BY <1>5, <1>7, <1>8, <1>9, <1>10
  <1> QED
    BY <1>11 DEF j

(* What a step of the topic, or of a client, may act on.                     *)
LEMMA OrderStep ==
    ASSUME TransportInv, TransportInv', TransportNext
    PROVE  /\ \A s \in Streams : applied'[s] # applied[s] => applied'[s] = delivered[s]
           /\ TopicStep /\ running' => \A s \in Subscribed : queue'[s] = << >>
           /\ applied'["live"] # applied["live"] =>
                LET i == LastPauseAck(acks') IN i # 0 /\ acks'[i].command = "resume"
  <1>1. CASE TopicStep
    <2>1. /\ \A s \in Streams : applied'[s] = applied[s] \/ applied'[s] = delivered[s]
          /\ running' => \A s \in Subscribed : queue'[s] = <<>>
          /\ applied'["live"] # applied["live"] => role = "follower" /\ ~paused'
      BY <1>1, DrainStep DEF TopicStep
    <2>2. ASSUME applied'["live"] # applied["live"]
          PROVE  LET i == LastPauseAck(acks') IN i # 0 /\ acks'[i].command = "resume"
      <3>1. role' = "follower" /\ ~paused'
        BY <1>1, <2>1, <2>2 DEF TopicStep
      <3>2. acks' \in Seq(Acks)
        BY DEF TransportInv, TransportTypes
      <3>3. PICK i \in 1 .. Len(acks') :
                /\ Pausing(acks'[i]) /\ acks'[i].command = "resume"
                /\ \A k \in i + 1 .. Len(acks') : ~Pausing(acks'[k])
        BY <3>1 DEF TransportInv, Resumed
      <3>4. LastPauseAck(acks') = i
        BY <3>2, <3>3, ResumeIsLast
      <3> QED
        BY <3>2, <3>3, <3>4
    <2> QED
      BY <2>1, <2>2
  <1>2. CASE \E s \in ClientStreams : ClientPoll(s)
    <2>1. /\ \A s \in Streams : applied'[s] # applied[s] => applied'[s] = delivered[s]
          /\ applied'["live"] = applied["live"]
      BY <1>2, ClientPollStep
    <2>2. CASE TopicStep
      BY <1>1, <2>2
    <2> QED
      BY <2>1, <2>2
  <1>3. CASE ~TopicStep /\ ~(\E s \in ClientStreams : ClientPoll(s))
    <2>1. applied' = applied
      BY <1>3 DEF TransportNext, DeliverCommand, PublishJoints, PublishJoystick, Publish,
          DeviceChanges, DeliverJoints, TopicEnded, transportVars
    <2> QED
      BY <1>3, <2>1
  <1> QED
    BY <1>1, <1>2, <1>3

(* The topics keep their order, the safety part of TopicsKeepOrder: for any  *)
(* number of commands and frames and any malformation of them, a stream acts *)
(* on the newest good frame only, a running step leaves no frame behind, an  *)
(* acknowledged pause outlasts the frames that came with it, and commands    *)
(* are answered in the order of their arrival (TopicZmq::step()).            *)
THEOREM TopicsInOrder ==
    TransportSpec => [](TransportTypeOK /\ AnsweredInOrder) /\ NewestOnly /\ PauseHolds
  <1>1. TransportSpec => []TransportInv
    BY TransportStart, TransportStep, PTL DEF TransportSpec
  <1>2. TransportInv => TransportTypeOK /\ AnsweredInOrder
    <2> SUFFICES ASSUME TransportInv PROVE TransportTypeOK /\ AnsweredInOrder
      OBVIOUS
    <2>1. {running, stepDue, paused, recovering, rejecting} \subseteq BOOLEAN
      BY Zenon DEF TransportInv, TransportTypes
    <2>2. \A s \in Streams : applied[s] <= delivered[s] /\ delivered[s] <= MaxFrames
      <3> SUFFICES ASSUME NEW s \in Streams
          PROVE applied[s] <= delivered[s] /\ delivered[s] <= MaxFrames
        OBVIOUS
      <3>1. applied[s] <= delivered[s] /\ delivered[s] <= framesSent
        BY DEF TransportInv, NewestDelivered
      <3>2. delivered[s] \in Nat /\ framesSent \in 0 .. MaxFrames /\ MaxFrames \in Nat
        BY TransportAssumption DEF TransportInv, TransportTypes
      <3> QED
        BY <3>1, <3>2
    <2> QED
      BY <2>1, <2>2 DEF TransportInv, TransportTypes, TransportTypeOK
  <1> DEFINE Newest ==
                /\ \A s \in Streams : applied'[s] # applied[s] => applied'[s] = delivered[s]
                /\ TopicStep /\ running' => \A s \in Subscribed : queue'[s] = << >>
             Pause ==
                applied'["live"] # applied["live"] =>
                    LET i == LastPauseAck(acks') IN i # 0 /\ acks'[i].command = "resume"
  <1>3. TransportInv /\ TransportInv' /\ [TransportNext]_transportVars
            => [Newest]_transportVars /\ [Pause]_transportVars
    BY OrderStep
  <1>4. TransportSpec => [][Newest]_transportVars /\ [][Pause]_transportVars
    BY <1>1, <1>3, PTL DEF TransportSpec
  <1>5. TransportSpec => NewestOnly /\ PauseHolds
    BY <1>4 DEF NewestOnly, PauseHolds
  <1> QED
    BY <1>1, <1>2, <1>5, PTL
=============================================================================
