---------------------------- MODULE PythonProofs ----------------------------
(***************************************************************************)
(* The Python side.  The client of one arm, for every number of threads,   *)
(* requests, connections and messages that a topic holds: Client.  And the *)
(* leader/follower pair, for every length of the alignment, whichever      *)
(* calls of the three threads interleave and whenever an arm is lost:      *)
(* Teleop.  The two state machines share nothing; the theorems of each are *)
(* about its own specification.                                            *)
(***************************************************************************)
EXTENDS Client, Teleop, SequenceTheorems, TLAPS

-----------------------------------------------------------------------------
(***************************************************************************)
(* The client of one arm: the inductive invariant.                         *)
(***************************************************************************)

(* The messages of a topic, and the commands of callers among them: pauses    *)
(* and holds for the cleanup come from the threads that engage a pair, which  *)
(* take no lock of the handle; all others from the one caller that holds it.  *)
In(queue) == {queue[i] : i \in 1 .. Len(queue)}
Order(m) == m[2] \notin LockFree
Sorted(queue) ==
    \A i, j \in 1 .. Len(queue) :
        i < j /\ Order(queue[i]) /\ Order(queue[j]) => queue[i][1] <= queue[j][1]

LifecycleMessages == Ids \X Commands
StatusMessages == {"READY"} \X Ids \X {"none"} \cup {"ACK"} \X Ids \X Commands

FlagTypes ==
    /\ running \in BOOLEAN /\ retired \in BOOLEAN /\ caps \in BOOLEAN /\ ready \in BOOLEAN
    /\ readySeen \in BOOLEAN /\ straddled \in BOOLEAN

DataTypes ==
    /\ role \in {"leader", "follower"}
    /\ process \in {"none", "up", "exited", "killed"}
    /\ node \in NodeStates
    /\ lifecycle \in Seq(LifecycleMessages) /\ status \in Seq(StatusMessages)
    /\ Len(lifecycle) <= Capacity /\ Len(status) <= Capacity
    /\ sockets \in {"none", "open", "closed"} /\ reader \in {"none", "alive", "gone"}
    /\ mode \in Modes \cup {"none"}
    /\ nextId \in Ids /\ pendingAck \in Ids /\ pendingReady \in Ids
    /\ acks \subseteq LifecycleMessages
    /\ requests \in 0 .. MaxRequests /\ connects \in 0 .. MaxConnects /\ arrived \in Ids
    /\ agreed \in {"yes", "pending", "no"}

UserTypes ==
    /\ armLock \in Users \cup {NoOne} /\ lifeLock \in Users \cup {NoOne}
    /\ pc \in [Users -> PCs] /\ op \in [Users -> Commands] /\ uid \in [Users -> Ids]
    /\ next \in [Users -> {"idle", "spawn"}]

(* Where a call may be, with what command and id.  A caller that is not idle  *)
(* holds the locks of the handle, so that there is one at a time.             *)
CallerInv(u) ==
    /\ pc[u] # "idle" => armLock = u
    /\ pc[u] = "idle" => uid[u] = 0 /\ op[u] = "PAUSE"
    /\ pc[u] = "lock" => op[u] \notin LockFree /\ (uid[u] = 0 <=> op[u] # "MOVE")
    /\ pc[u] = "send" => op[u] \notin LockFree /\ uid[u] # 0
    /\ pc[u] = "readyWait" => op[u] = "MOVE" /\ uid[u] # 0
    /\ pc[u] \in {"spawn", "connecting"} => op[u] = "SHUTDOWN" /\ uid[u] = 0
    /\ pc[u] \in {"waitExit", "join"} => Closing(u)
    /\ pc[u] = "spawn" => next[u] = "spawn"
    /\ next[u] = "spawn" =>
         /\ pc[u] \in {"spawn", "join"} /\ uid[u] = 0 /\ op[u] = "SHUTDOWN"
         /\ connects < MaxConnects

EngagerInv(u) ==
    /\ op[u] \in LockFree /\ pc[u] \in {"idle", "lock", "send"}
    /\ pc[u] = "send" <=> uid[u] # 0
    /\ pc[u] = "idle" => op[u] = "PAUSE"

CallInv ==
    /\ \A u \in Users : pc[u] = "send" <=> lifeLock = u
    /\ \A u \in Callers : CallerInv(u)
    /\ \A u \in Engagers : EngagerInv(u)

(* What a closing call has ended stays ended.                                 *)
GoneInv ==
    /\ \A u \in Callers : pc[u] = "connecting" => ~retired /\ process # "none"
    /\ \A u \in Callers : pc[u] = "join" => process # "up" /\ ~running
    /\ ClosedMeansGone

(* Only the holder of the lifecycle lock has an acknowledgement to come.      *)
AckInv ==
    /\ pendingAck # 0 => lifeLock # NoOne /\ uid[lifeLock] = pendingAck
    /\ AcksDrained

(* The callers' commands are queued in the order of their ids, and no command *)
(* is newer than the call in progress.                                        *)
OrderInv ==
    /\ Sorted(lifecycle)
    /\ \A m \in In(lifecycle) : m[1] # 0 /\ (Order(m) => m[1] <= nextId)
    /\ \A m \in In(status) : m[1] = "ACK" => m[2] # 0
    /\ \A u \in Callers : uid[u] <= nextId
    /\ \A u \in Callers : uid[u] # 0 => \A m \in In(lifecycle) : Order(m) =>
         m[1] <= uid[u] /\ (m[1] = uid[u] => m[2] = op[u])

(* The moves that the node has completed, is at and has yet to make are in    *)
(* the order of their ids, and it announces no other than the completed one.  *)
ReadyFor(a, n, commands, answers) ==
    /\ a <= nextId /\ n.req <= nextId
    /\ \A u \in Callers : uid[u] # 0 => a <= uid[u] /\ n.req <= uid[u]
    /\ \A m \in commands : Order(m) => a <= m[1] /\ n.req <= m[1]
    /\ n.left > 0 => n.done <= a
    /\ \A m \in answers : m[1] = "READY" => m[2] <= a
Underway(a, n) == ~n.ready => a <= n.req

ReadyInv ==
    /\ ReadyFor(arrived, node, In(lifecycle), In(status))
    /\ process = "up" => Underway(arrived, node)

(* A move in progress is pending, or was completed.                           *)
MoveInv ==
    /\ readySeen => pendingReady # 0
    /\ pendingReady # 0 => \E u \in Callers : op[u] = "MOVE" /\ uid[u] = pendingReady
    /\ \A u \in Callers : op[u] = "MOVE" =>
         \/ pendingReady = uid[u] /\ ~ready /\ (readySeen => arrived = uid[u])
         \/ pendingReady = 0 /\ arrived = uid[u]

(* While no call of an earlier connection is under way, an id stands for one  *)
(* call and its command.                                                      *)
OwnInv ==
    ~straddled =>
        /\ \A m \in In(lifecycle) : m[1] <= nextId
        /\ \A m \in In(status) : m[1] = "ACK" => m[2] <= nextId
        /\ \A u \in Users : uid[u] <= nextId
        /\ \A u, v \in Users : uid[u] # 0 /\ uid[u] = uid[v] => u = v
        /\ \A u \in Users : uid[u] # 0 =>
             /\ \A m \in In(lifecycle) : m[1] = uid[u] => m[2] = op[u]
             /\ \A m \in In(status) : m[1] = "ACK" /\ m[2] = uid[u] => m[3] = op[u]
        /\ \A a \in acks : a[2] = op[lifeLock]

(* An acknowledgement of the call in progress is there.                       *)
Answered(u) ==
    acks # {} \/ \E m \in In(status) : m[1] = "ACK" /\ m[2] = uid[u]

(* What follows a message in its queue is the same message.                   *)
Tailing(queue, m) ==
    \A i, j \in 1 .. Len(queue) : i < j /\ queue[i] = m => queue[j] = m

(* While a mode is agreed, no command that waits would change it.  The copies *)
(* of a mode change in progress are the last in their queue, so that once it  *)
(* was acknowledged nothing else is left there.                               *)
ModeInv ==
    ~straddled =>
        /\ \A u \in Users : pc[u] = "send" /\ op[u] \in Disturbing => agreed # "yes"
        /\ agreed = "yes" /\ process = "up" =>
             /\ node.mode = IF mode = "none" THEN DefaultMode ELSE mode
             /\ \A m \in In(lifecycle) :
                  m[2] \in Disturbing => m[2] \in ModeCommands /\ ModeOf(m[2]) = node.mode
        /\ \A u \in Users : pc[u] = "send" /\ op[u] \in ModeCommands =>
             /\ Tailing(lifecycle, <<uid[u], op[u]>>)
             /\ agreed = "pending" /\ process = "up" /\ Answered(u) =>
                  /\ node.mode = ModeOf(op[u])
                  /\ \A m \in In(lifecycle) : m = <<uid[u], op[u]>>

ClientInv ==
    /\ FlagTypes /\ DataTypes /\ UserTypes /\ CallInv /\ GoneInv
    /\ AckInv /\ OrderInv /\ ReadyInv /\ MoveInv /\ OwnInv /\ ModeInv

-----------------------------------------------------------------------------
(***************************************************************************)
(* Topics: what publishing and taking a message does to the messages that  *)
(* are queued, and to the order of the commands.                           *)
(***************************************************************************)

\* An appended message is the only new one, and the last.
LEMMA InAppend ==
    ASSUME NEW S, NEW q \in Seq(S), NEW m \in S
    PROVE  /\ Append(q, m) \in Seq(S) /\ Len(Append(q, m)) = Len(q) + 1
           /\ In(Append(q, m)) = In(q) \cup {m}
  <1>1. /\ Append(q, m) \in Seq(S) /\ Len(Append(q, m)) = Len(q) + 1
        /\ \A i \in 1 .. Len(q) : Append(q, m)[i] = q[i]
        /\ Append(q, m)[Len(q) + 1] = m
    BY AppendProperties
  <1> DEFINE r == Append(q, m)
  <1>2. Len(q) \in Nat
    OBVIOUS
  <1>3. \A i : i \in 1 .. Len(r) <=> i \in 1 .. Len(q) \/ i = Len(q) + 1
    BY <1>1, <1>2
  <1> HIDE DEF r
  <1>4. In(r) = In(q) \cup {m}
    BY <1>1, <1>3 DEF In, r
  <1> QED BY <1>1, <1>4 DEF r

\* Taking the first message adds none.
LEMMA InTail ==
    ASSUME NEW S, NEW q \in Seq(S), q # <<>>
    PROVE  /\ Tail(q) \in Seq(S) /\ Len(Tail(q)) = Len(q) - 1
           /\ Head(q) \in In(q) /\ Head(q) \in S
           /\ In(Tail(q)) \subseteq In(q)
           /\ \A i \in 1 .. Len(Tail(q)) : i + 1 \in 2 .. Len(q) /\ Tail(q)[i] = q[i + 1]
  <1>1. /\ Len(q) \in Nat \ {0} /\ Tail(q) \in Seq(S) /\ Len(Tail(q)) = Len(q) - 1
        /\ Head(q) = q[1] /\ \A i \in 1 .. Len(q) : q[i] \in S
    OBVIOUS
  <1>2. \A i \in 1 .. Len(Tail(q)) : i + 1 \in 2 .. Len(q) /\ Tail(q)[i] = q[i + 1]
    BY <1>1
  <1>3. \A i \in 1 .. Len(Tail(q)) : i + 1 \in 1 .. Len(q)
    BY <1>2, <1>1
  <1>4. 1 \in 1 .. Len(q)
    BY <1>1
  <1> QED BY <1>1, <1>2, <1>3, <1>4 DEF In

\* The messages of a topic have its type.
LEMMA InType ==
    ASSUME NEW S, NEW q \in Seq(S)
    PROVE  In(q) \subseteq S
  <1>1. \A i \in 1 .. Len(q) : q[i] \in S
    OBVIOUS
  <1> QED BY <1>1 DEF In

\* Nothing is queued in an empty topic.
LEMMA InEmpty == In(<<>>) = {}
  <1>1. 1 .. Len(<<>>) = {}
    BY EmptySeq
  <1> QED BY <1>1 DEF In

\* A published message may be dropped; no other is lost and none is added.
LEMMA PublishedIn ==
    ASSUME NEW S, NEW q \in Seq(S), NEW m \in S, Len(q) <= Capacity, NEW r \in Published(q, m)
    PROVE  /\ r \in Seq(S) /\ Len(r) <= Capacity
           /\ In(r) \subseteq In(q) \cup {m} /\ In(q) \subseteq In(r)
           /\ r = q \/ r = Append(q, m)
  <1>1. CASE r = q
    BY <1>1
  <1>2. CASE r = Append(q, m) /\ Len(q) < Capacity
    <2>1. Len(q) \in Nat /\ Capacity \in Nat
      BY BoundsAssumption
    <2> QED BY <1>2, <2>1, InAppend
  <1> QED BY <1>1, <1>2 DEF Published

\* The order of the commands survives the first of them being taken, which
\* none of the others precedes.
LEMMA SortedTail ==
    ASSUME NEW q \in Seq(LifecycleMessages), q # <<>>, Sorted(q)
    PROVE  /\ Sorted(Tail(q))
           /\ Order(Head(q)) => \A m \in In(Tail(q)) : Order(m) => Head(q)[1] <= m[1]
  <1> DEFINE t == Tail(q)
  <1>1. /\ Len(q) \in Nat \ {0} /\ Len(t) = Len(q) - 1 /\ Head(q) = q[1]
        /\ \A i \in 1 .. Len(t) : i + 1 \in 2 .. Len(q) /\ t[i] = q[i + 1]
    BY InTail
  <1> HIDE DEF t
  <1>2. Sorted(t)
    <2> SUFFICES ASSUME NEW i \in 1 .. Len(t), NEW j \in 1 .. Len(t), i < j,
                        Order(t[i]), Order(t[j])
                 PROVE  t[i][1] <= t[j][1]
      BY DEF Sorted
    <2>1. i + 1 \in 1 .. Len(q) /\ j + 1 \in 1 .. Len(q) /\ i + 1 < j + 1
      BY <1>1
    <2>2. t[i] = q[i + 1] /\ t[j] = q[j + 1]
      BY <1>1
    <2> QED BY <2>1, <2>2 DEF Sorted
  <1>3. ASSUME Order(Head(q)), NEW m \in In(t), Order(m)
        PROVE  Head(q)[1] <= m[1]
    <2>1. PICK i \in 1 .. Len(t) : m = t[i]
      BY <1>3 DEF In
    <2>2. i + 1 \in 1 .. Len(q) /\ 1 \in 1 .. Len(q) /\ 1 < i + 1 /\ m = q[i + 1]
      BY <1>1, <2>1
    <2> QED BY <1>1, <1>3, <2>2 DEF Sorted
  <1> QED BY <1>2, <1>3 DEF t

\* A command that is no older than those before it keeps the order.
LEMMA SortedAppend ==
    ASSUME NEW q \in Seq(LifecycleMessages), NEW m \in LifecycleMessages, Sorted(q),
           Order(m) => \A k \in In(q) : Order(k) => k[1] <= m[1]
    PROVE  Sorted(Append(q, m))
  <1> DEFINE r == Append(q, m)
  <1>1. /\ Len(q) \in Nat /\ Len(r) = Len(q) + 1
        /\ \A i \in 1 .. Len(q) : r[i] = q[i]
        /\ r[Len(q) + 1] = m
    BY AppendProperties
  <1> HIDE DEF r
  <1> SUFFICES ASSUME NEW i \in 1 .. Len(r), NEW j \in 1 .. Len(r), i < j,
                      Order(r[i]), Order(r[j])
               PROVE  r[i][1] <= r[j][1]
    BY DEF Sorted, r
  <1>2. i \in 1 .. Len(q) /\ r[i] = q[i]
    BY <1>1
  <1>3. CASE j \in 1 .. Len(q)
    <2>1. r[j] = q[j]
      BY <1>1, <1>3
    <2> QED BY <1>2, <1>3, <2>1 DEF Sorted
  <1>4. CASE j = Len(q) + 1
    <2>1. r[j] = m /\ q[i] \in In(q)
      BY <1>1, <1>2, <1>4 DEF In
    <2> QED BY <1>2, <2>1
  <1> QED BY <1>1, <1>3, <1>4

\* Copies at the end of a queue stay there when its first message is taken,
\* and are all that is left when that was one of them.
LEMMA TailingTail ==
    ASSUME NEW S, NEW q \in Seq(S), q # <<>>, NEW m, Tailing(q, m)
    PROVE  /\ Tailing(Tail(q), m)
           /\ Head(q) = m => \A k \in In(Tail(q)) : k = m
  <1> DEFINE t == Tail(q)
  <1>1. /\ Len(q) \in Nat \ {0} /\ Len(t) = Len(q) - 1 /\ Head(q) = q[1]
        /\ \A i \in 1 .. Len(t) : i + 1 \in 2 .. Len(q) /\ t[i] = q[i + 1]
    BY InTail
  <1> HIDE DEF t
  <1>2. Tailing(t, m)
    <2> SUFFICES ASSUME NEW i \in 1 .. Len(t), NEW j \in 1 .. Len(t), i < j, t[i] = m
                 PROVE  t[j] = m
      BY DEF Tailing
    <2>1. i + 1 \in 1 .. Len(q) /\ j + 1 \in 1 .. Len(q) /\ i + 1 < j + 1
      BY <1>1
    <2>2. t[i] = q[i + 1] /\ t[j] = q[j + 1]
      BY <1>1
    <2> QED BY <2>1, <2>2 DEF Tailing
  <1>3. ASSUME Head(q) = m, NEW k \in In(t)
        PROVE  k = m
    <2>1. PICK i \in 1 .. Len(t) : k = t[i]
      BY <1>3 DEF In
    <2>2. i + 1 \in 1 .. Len(q) /\ 1 \in 1 .. Len(q) /\ 1 < i + 1 /\ k = q[i + 1]
      BY <1>1, <2>1
    <2> QED BY <1>1, <1>3, <2>2 DEF Tailing
  <1> QED BY <1>2, <1>3 DEF t

\* One more copy is at the end as well.
LEMMA TailingAppend ==
    ASSUME NEW S, NEW q \in Seq(S), NEW m \in S, Tailing(q, m)
    PROVE  Tailing(Append(q, m), m)
  <1> DEFINE r == Append(q, m)
  <1>1. /\ Len(q) \in Nat /\ Len(r) = Len(q) + 1
        /\ \A i \in 1 .. Len(q) : r[i] = q[i]
        /\ r[Len(q) + 1] = m
    BY AppendProperties
  <1> HIDE DEF r
  <1> SUFFICES ASSUME NEW i \in 1 .. Len(r), NEW j \in 1 .. Len(r), i < j, r[i] = m
               PROVE  r[j] = m
    BY DEF Tailing, r
  <1>2. i \in 1 .. Len(q) /\ r[i] = q[i]
    BY <1>1
  <1>3. CASE j \in 1 .. Len(q)
    <2>1. r[j] = q[j]
      BY <1>1, <1>3
    <2> QED BY <1>2, <1>3, <2>1 DEF Tailing
  <1>4. CASE j = Len(q) + 1
    BY <1>1, <1>4
  <1> QED BY <1>1, <1>3, <1>4

-----------------------------------------------------------------------------
(***************************************************************************)
(* The node: what one control step does to its state and its answers.      *)
(***************************************************************************)

\* The ready move makes progress: the completed moves stay in order.
LEMMA ProgressReady ==
    ASSUME NEW L \in SUBSET LifecycleMessages, NEW S \in SUBSET StatusMessages,
           DataTypes, UserTypes, ReadyFor(arrived, node, L, S),
           Underway(arrived, node),
           NEW n \in Progress(node), NEW a, a = IF n.ready /\ ~node.ready THEN n.done ELSE arrived
    PROVE  /\ n \in NodeStates /\ n.mode = node.mode
           /\ a \in Ids /\ arrived <= a
           /\ ReadyFor(a, n, L, S) /\ Underway(a, n)
  <1>1. /\ node \in NodeStates /\ node.ready \in BOOLEAN /\ node.req \in Nat /\ node.done \in Nat
        /\ node.left \in Nat /\ node.run \in BOOLEAN /\ node.stop \in BOOLEAN /\ node.mode \in Modes
        /\ node.left \in 0 .. AnnounceLoops
    BY BoundsAssumption DEF DataTypes, NodeStates, Ids
  <1>2. /\ nextId \in Nat /\ arrived \in Nat /\ \A u \in Callers : uid[u] \in Nat
        /\ \A m \in L : m[1] \in Nat
        /\ \A k \in S : k[1] = "READY" => k[2] \in Nat
    BY DEF DataTypes, UserTypes, Ids, LifecycleMessages, StatusMessages, Users
  <1>3. CASE node.ready /\ n = [node EXCEPT !.run = ~(node.stop /\ node.done > 0)]
    <2>1. (~(node.stop /\ node.done > 0)) \in BOOLEAN
      OBVIOUS
    <2>2. n \in NodeStates
      BY <1>1, <1>3, <2>1 DEF NodeStates
    <2>3. /\ n.mode = node.mode /\ n.ready = node.ready /\ n.req = node.req
          /\ n.done = node.done /\ n.left = node.left
      BY <1>1, <1>3 DEF NodeStates
    <2>4. a = arrived
      BY <1>3
    <2> QED BY <1>2, <2>2, <2>3, <2>4 DEF ReadyFor, Underway, Ids
  <1>4. CASE n = node
    <2>1. a = arrived
      BY <1>4
    <2> QED BY <1>1, <1>2, <1>4, <2>1 DEF ReadyFor, Underway, Ids
  <1>5. CASE ~node.ready /\ n = Arrives(node)
    <2>1. AnnounceLoops \in 0 .. AnnounceLoops
      BY BoundsAssumption
    <2>2. n \in NodeStates
      BY <1>1, <1>5, <2>1 DEF Arrives, NodeStates, Ids
    <2>3. n.mode = node.mode /\ n.ready = TRUE /\ n.req = 0 /\ n.done = node.req
      BY <1>1, <1>5 DEF Arrives, NodeStates
    <2>4. a = node.req
      BY <1>5, <2>3
    <2>5. arrived <= node.req
      BY <1>5 DEF Underway
    <2>6. Underway(a, n)
      BY <2>3 DEF Underway
    <2>7. ReadyFor(a, n, L, S)
      BY <1>1, <1>2, <2>3, <2>4, <2>5 DEF ReadyFor
    <2> QED BY <1>1, <2>2, <2>3, <2>4, <2>5, <2>6, <2>7 DEF Ids
  <1> QED BY <1>3, <1>4, <1>5 DEF Progress

\* A command is dispatched: a ready move is for its own id, and only the
\* commands that may disturb the mode change it.
LEMMA DispatchEffect ==
    ASSUME NEW n \in NodeStates, NEW id \in Ids, NEW command \in Commands,
           NEW d \in Dispatch(n, id, command)
    PROVE  /\ d \in NodeStates
           /\ command \notin Disturbing => d.mode = n.mode
           /\ command \in ModeCommands => d.mode = ModeOf(command)
           /\ \/ d.req = n.req /\ d.done = n.done /\ d.left = n.left /\ d.ready = n.ready
              \/ command \notin LockFree /\ d.req = id /\ d.left = 0
  <1>1. /\ n.ready \in BOOLEAN /\ n.stop \in BOOLEAN /\ n.run \in BOOLEAN
        /\ n.req \in Ids /\ n.done \in Ids /\ n.mode \in Modes /\ n.left \in 0 .. AnnounceLoops
    BY DEF NodeStates
  <1>2. 0 \in Ids /\ 0 \in 0 .. AnnounceLoops /\ "hold" \in Modes
    BY BoundsAssumption DEF Ids, Modes
  <1>3. ASSUME NEW stop \in BOOLEAN, d \in MovesToReady(n, id, stop)
        PROVE  d \in NodeStates /\ d.req = id /\ d.left = 0
    <2>1. (n.stop \/ stop) \in BOOLEAN
      BY Zenon
    <2> DEFINE s == n.stop \/ stop
    <2>2. PICK m \in {"hold", n.mode} :
            d = [n EXCEPT !.ready = FALSE, !.req = id, !.done = 0, !.stop = s, !.left = 0,
                          !.mode = m]
      BY <1>3 DEF MovesToReady
    <2> HIDE DEF s
    <2>3. s \in BOOLEAN
      BY <2>1 DEF s
    <2> QED BY <1>1, <1>2, <2>2, <2>3 DEF NodeStates
  <1>4. CASE command = "MOVE"
    <2>1. d \in MovesToReady(n, id, FALSE)
      BY <1>4 DEF Dispatch
    <2> QED BY <1>3, <1>4, <2>1 DEF Disturbing, Commands, ModeCommands, LockFree
  <1>5. CASE command = "MOVE_AND_STOP"
    <2>1. d \in MovesToReady(n, id, TRUE)
      BY <1>5 DEF Dispatch
    <2> QED BY <1>3, <1>5, <2>1 DEF Disturbing, Commands, Closes, ModeCommands, LockFree
  <1>6. CASE command = "SHUTDOWN"
    BY <1>1, <1>6 DEF Dispatch, NodeStates, ModeCommands
  <1>7. CASE command = "PAUSE"
    BY <1>1, <1>7 DEF Dispatch, ModeCommands
  <1>8. CASE command \in ModeCommands \cup {"HOLD", "CLEANUP"}
    <2>1. ModeOf(command) \in Modes
      BY <1>8 DEF ModeOf, Modes
    <2>2. d = [n EXCEPT !.mode = ModeOf(command)]
      BY <1>8 DEF Dispatch, ModeCommands
    <2>3. command \in Disturbing
      BY <1>8 DEF Disturbing, Commands, ModeCommands, LockFree
    <2> QED BY <1>1, <2>1, <2>2, <2>3 DEF NodeStates
  <1> QED BY <1>4, <1>5, <1>6, <1>7, <1>8 DEF Commands, Closes, LockFree

\* READY_NOW is announced for the completed move only, if at all.
LEMMA AnnounceEffect ==
    ASSUME NEW n \in NodeStates, NEW q \in Seq(StatusMessages), Len(q) <= Capacity,
           NEW r \in Announced(n, q), NEW e, e = Announce(n)
    PROVE  /\ e \in NodeStates /\ e.mode = n.mode /\ e.ready = n.ready /\ e.req = n.req
           /\ e.done = n.done /\ (e.left > 0 => n.left > 0)
           /\ r \in Seq(StatusMessages) /\ Len(r) <= Capacity
           /\ In(q) \subseteq In(r)
           /\ \A m \in In(r) : m \in In(q) \/ (m[1] = "READY" /\ m[2] = n.done /\ n.left > 0)
  <1>1. n.left \in 0 .. AnnounceLoops /\ n.done \in Ids /\ AnnounceLoops \in Nat
    BY BoundsAssumption DEF NodeStates
  <1> DEFINE left == IF n.left > 0 THEN n.left - 1 ELSE 0
  <1>2. left \in 0 .. AnnounceLoops
    BY <1>1
  <1>3. left > 0 => n.left > 0
    BY <1>1
  <1>4. e = [n EXCEPT !.left = left]
    BY DEF Announce
  <1> HIDE DEF left
  <1>5. /\ e \in NodeStates /\ e.mode = n.mode /\ e.ready = n.ready /\ e.req = n.req
        /\ e.done = n.done /\ e.left = left
    BY <1>2, <1>4 DEF NodeStates
  <1> DEFINE k == <<"READY", n.done, "none">>
  <1>6. k \in StatusMessages /\ k[1] = "READY" /\ k[2] = n.done
    BY <1>1 DEF StatusMessages
  <1>7. CASE n.left > 0
    <2>1. r \in Published(q, k)
      BY <1>7 DEF Announced
    <2> HIDE DEF k
    <2>2. /\ r \in Seq(StatusMessages) /\ Len(r) <= Capacity
          /\ In(r) \subseteq In(q) \cup {k} /\ In(q) \subseteq In(r)
      BY <1>6, <2>1, PublishedIn
    <2> QED BY <1>3, <1>5, <1>6, <1>7, <2>2
  <1>8. CASE ~(n.left > 0)
    <2>1. r = q
      BY <1>8 DEF Announced
    <2> QED BY <1>3, <1>5, <2>1
  <1> QED BY <1>7, <1>8

\* So every READY that is queued is for a completed move.
LEMMA AnnounceReady ==
    ASSUME NEW L, NEW n \in NodeStates, NEW a \in Ids,
           NEW q \in Seq(StatusMessages), Len(q) <= Capacity,
           ReadyFor(a, n, L, In(q)), NEW r \in Announced(n, q), NEW e,
           e = Announce(n)
    PROVE  ReadyFor(a, e, L, In(r))
  <1>1. /\ e.req = n.req /\ e.done = n.done /\ (e.left > 0 => n.left > 0)
        /\ \A m \in In(r) : m \in In(q) \/ (m[1] = "READY" /\ m[2] = n.done /\ n.left > 0)
    BY AnnounceEffect
  <1> QED BY <1>1 DEF ReadyFor

\* What a control step leaves: the commands it has not taken, in their order,
\* and at most one acknowledgement more, of the command it has carried out.
Heard(m) == <<"ACK", m[1], m[2]>>
Quiet ==
    /\ node'.mode = node.mode
    /\ \A k \in In(status') : k[1] = "ACK" => k \in In(status)
Carried(m) ==
    /\ m \in In(lifecycle)
    /\ m[2] \notin Disturbing => node'.mode = node.mode
    /\ m[2] \in ModeCommands => node'.mode = ModeOf(m[2])
    /\ Tailing(lifecycle, m) => \A k \in In(lifecycle') : k = m
    /\ \A k \in In(status') : k[1] = "ACK" => k \in In(status) \cup {Heard(m)}
    /\ Order(m) => \A k \in In(lifecycle') : Order(k) => m[1] <= k[1]

\* A control step does one or the other.
LEMMA NodeEffect ==
    ASSUME ClientInv, role' = role, NodeStep
    PROVE  /\ node' \in NodeStates /\ arrived' \in Ids /\ arrived <= arrived'
           /\ lifecycle' \in Seq(LifecycleMessages) /\ Len(lifecycle') <= Capacity
           /\ status' \in Seq(StatusMessages) /\ Len(status') <= Capacity
           /\ In(lifecycle') \subseteq In(lifecycle) /\ Sorted(lifecycle')
           /\ ReadyFor(arrived', node', In(lifecycle'), In(status'))
           /\ Underway(arrived', node')
           /\ Quiet \/ \E m \in LifecycleMessages : Carried(m)
           /\ \A m : Tailing(lifecycle, m) => Tailing(lifecycle', m)
  <1> DEFINE L == In(lifecycle)
             S == In(status)
  <1>1. /\ lifecycle \in Seq(LifecycleMessages) /\ Len(lifecycle) <= Capacity
        /\ status \in Seq(StatusMessages) /\ Len(status) <= Capacity /\ Capacity \in Nat
        /\ Sorted(lifecycle) /\ node \in NodeStates
    BY BoundsAssumption DEF ClientInv, DataTypes, OrderInv
  <1>2. L \in SUBSET LifecycleMessages /\ S \in SUBSET StatusMessages
    BY <1>1, InType
  <1>3. DataTypes /\ UserTypes /\ ReadyFor(arrived, node, L, S) /\ Underway(arrived, node)
    BY DEF ClientInv, ReadyInv, NodeStep
  <1>4. PICK n \in Progress(node) :
        /\ arrived' = IF n.ready /\ ~node.ready THEN n.done ELSE arrived
        /\ \/ /\ lifecycle = <<>>
              /\ node' = Announce(n)
              /\ status' \in Announced(n, status)
              /\ UNCHANGED lifecycle
           \/ /\ lifecycle # <<>>
              /\ lifecycle' = Tail(lifecycle)
              /\ LET id == Head(lifecycle)[1]
                     command == Head(lifecycle)[2]
                 IN  \/ \E d \in Dispatch(n, id, command) :
                        /\ node' = Announce(d)
                        /\ \E q \in Published(status, <<"ACK", id, command>>) :
                             status' \in Announced(d, q)
                     \/ /\ MayRefuse(command)
                        /\ node' = Announce(n)
                        /\ status' \in Announced(n, status)
    BY DEF NodeStep
  <1> DEFINE a == IF n.ready /\ ~node.ready THEN n.done ELSE arrived
  <1>5. /\ n \in NodeStates /\ n.mode = node.mode
        /\ a \in Ids /\ arrived <= a
        /\ ReadyFor(a, n, L, S) /\ Underway(a, n)
    <2> HIDE DEF L, S
    <2> QED BY <1>2, <1>3, ProgressReady
  <1>6. a = arrived'
    BY <1>4
  <1> HIDE DEF a
  <1>7. ASSUME node' = Announce(n), status' \in Announced(n, status),
               lifecycle' \in Seq(LifecycleMessages), Len(lifecycle') <= Capacity,
               In(lifecycle') \subseteq L, Sorted(lifecycle')
        PROVE  /\ node' \in NodeStates
               /\ status' \in Seq(StatusMessages) /\ Len(status') <= Capacity
               /\ ReadyFor(arrived', node', In(lifecycle'), In(status'))
               /\ Underway(arrived', node') /\ Quiet
    <2>1. ReadyFor(a, n, In(lifecycle'), In(status))
      BY <1>5, <1>7 DEF ReadyFor
    <2>2. /\ node' \in NodeStates /\ node'.mode = n.mode /\ node'.ready = n.ready
          /\ node'.req = n.req
          /\ status' \in Seq(StatusMessages) /\ Len(status') <= Capacity
          /\ \A m \in In(status') : m[1] = "ACK" => m \in In(status)
          /\ ReadyFor(a, node', In(lifecycle'), In(status'))
      <3> DEFINE K == In(lifecycle')
      <3>1. /\ n \in NodeStates /\ a \in Ids /\ status \in Seq(StatusMessages)
            /\ Len(status) <= Capacity /\ ReadyFor(a, n, K, In(status))
        BY <1>1, <1>5, <2>1
      <3>2. status' \in Announced(n, status) /\ node' = Announce(n)
        BY <1>7
      <3> HIDE DEF K
      <3>3. ReadyFor(a, node', K, In(status'))
        BY <3>1, <3>2, AnnounceReady
      <3>4. /\ node' \in NodeStates /\ node'.mode = n.mode /\ node'.ready = n.ready
            /\ node'.req = n.req
            /\ status' \in Seq(StatusMessages) /\ Len(status') <= Capacity
            /\ \A m \in In(status') : m[1] = "ACK" => m \in In(status)
        BY <3>1, <3>2, AnnounceEffect
      <3> QED BY <3>3, <3>4 DEF K
    <2>3. Underway(a, node')
      BY <1>5, <2>2 DEF Underway
    <2> QED BY <1>5, <1>6, <2>2, <2>3 DEF Quiet
  <1>8. CASE lifecycle = <<>> /\ node' = Announce(n) /\ status' \in Announced(n, status)
             /\ lifecycle' = lifecycle
    BY <1>1, <1>5, <1>6, <1>7, <1>8
  <1>9. ASSUME lifecycle # <<>>, lifecycle' = Tail(lifecycle)
        PROVE  /\ lifecycle' \in Seq(LifecycleMessages) /\ Len(lifecycle') <= Capacity
               /\ In(lifecycle') \subseteq L /\ Sorted(lifecycle')
               /\ Head(lifecycle) \in L /\ Head(lifecycle) \in LifecycleMessages
               /\ Order(Head(lifecycle)) =>
                    \A k \in In(lifecycle') : Order(k) => Head(lifecycle)[1] <= k[1]
               /\ \A k : Tailing(lifecycle, k) => Tailing(lifecycle', k)
               /\ Tailing(lifecycle, Head(lifecycle)) =>
                    \A k \in In(lifecycle') : k = Head(lifecycle)
    <2>1. Len(lifecycle) \in Nat
      BY <1>1
    <2>2. /\ Tail(lifecycle) \in Seq(LifecycleMessages)
          /\ Len(Tail(lifecycle)) = Len(lifecycle) - 1
          /\ Head(lifecycle) \in L /\ Head(lifecycle) \in LifecycleMessages
          /\ In(Tail(lifecycle)) \subseteq L
      BY <1>1, <1>9, InTail
    <2>3. /\ Sorted(Tail(lifecycle))
          /\ Order(Head(lifecycle)) =>
               \A k \in In(Tail(lifecycle)) : Order(k) => Head(lifecycle)[1] <= k[1]
      BY <1>1, <1>9, SortedTail
    <2>4. Len(Tail(lifecycle)) <= Capacity
      BY <1>1, <2>1, <2>2
    <2>5. \A k : Tailing(lifecycle, k) =>
            /\ Tailing(Tail(lifecycle), k)
            /\ Head(lifecycle) = k => \A j \in In(Tail(lifecycle)) : j = k
      BY <1>1, <1>9, TailingTail
    <2> QED BY <1>9, <2>2, <2>3, <2>4, <2>5
  <1>10. CASE lifecycle # <<>> /\ lifecycle' = Tail(lifecycle) /\ node' = Announce(n)
              /\ status' \in Announced(n, status)
    BY <1>5, <1>6, <1>7, <1>9, <1>10
  <1>11. ASSUME lifecycle # <<>>, lifecycle' = Tail(lifecycle),
                NEW m, m = Head(lifecycle),
                NEW d \in Dispatch(n, m[1], m[2]), node' = Announce(d),
                NEW q \in Published(status, Heard(m)), status' \in Announced(d, q)
         PROVE  /\ node' \in NodeStates
                /\ status' \in Seq(StatusMessages) /\ Len(status') <= Capacity
                /\ ReadyFor(arrived', node', In(lifecycle'), In(status'))
                /\ Underway(arrived', node') /\ Carried(m)
    <2>1. /\ lifecycle' \in Seq(LifecycleMessages) /\ In(lifecycle') \subseteq L
          /\ m \in L /\ m \in LifecycleMessages
          /\ Order(m) => \A k \in In(lifecycle') : Order(k) => m[1] <= k[1]
          /\ Tailing(lifecycle, m) => \A k \in In(lifecycle') : k = m
      BY <1>9, <1>11
    <2>2. m[1] \in Ids /\ m[2] \in Commands /\ Heard(m) \in StatusMessages
          /\ Heard(m)[1] = "ACK"
      BY <2>1 DEF LifecycleMessages, StatusMessages, Heard
    <2>3. /\ d \in NodeStates
          /\ m[2] \notin Disturbing => d.mode = n.mode
          /\ m[2] \in ModeCommands => d.mode = ModeOf(m[2])
          /\ \/ d.req = n.req /\ d.done = n.done /\ d.left = n.left /\ d.ready = n.ready
             \/ Order(m) /\ d.req = m[1] /\ d.left = 0
      BY <1>5, <1>11, <2>2, DispatchEffect DEF Order
    <2>4. node' = Announce(d) /\ status' \in Announced(d, q)
      BY <1>11
    <2>5. /\ q \in Seq(StatusMessages) /\ Len(q) <= Capacity
          /\ In(q) \subseteq In(status) \cup {Heard(m)}
      BY <1>1, <2>2, PublishedIn
    <2>6. /\ \A u \in Callers : uid[u] # 0 /\ Order(m) => m[1] <= uid[u]
          /\ Order(m) => m[1] <= nextId
      BY <2>1 DEF ClientInv, OrderInv
    <2>7. Order(m) => a <= m[1]
      BY <1>5, <2>1 DEF ReadyFor
    <2>8. ReadyFor(a, d, In(lifecycle'), In(q))
      <3>1. CASE d.req = n.req /\ d.done = n.done /\ d.left = n.left
        BY <1>5, <2>1, <2>2, <2>5, <3>1 DEF ReadyFor
      <3>2. CASE Order(m) /\ d.req = m[1] /\ d.left = 0
        BY <1>5, <2>1, <2>2, <2>5, <2>6, <3>2 DEF ReadyFor
      <3> QED BY <2>3, <3>1, <3>2
    <2>9. Underway(a, d)
      BY <1>5, <2>3, <2>7 DEF Underway
    <2>10. /\ node' \in NodeStates /\ node'.mode = d.mode /\ node'.ready = d.ready
           /\ node'.req = d.req
           /\ status' \in Seq(StatusMessages) /\ Len(status') <= Capacity
           /\ \A k \in In(status') : k[1] = "ACK" => k \in In(q)
           /\ ReadyFor(a, node', In(lifecycle'), In(status'))
      <3> DEFINE K == In(lifecycle')
      <3>1. /\ d \in NodeStates /\ a \in Ids /\ q \in Seq(StatusMessages)
            /\ Len(q) <= Capacity /\ ReadyFor(a, d, K, In(q))
        BY <1>5, <2>3, <2>5, <2>8
      <3> HIDE DEF K
      <3>3. ReadyFor(a, node', K, In(status'))
        BY <3>1, <2>4, AnnounceReady
      <3>4. /\ node' \in NodeStates /\ node'.mode = d.mode /\ node'.ready = d.ready
            /\ node'.req = d.req
            /\ status' \in Seq(StatusMessages) /\ Len(status') <= Capacity
            /\ \A k \in In(status') : k[1] = "ACK" => k \in In(q)
        BY <3>1, <2>4, AnnounceEffect
      <3> QED BY <3>3, <3>4 DEF K
    <2>11. Underway(a, node')
      BY <2>9, <2>10 DEF Underway
    <2>12. Carried(m)
      BY <1>5, <2>1, <2>3, <2>5, <2>10 DEF Carried
    <2> QED BY <1>6, <2>10, <2>11, <2>12
  <1>12. CASE /\ lifecycle # <<>> /\ lifecycle' = Tail(lifecycle)
              /\ \E d \in Dispatch(n, Head(lifecycle)[1], Head(lifecycle)[2]) :
                   /\ node' = Announce(d)
                   /\ \E q \in Published(status, Heard(Head(lifecycle))) :
                        status' \in Announced(d, q)
    BY <1>5, <1>6, <1>9, <1>11, <1>12
  <1>13. \/ lifecycle = <<>> /\ node' = Announce(n) /\ status' \in Announced(n, status)
               /\ lifecycle' = lifecycle
         \/ lifecycle # <<>> /\ lifecycle' = Tail(lifecycle) /\ node' = Announce(n)
              /\ status' \in Announced(n, status)
         \/ /\ lifecycle # <<>> /\ lifecycle' = Tail(lifecycle)
            /\ \E d \in Dispatch(n, Head(lifecycle)[1], Head(lifecycle)[2]) :
                 /\ node' = Announce(d)
                 /\ \E q \in Published(status, Heard(Head(lifecycle))) :
                      status' \in Announced(d, q)
    BY <1>4, Zenon DEF Heard
  <1> QED BY <1>8, <1>10, <1>12, <1>13

\* A control step: what is acknowledged was commanded, under that id; and a
\* node that has answered the mode change in progress has nothing else before
\* it that would change the mode.
LEMMA NodeStepKeeps ==
    ASSUME ClientInv, role' = role, NodeStep
    PROVE  ClientInv'
  <1>1. /\ node' \in NodeStates /\ arrived' \in Ids /\ arrived <= arrived'
        /\ lifecycle' \in Seq(LifecycleMessages) /\ Len(lifecycle') <= Capacity
        /\ status' \in Seq(StatusMessages) /\ Len(status') <= Capacity
        /\ In(lifecycle') \subseteq In(lifecycle) /\ Sorted(lifecycle')
        /\ ReadyFor(arrived', node', In(lifecycle'), In(status'))
        /\ Underway(arrived', node')
        /\ Quiet \/ \E m \in LifecycleMessages : Carried(m)
        /\ \A m : Tailing(lifecycle, m) => Tailing(lifecycle', m)
    BY NodeEffect
  <1>2. /\ UNCHANGED <<backendVars, requestVars, userVars, connects, requests, agreed, straddled>>
        /\ process' = process /\ process = "up"
    BY DEF NodeStep
  <1>3. /\ running' = running /\ sockets' = sockets /\ retired' = retired /\ reader' = reader
        /\ caps' = caps /\ ready' = ready /\ mode' = mode /\ nextId' = nextId
        /\ pendingAck' = pendingAck /\ acks' = acks /\ pendingReady' = pendingReady
        /\ readySeen' = readySeen /\ armLock' = armLock /\ lifeLock' = lifeLock /\ pc' = pc
        /\ op' = op /\ uid' = uid /\ next' = next /\ connects' = connects
        /\ requests' = requests /\ agreed' = agreed /\ straddled' = straddled
    BY <1>2 DEF backendVars, requestVars, userVars
  <1> DEFINE L == In(lifecycle)
             K == In(lifecycle')
             S == In(status)
             T == In(status')
  <1>4. /\ FlagTypes /\ DataTypes /\ UserTypes /\ CallInv /\ GoneInv /\ AckInv /\ OrderInv
        /\ ReadyInv /\ MoveInv /\ OwnInv /\ ModeInv
    BY DEF ClientInv
  <1>5. L \subseteq LifecycleMessages /\ K \subseteq LifecycleMessages /\ S \subseteq StatusMessages
    BY <1>1, <1>4, InType DEF DataTypes
  <1>6. \/ \A k \in T : k[1] = "ACK" => k \in S
        \/ \E m \in L : \A k \in T : k[1] = "ACK" => (k \in S \/ k = Heard(m))
    BY <1>1 DEF Quiet, Carried
  <1>7. FlagTypes'
    BY <1>3, <1>4 DEF FlagTypes
  <1>8. DataTypes'
    BY <1>1, <1>2, <1>3, <1>4 DEF DataTypes
  <1>9. UserTypes' /\ CallInv' /\ AckInv'
    BY <1>3, <1>4
       DEF UserTypes, CallInv, CallerInv, EngagerInv, Closing, AckInv,
           AcksDrained
  <1>10. GoneInv'
    BY <1>2, <1>3, <1>4 DEF GoneInv, ClosedMeansGone, ReaderLives
  <1>11. OrderInv'
    <2>1. \A m \in T : m[1] = "ACK" => m[2] # 0
      <3>1. /\ \A m \in S : m[1] = "ACK" => m[2] # 0
            /\ \A m \in L : m[1] # 0
        BY <1>4 DEF OrderInv
      <3>2. \A m : Heard(m)[2] = m[1]
        BY DEF Heard
      <3> QED BY <1>6, <3>1, <3>2
    <2>2. /\ \A m \in K : m[1] # 0 /\ (Order(m) => m[1] <= nextId)
          /\ \A u \in Callers : uid[u] <= nextId
          /\ \A u \in Callers : uid[u] # 0 => \A m \in K : Order(m) =>
               m[1] <= uid[u] /\ (m[1] = uid[u] => m[2] = op[u])
      BY <1>1, <1>4 DEF OrderInv
    <2> QED BY <1>1, <1>3, <2>1, <2>2 DEF OrderInv
  <1>12. ReadyInv'
    BY <1>1, <1>3 DEF ReadyInv, ReadyFor, Underway
  <1>13. MoveInv'
    <2>1. \A u \in Callers : uid[u] # 0 => arrived' <= uid[u]
      BY <1>1 DEF ReadyFor
    <2>2. \A u \in Callers : op[u] = "MOVE" => uid[u] # 0
      BY <1>4 DEF CallInv, CallerInv, Closing, Closes, UserTypes, PCs, Users
    <2>3. arrived \in Nat /\ arrived' \in Nat /\ \A u \in Callers : uid[u] \in Nat
      BY <1>1, <1>4 DEF DataTypes, UserTypes, Users, Ids
    <2>4. \A u \in Callers : op[u] = "MOVE" /\ arrived = uid[u] => arrived' = uid[u]
      BY <1>1, <2>1, <2>2, <2>3
    <2> QED BY <1>3, <1>4, <2>4 DEF MoveInv
  <1>14. OwnInv'
    <2> SUFFICES ASSUME ~straddled PROVE OwnInv'
      BY <1>3 DEF OwnInv
    <2>1. \A m : Heard(m)[2] = m[1] /\ Heard(m)[3] = m[2]
      BY DEF Heard
    <2>2. \A m \in T : m[1] = "ACK" => m[2] <= nextId
      BY <1>4, <1>6, <2>1 DEF OwnInv
    <2>3. \A u \in Users : uid[u] # 0 =>
             \A m \in T : m[1] = "ACK" /\ m[2] = uid[u] => m[3] = op[u]
      BY <1>4, <1>6, <2>1 DEF OwnInv
    <2> QED BY <1>1, <1>3, <1>4, <2>2, <2>3 DEF OwnInv
  <1>15. ModeInv'
    <2> SUFFICES ASSUME ~straddled PROVE ModeInv'
      BY <1>3 DEF ModeInv
    <2>1. \A u \in Users : pc[u] = "send" /\ op[u] \in Disturbing => agreed # "yes"
      BY <1>4 DEF ModeInv
    <2>2. ASSUME agreed = "yes"
          PROVE  /\ node'.mode = IF mode = "none" THEN DefaultMode ELSE mode
                 /\ \A m \in K : m[2] \in Disturbing =>
                      m[2] \in ModeCommands /\ ModeOf(m[2]) = node'.mode
      <3>1. /\ node.mode = IF mode = "none" THEN DefaultMode ELSE mode
            /\ \A m \in L : m[2] \in Disturbing =>
                 m[2] \in ModeCommands /\ ModeOf(m[2]) = node.mode
        BY <1>2, <1>4, <2>2 DEF ModeInv
      <3>2. node'.mode = node.mode
        BY <1>1, <3>1 DEF Quiet, Carried
      <3> QED BY <1>1, <3>1, <3>2
    <2>3. ASSUME NEW u \in Users, op[u] \in ModeCommands, pc[u] = "send"
          PROVE  Tailing(lifecycle', <<uid[u], op[u]>>)
      BY <1>1, <1>4, <2>3 DEF ModeInv
    <2>4. ASSUME agreed = "pending", NEW u \in Users, op[u] \in ModeCommands,
                 pc[u] = "send", acks # {} \/ \E m \in T : m[1] = "ACK" /\ m[2] = uid[u]
          PROVE  node'.mode = ModeOf(op[u]) /\ \A m \in K : m = <<uid[u], op[u]>>
      <3> DEFINE c == <<uid[u], op[u]>>
      <3>0. uid[u] # 0 /\ c[1] = uid[u] /\ c[2] = op[u]
        BY <1>4, <2>4 DEF CallInv, CallerInv, EngagerInv, Users
      <3>1. Tailing(lifecycle, c)
        BY <1>4, <2>4 DEF ModeInv
      <3>2. CASE Answered(u)
        <4>1. node.mode = ModeOf(op[u]) /\ \A m \in L : m = c
          BY <1>2, <1>4, <2>4, <3>2 DEF ModeInv
        <4> HIDE DEF c
        <4>2. node'.mode = node.mode
          BY <1>1, <2>4, <3>0, <4>1 DEF Quiet, Carried
        <4> QED BY <1>1, <4>1, <4>2 DEF c
      <3>3. CASE ~Answered(u)
        <4>1. PICK k \in T : k[1] = "ACK" /\ k[2] = uid[u] /\ k \notin S
          BY <2>4, <3>3 DEF Answered
        <4>2. PICK m \in LifecycleMessages : Carried(m)
          BY <1>1, <4>1 DEF Quiet
        <4>3. k = Heard(m) /\ m \in L
          BY <4>1, <4>2 DEF Carried
        <4>4. m[1] = uid[u]
          BY <4>1, <4>3 DEF Heard
        <4>5. m[2] = op[u]
          BY <1>4, <3>0, <4>3, <4>4 DEF OwnInv
        <4>6. m = c
          BY <4>4, <4>5 DEF LifecycleMessages
        <4> HIDE DEF c
        <4>7. node'.mode = ModeOf(op[u]) /\ \A j \in K : j = c
          BY <2>4, <3>0, <3>1, <4>2, <4>5, <4>6 DEF Carried
        <4> QED BY <4>7 DEF c
      <3> QED BY <3>2, <3>3
    <2> QED BY <1>2, <1>3, <2>1, <2>2, <2>3, <2>4 DEF ModeInv, Answered, DefaultMode
  <1> QED
    BY <1>7, <1>8, <1>9, <1>10, <1>11, <1>12, <1>13, <1>14, <1>15 DEF ClientInv

\* The node changes its mode by itself: it is not agreed any more.
LEMMA NodeTripsKeeps ==
    ASSUME ClientInv, role' = role, NodeTrips
    PROVE  ClientInv'
  <1>1. /\ FlagTypes /\ DataTypes /\ UserTypes /\ CallInv /\ GoneInv /\ AckInv /\ OrderInv
        /\ ReadyInv /\ MoveInv /\ OwnInv /\ ModeInv
    BY DEF ClientInv
  <1>2. /\ node' = [node EXCEPT !.mode = SafeIdle] /\ agreed' = "no"
        /\ UNCHANGED <<process, lifecycle, status, backendVars, requestVars,
                       userVars, connects, requests, arrived, straddled>>
    BY DEF NodeTrips
  <1>3. node \in NodeStates
    BY <1>1 DEF DataTypes
  <1>4. /\ node' \in NodeStates /\ node'.ready = node.ready /\ node'.req = node.req
        /\ node'.left = node.left /\ node'.done = node.done
    BY <1>2, <1>3 DEF NodeStates, Modes, SafeIdle
  <1>5. FlagTypes' /\ UserTypes' /\ AckInv' /\ OrderInv' /\ MoveInv' /\ OwnInv'
    BY <1>1, <1>2
       DEF FlagTypes, UserTypes, AckInv, AcksDrained, OrderInv, MoveInv, OwnInv,
       backendVars, requestVars, userVars
  <1>6. DataTypes'
    BY <1>1, <1>2, <1>4 DEF DataTypes, backendVars, requestVars
  <1>7. CallInv' /\ GoneInv'
    BY <1>1, <1>2
       DEF CallInv, CallerInv, EngagerInv, Closing, GoneInv, ClosedMeansGone,
       ReaderLives, backendVars, userVars
  <1>8. ReadyInv'
    BY <1>1, <1>2, <1>4 DEF ReadyInv, ReadyFor, Underway, requestVars, userVars
  <1>9. ModeInv'
    BY <1>1, <1>2 DEF ModeInv, userVars
  <1> QED BY <1>5, <1>6, <1>7, <1>8, <1>9 DEF ClientInv

\* A process that has ended says nothing more, and nothing waits for it.
LEMMA NodeExitsKeeps ==
    ASSUME ClientInv, role' = role, NodeExits
    PROVE  ClientInv'
  <1>1. /\ FlagTypes /\ DataTypes /\ UserTypes /\ CallInv /\ GoneInv /\ AckInv /\ OrderInv
        /\ ReadyInv /\ MoveInv /\ OwnInv /\ ModeInv
    BY DEF ClientInv
  <1>2. /\ process' = "exited" /\ node' = FreshNode /\ lifecycle' = <<>>
        /\ UNCHANGED <<status, backendVars, requestVars, userVars, historyVars>>
    BY DEF NodeExits
  <1>3. /\ node' \in NodeStates /\ node'.req = 0 /\ node'.left = 0
    BY <1>2, BoundsAssumption DEF FreshNode, NodeStates, Modes, Ids
  <1>4. In(lifecycle') = {} /\ lifecycle' \in Seq(LifecycleMessages) /\ Len(lifecycle') = 0
    BY <1>2, InEmpty
  <1>5. Sorted(lifecycle')
    BY <1>4 DEF Sorted
  <1>6. FlagTypes' /\ UserTypes' /\ AckInv' /\ MoveInv'
    BY <1>1, <1>2 DEF FlagTypes, UserTypes, AckInv, AcksDrained, MoveInv,
       backendVars, requestVars, userVars, historyVars
  <1>7. DataTypes'
    BY <1>1, <1>2, <1>3, <1>4, BoundsAssumption
       DEF DataTypes, backendVars, requestVars,
       historyVars
  <1>8. CallInv' /\ GoneInv'
    BY <1>1, <1>2
       DEF CallInv, CallerInv, EngagerInv, Closing, GoneInv, ClosedMeansGone,
       ReaderLives, backendVars, userVars, historyVars
  <1>9. OrderInv' /\ OwnInv'
    BY <1>1, <1>2, <1>4, <1>5
       DEF OrderInv, OwnInv, requestVars, userVars, historyVars
  <1>10. ReadyInv'
    <2>1. nextId' = nextId /\ uid' = uid /\ arrived' = arrived /\ status' = status
      BY <1>2 DEF requestVars, userVars, historyVars
    <2>2. nextId \in Nat /\ \A u \in Callers : uid[u] \in Nat
      BY <1>1 DEF DataTypes, UserTypes, Users, Ids
    <2> QED BY <1>1, <1>2, <1>3, <1>4, <2>1, <2>2 DEF ReadyInv, ReadyFor
  <1>11. ModeInv'
    <2>1. \A m : Tailing(lifecycle', m)
      BY <1>4 DEF Tailing
    <2> QED BY <1>1, <1>2, <2>1 DEF ModeInv, userVars, historyVars
  <1> QED BY <1>6, <1>7, <1>8, <1>9, <1>10, <1>11 DEF ClientInv

-----------------------------------------------------------------------------
(***************************************************************************)
(* The reader thread.                                                      *)
(***************************************************************************)

\* The handshake, and the end of the reader.
LEMMA ReaderEndsKeeps ==
    ASSUME ClientInv, role' = role, ReadHandshake \/ PollProcess \/ ReaderFails \/ ReaderStops
    PROVE  ClientInv'
  <1>1. /\ FlagTypes /\ DataTypes /\ UserTypes /\ CallInv /\ GoneInv /\ AckInv /\ OrderInv
        /\ ReadyInv /\ MoveInv /\ OwnInv /\ ModeInv
    BY DEF ClientInv
  <1>2. UNCHANGED <<nodeVars, sockets, retired, ready, mode, requestVars, userVars, historyVars>>
    BY DEF ReadHandshake, PollProcess, ReaderFails, ReaderStops
  <1>3. \/ caps' = TRUE /\ UNCHANGED <<running, reader>>
        \/ running' = FALSE /\ reader' = "gone" /\ UNCHANGED caps
        \/ running' = running /\ reader' = "gone" /\ UNCHANGED caps
    BY DEF ReadHandshake, PollProcess, ReaderFails, ReaderStops
  <1>4. FlagTypes'
    BY <1>1, <1>2, <1>3 DEF FlagTypes, requestVars, historyVars
  <1>5. DataTypes'
    BY <1>1, <1>2, <1>3 DEF DataTypes, nodeVars, requestVars, historyVars
  <1>6. UserTypes' /\ CallInv' /\ AckInv'
    BY <1>1, <1>2
       DEF UserTypes, CallInv, CallerInv, EngagerInv, Closing, AckInv,
           AcksDrained,
       requestVars, userVars, historyVars
  <1>7. GoneInv'
    BY <1>1, <1>2, <1>3
       DEF GoneInv, ClosedMeansGone, ReaderLives, nodeVars, userVars
  <1>8. OrderInv' /\ ReadyInv' /\ MoveInv' /\ OwnInv'
    BY <1>1, <1>2
       DEF OrderInv, ReadyInv, ReadyFor, Underway, MoveInv, OwnInv, nodeVars,
       requestVars, userVars, historyVars
  <1>9. ModeInv'
    BY <1>1, <1>2
       DEF ModeInv, Answered, DefaultMode, nodeVars, requestVars, userVars, historyVars
  <1> QED BY <1>4, <1>5, <1>6, <1>7, <1>8, <1>9 DEF ClientInv

\* A status message: an acknowledgement is kept only for the call that waits
\* for it, and READY counts for the pending move only if it was announced for
\* that move, which is then the last that was completed.
LEMMA ReadStatusKeeps ==
    ASSUME ClientInv, role' = role, ReadStatus
    PROVE  ClientInv'
  <1>1. /\ FlagTypes /\ DataTypes /\ UserTypes /\ CallInv /\ GoneInv /\ AckInv /\ OrderInv
        /\ ReadyInv /\ MoveInv /\ OwnInv /\ ModeInv
    BY DEF ClientInv
  <1>2. /\ status # <<>> /\ status' = Tail(status)
        /\ UNCHANGED <<process, node, lifecycle, running, sockets, retired, reader,
                       mode, nextId, pendingAck, pendingReady, userVars,
                       historyVars>>
        /\ caps' = caps
    BY DEF ReadStatus, ConsumeAck, ConsumeReady
  <1>3. UNCHANGED <<armLock, lifeLock, pc, op, uid, next, connects, requests, arrived, agreed,
                    straddled>>
    BY <1>2 DEF userVars, historyVars
  <1> DEFINE m == Head(status)
             S == In(status)
             T == In(status')
  <1>4. status \in Seq(StatusMessages) /\ Len(status) <= Capacity /\ Capacity \in Nat
    BY <1>1, BoundsAssumption DEF DataTypes
  <1>5. /\ status' \in Seq(StatusMessages) /\ Len(status') = Len(status) - 1
        /\ m \in S /\ m \in StatusMessages /\ T \subseteq S /\ Len(status) \in Nat
    BY <1>2, <1>4, InTail
  <1>6. Len(status') <= Capacity
    BY <1>4, <1>5
  <1>7. \/ /\ m[1] = "ACK" /\ ready' = ready /\ readySeen' = readySeen
           /\ acks' = IF m[2] = pendingAck THEN acks \cup {<<m[2], m[3]>>} ELSE acks
        \/ /\ m[1] = "READY" /\ acks' = acks
           /\ ready' = (ready \/ pendingReady = 0)
           /\ readySeen' = (readySeen \/ (pendingReady # 0 /\ m[2] = pendingReady))
    BY DEF ReadStatus, ConsumeAck, ConsumeReady
  <1> HIDE DEF m, S, T
  <1>8. CASE /\ m[1] = "ACK" /\ ready' = ready /\ readySeen' = readySeen
             /\ acks' = IF m[2] = pendingAck THEN acks \cup {<<m[2], m[3]>>} ELSE acks
    <2>1. m[2] \in Ids /\ m[3] \in Commands
      BY <1>5, <1>8 DEF StatusMessages
    <2>2. m[2] # 0
      BY <1>1, <1>5, <1>8 DEF OrderInv, S
    <2>3. acks' \subseteq LifecycleMessages
      BY <1>1, <1>8, <2>1 DEF DataTypes, LifecycleMessages
    <2>4. ASSUME NEW a \in acks'
          PROVE  a \in acks \/ (a[1] = m[2] /\ a[2] = m[3] /\ m[2] = pendingAck)
      BY <1>8
    <2>5. FlagTypes'
      BY <1>1, <1>2, <1>3, <1>8 DEF FlagTypes
    <2>6. DataTypes'
      BY <1>1, <1>2, <1>3, <1>5, <1>6, <2>3 DEF DataTypes
    <2>7. UserTypes' /\ CallInv'
      BY <1>1, <1>3 DEF UserTypes, CallInv, CallerInv, EngagerInv, Closing
    <2>8. GoneInv'
      BY <1>1, <1>2, <1>3 DEF GoneInv, ClosedMeansGone, ReaderLives
    <2>9. AckInv'
      BY <1>1, <1>2, <1>3, <2>2, <2>4 DEF AckInv, AcksDrained
    <2>10. OrderInv'
      BY <1>1, <1>2, <1>3, <1>5 DEF OrderInv, S, T
    <2>11. ReadyInv'
      BY <1>1, <1>2, <1>3, <1>5 DEF ReadyInv, ReadyFor, Underway, S, T
    <2>12. MoveInv'
      BY <1>1, <1>2, <1>3, <1>8 DEF MoveInv
    <2>13. OwnInv'
      <3> SUFFICES ASSUME ~straddled PROVE OwnInv'
        BY <1>3 DEF OwnInv
      <3>1. m[2] = pendingAck => m[3] = op[lifeLock]
        BY <1>1, <1>5, <1>8, <2>2, UsersAssumption
           DEF AckInv, OwnInv, UserTypes, S
      <3>2. \A a \in acks' : a[2] = op[lifeLock]
        BY <1>1, <2>4, <3>1 DEF OwnInv
      <3> QED BY <1>1, <1>2, <1>3, <1>5, <3>2 DEF OwnInv, S, T
    <2>14. ModeInv'
      <3>1. ASSUME NEW u \in Users, pc[u] = "send",
                   acks' # {} \/ \E k \in T : k[1] = "ACK" /\ k[2] = uid[u]
            PROVE  Answered(u)
        <4>1. CASE acks' = acks
          BY <1>5, <3>1, <4>1 DEF Answered, S
        <4>2. CASE m[2] = pendingAck
          <5>1. lifeLock = u
            BY <1>1, <3>1 DEF CallInv
          <5>2. m[2] = uid[u]
            BY <1>1, <2>2, <4>2, <5>1 DEF AckInv
          <5> QED BY <1>5, <1>8, <5>2 DEF Answered, S
        <4> QED BY <1>8, <4>1, <4>2
      <3> QED BY <1>1, <1>2, <1>3, <3>1 DEF ModeInv, Answered, DefaultMode, T
    <2> QED BY <2>5, <2>6, <2>7, <2>8, <2>9, <2>10, <2>11, <2>12, <2>13, <2>14 DEF ClientInv
  <1>9. CASE /\ m[1] = "READY" /\ acks' = acks
             /\ ready' = (ready \/ pendingReady = 0)
             /\ readySeen' = (readySeen \/ (pendingReady # 0 /\ m[2] = pendingReady))
    <2>1. m[2] \in Nat
      BY <1>5, <1>9 DEF StatusMessages, Ids
    <2>2. m[2] <= arrived
      BY <1>1, <1>5, <1>9 DEF ReadyInv, ReadyFor, S
    <2>3. ready' \in BOOLEAN /\ readySeen' \in BOOLEAN
      BY <1>9, Zenon
    <2>4. FlagTypes'
      BY <1>1, <1>2, <1>3, <2>3 DEF FlagTypes
    <2>5. DataTypes'
      BY <1>1, <1>2, <1>3, <1>5, <1>6, <1>9 DEF DataTypes
    <2>6. UserTypes' /\ CallInv'
      BY <1>1, <1>3 DEF UserTypes, CallInv, CallerInv, EngagerInv, Closing
    <2>7. GoneInv'
      BY <1>1, <1>2, <1>3 DEF GoneInv, ClosedMeansGone, ReaderLives
    <2>8. AckInv'
      BY <1>1, <1>2, <1>3, <1>9 DEF AckInv, AcksDrained
    <2>9. OrderInv'
      BY <1>1, <1>2, <1>3, <1>5 DEF OrderInv, S, T
    <2>10. ReadyInv'
      BY <1>1, <1>2, <1>3, <1>5 DEF ReadyInv, ReadyFor, Underway, S, T
    <2>11. MoveInv'
      <3>1. readySeen' => pendingReady # 0
        BY <1>1, <1>9 DEF MoveInv
      <3>2. ASSUME NEW u \in Callers, op[u] = "MOVE"
            PROVE  \/ pendingReady = uid[u] /\ ~ready' /\ (readySeen' => arrived = uid[u])
                   \/ pendingReady = 0 /\ arrived = uid[u]
        <4>1. uid[u] # 0 /\ uid[u] \in Nat /\ arrived \in Nat
          BY <1>1, <3>2
             DEF CallInv, CallerInv, Closing, Closes, UserTypes, PCs, Users, Ids,
                 DataTypes
        <4>2. arrived <= uid[u]
          BY <1>1, <4>1 DEF ReadyInv, ReadyFor
        <4>3. m[2] = uid[u] => arrived = uid[u]
          BY <2>1, <2>2, <4>1, <4>2
        <4>4. \/ pendingReady = uid[u] /\ ~ready /\ (readySeen => arrived = uid[u])
              \/ pendingReady = 0 /\ arrived = uid[u]
          BY <1>1, <3>2 DEF MoveInv
        <4> QED BY <1>9, <4>1, <4>3, <4>4
      <3> QED BY <1>1, <1>2, <1>3, <3>1, <3>2 DEF MoveInv
    <2>12. OwnInv'
      BY <1>1, <1>2, <1>3, <1>5, <1>9 DEF OwnInv, S, T
    <2>13. ModeInv'
      <3>1. ASSUME NEW u \in Users, acks # {} \/ \E k \in T : k[1] = "ACK" /\ k[2] = uid[u]
            PROVE  Answered(u)
        BY <1>5, <3>1 DEF Answered, S
      <3> QED BY <1>1, <1>2, <1>3, <1>9, <3>1 DEF ModeInv, Answered, DefaultMode, T
    <2> QED BY <2>4, <2>5, <2>6, <2>7, <2>8, <2>9, <2>10, <2>11, <2>12, <2>13 DEF ClientInv
  <1> QED BY <1>7, <1>8, <1>9

\* A state sample: the cached mode survives, and the pending move is over when
\* its READY was seen before.
LEMMA ReadSampleKeeps ==
    ASSUME ClientInv, role' = role, ReadSample
    PROVE  ClientInv'
  <1>1. /\ FlagTypes /\ DataTypes /\ UserTypes /\ CallInv /\ GoneInv /\ AckInv /\ OrderInv
        /\ ReadyInv /\ MoveInv /\ OwnInv /\ ModeInv
    BY DEF ClientInv
  <1>2. UNCHANGED <<nodeVars, running, sockets, retired, reader, caps, nextId,
                    pendingAck, acks, userVars, historyVars>>
    BY DEF ReadSample
  <1>3. UNCHANGED <<process, node, lifecycle, status, armLock, lifeLock, pc, op, uid, next,
                    connects, requests, arrived, agreed, straddled>>
    BY <1>2 DEF nodeVars, userVars, historyVars
  <1> DEFINE answered == pendingReady # 0 /\ readySeen
  <1>4. /\ mode' = IF mode = "none" THEN DefaultMode ELSE mode
        /\ ready' = (ready \/ answered)
        /\ pendingReady' = IF answered THEN 0 ELSE pendingReady
        /\ readySeen' = (readySeen /\ ~answered)
    BY DEF ReadSample, ConsumeState
  <1>5. ready' \in BOOLEAN /\ readySeen' \in BOOLEAN
    BY <1>4, Zenon
  <1>6. FlagTypes'
    BY <1>1, <1>2, <1>3, <1>5 DEF FlagTypes
  <1>7. DataTypes'
    BY <1>1, <1>2, <1>3, <1>4 DEF DataTypes, DefaultMode, Modes, Ids
  <1>8. UserTypes' /\ CallInv' /\ AckInv'
    BY <1>1, <1>2, <1>3
       DEF UserTypes, CallInv, CallerInv, EngagerInv, Closing, AckInv,
       AcksDrained
  <1>9. GoneInv'
    BY <1>1, <1>2, <1>3 DEF GoneInv, ClosedMeansGone, ReaderLives
  <1>10. OrderInv' /\ ReadyInv' /\ OwnInv'
    BY <1>1, <1>2, <1>3 DEF OrderInv, ReadyInv, ReadyFor, Underway, OwnInv
  <1>11. MoveInv'
    <2>1. readySeen' => pendingReady' # 0
      BY <1>1, <1>4 DEF MoveInv
    <2>2. pendingReady' # 0 => pendingReady' = pendingReady
      BY <1>4
    <2>3. ASSUME NEW u \in Callers, op[u] = "MOVE"
          PROVE  \/ pendingReady' = uid[u] /\ ~ready' /\ (readySeen' => arrived = uid[u])
                 \/ pendingReady' = 0 /\ arrived = uid[u]
      <3>1. \/ pendingReady = uid[u] /\ ~ready /\ (readySeen => arrived = uid[u])
            \/ pendingReady = 0 /\ arrived = uid[u]
        BY <1>1, <2>3 DEF MoveInv
      <3> QED BY <1>4, <3>1
    <2> QED BY <1>1, <1>3, <2>1, <2>2, <2>3 DEF MoveInv
  <1>12. ModeInv'
    BY <1>1, <1>2, <1>3, <1>4 DEF ModeInv, Answered, DefaultMode
  <1> QED BY <1>6, <1>7, <1>8, <1>9, <1>10, <1>11, <1>12 DEF ClientInv

-----------------------------------------------------------------------------
(***************************************************************************)
(* The calls.                                                              *)
(***************************************************************************)

\* One caller at a time: while one is in a call, or none is, the others have
\* no command and no id.
LEMMA OtherCallers ==
    ASSUME UserTypes, CallInv, NEW u \in Callers, armLock = NoOne \/ pc[u] # "idle"
    PROVE  \A v \in Callers : v # u => pc[v] = "idle" /\ uid[v] = 0 /\ op[v] = "PAUSE"
  BY UsersAssumption DEF CallInv, CallerInv, Users

\* An idle thread, a caller or one that engages a pair, has no id.
LEMMA IdleHasNone ==
    ASSUME UserTypes, CallInv, NEW u \in Users, pc[u] = "idle"
    PROVE  uid[u] = 0 /\ op[u] = "PAUSE" /\ lifeLock # u
  <1>1. uid[u] \in Ids
    BY DEF UserTypes
  <1> QED BY <1>1 DEF CallInv, CallerInv, EngagerInv, Users

\* The return of a call.
LEMMA ReturnEffect ==
    ASSUME UserTypes, NEW u \in Users, Return(u)
    PROVE  /\ pc' \in [Users -> PCs] /\ op' \in [Users -> Commands] /\ uid' \in [Users -> Ids]
           /\ armLock' \in Users \cup {NoOne}
           /\ pc'[u] = "idle" /\ uid'[u] = 0 /\ op'[u] = "PAUSE"
           /\ \A v \in Users : v # u => pc'[v] = pc[v] /\ uid'[v] = uid[v] /\ op'[v] = op[v]
           /\ armLock' = IF armLock = u THEN NoOne ELSE armLock
  BY DEF UserTypes, Return, Goto, PCs, Commands, LockFree, Ids

\* A command of a caller, or one of a thread that engages a pair.
LEMMA SendCommandKeeps ==
    ASSUME ClientInv, role' = role, NEW u \in Users, NEW command \in Commands, SendCommand(u, command)
    PROVE  ClientInv'
  <1>1. /\ FlagTypes /\ DataTypes /\ UserTypes /\ CallInv /\ GoneInv /\ AckInv /\ OrderInv
        /\ ReadyInv /\ MoveInv /\ OwnInv /\ ModeInv
    BY DEF ClientInv
  <1>2. /\ pc[u] = "idle" /\ requests < MaxRequests /\ requests' = requests + 1
        /\ op' = [op EXCEPT ![u] = command] /\ pc' = [pc EXCEPT ![u] = "lock"]
        /\ UNCHANGED <<nodeVars, backendVars, requestVars, lifeLock, uid, next,
                       connects, arrived, agreed, straddled>>
    BY DEF SendCommand, Goto
  <1>3. UNCHANGED <<process, node, lifecycle, status, running, sockets, retired, reader, caps,
                    ready, mode, nextId, pendingAck, acks, pendingReady,
                    readySeen>>
    BY <1>2 DEF nodeVars, backendVars, requestVars
  <1>4. \/ /\ u \in Callers /\ command \notin LockFree /\ command # "MOVE"
           /\ armLock = NoOne /\ armLock' = u
        \/ u \in Engagers /\ command \in LockFree /\ armLock' = armLock
    BY DEF SendCommand, ModeCommands, LockFree
  <1>5. uid[u] = 0 /\ op[u] = "PAUSE" /\ lifeLock # u
    BY <1>1, <1>2, IdleHasNone
  <1>6. /\ pc' \in [Users -> PCs] /\ op' \in [Users -> Commands]
        /\ pc'[u] = "lock" /\ op'[u] = command
        /\ \A v \in Users : v # u => pc'[v] = pc[v] /\ op'[v] = op[v]
    BY <1>1, <1>2 DEF UserTypes, PCs
  <1>7. u \in Callers => \A v \in Callers : v # u => pc[v] = "idle" /\ uid[v] = 0 /\ op[v] = "PAUSE"
    BY <1>1, <1>4, OtherCallers, UsersAssumption
  <1>8. Callers \subseteq Users /\ Engagers \subseteq Users /\ (u \in Callers <=> u \notin Engagers)
    BY UsersAssumption DEF Users
  <1>9. FlagTypes'
    BY <1>1, <1>2, <1>3 DEF FlagTypes
  <1>10. DataTypes'
    BY <1>1, <1>2, <1>3, <1>4, BoundsAssumption DEF DataTypes
  <1>11. UserTypes'
    BY <1>1, <1>2, <1>4, <1>6 DEF UserTypes
  <1>12. CallInv'
    <2>1. \A v \in Users : pc'[v] = "send" <=> lifeLock' = v
      BY <1>1, <1>2, <1>5, <1>6 DEF CallInv
    <2>2. ASSUME NEW v \in Callers PROVE CallerInv(v)'
      <3>1. CASE v = u
        BY <1>1, <1>2, <1>4, <1>5, <1>6, <1>8, <3>1
           DEF CallInv, CallerInv, Closing
      <3>2. CASE v # u
        BY <1>1, <1>2, <1>4, <1>5, <1>6, <1>7, <1>8, <3>2
           DEF CallInv, CallerInv, Closing
      <3> QED BY <3>1, <3>2
    <2>3. ASSUME NEW v \in Engagers PROVE EngagerInv(v)'
      <3>1. CASE v = u
        BY <1>2, <1>4, <1>5, <1>6, <1>8, <3>1 DEF EngagerInv
      <3>2. CASE v # u
        BY <1>1, <1>2, <1>6, <1>8, <3>2 DEF CallInv, EngagerInv
      <3> QED BY <3>1, <3>2
    <2> QED BY <2>1, <2>2, <2>3 DEF CallInv
  <1>13. GoneInv'
    BY <1>1, <1>3, <1>6, <1>8 DEF GoneInv, ClosedMeansGone, ReaderLives
  <1>14. AckInv'
    BY <1>1, <1>2, <1>3 DEF AckInv, AcksDrained
  <1>15. OrderInv'
    <2>1. ASSUME NEW v \in Callers, uid[v] # 0 PROVE op'[v] = op[v]
      BY <1>5, <1>6, <1>8, <2>1
    <2> QED BY <1>1, <1>2, <1>3, <2>1 DEF OrderInv
  <1>16. ReadyInv'
    BY <1>1, <1>2, <1>3 DEF ReadyInv, ReadyFor, Underway
  <1>17. MoveInv'
    <2>1. \A v \in Callers : op'[v] = "MOVE" <=> op[v] = "MOVE"
      BY <1>4, <1>5, <1>6, <1>8 DEF LockFree
    <2> QED BY <1>1, <1>2, <1>3, <2>1 DEF MoveInv
  <1>18. OwnInv'
    <2>1. ASSUME NEW v \in Users, uid[v] # 0 PROVE op'[v] = op[v]
      BY <1>5, <1>6, <2>1
    <2>2. acks # {} => op'[lifeLock] = op[lifeLock]
      BY <1>1, <1>5, <1>6 DEF AckInv, AcksDrained, UserTypes
    <2> QED BY <1>1, <1>2, <1>3, <2>1, <2>2 DEF OwnInv
  <1>19. ModeInv'
    <2>1. ASSUME NEW v \in Users, pc'[v] = "send"
          PROVE  pc[v] = "send" /\ op'[v] = op[v]
      BY <1>6, <2>1
    <2> QED BY <1>1, <1>2, <1>3, <2>1 DEF ModeInv, Answered, DefaultMode
  <1> QED
    BY <1>9, <1>10, <1>11, <1>12, <1>13, <1>14, <1>15, <1>16, <1>17, <1>18, <1>19
       DEF ClientInv

\* move_to_ready() registers an id that is newer than all others.
LEMMA MoveToReadyKeeps ==
    ASSUME ClientInv, role' = role, NEW u \in Callers, MoveToReady(u)
    PROVE  ClientInv'
  <1>1. /\ FlagTypes /\ DataTypes /\ UserTypes /\ CallInv /\ GoneInv /\ AckInv /\ OrderInv
        /\ ReadyInv /\ MoveInv /\ OwnInv /\ ModeInv
    BY DEF ClientInv
  <1>2. /\ pc[u] = "idle" /\ armLock = NoOne /\ requests < MaxRequests /\ requests' = requests + 1
        /\ armLock' = u /\ nextId' = nextId + 1
        /\ op' = [op EXCEPT ![u] = "MOVE"] /\ uid' = [uid EXCEPT ![u] = nextId']
        /\ pendingReady' = nextId' /\ readySeen' = FALSE /\ ready' = FALSE
        /\ pc' = [pc EXCEPT ![u] = "lock"]
        /\ UNCHANGED <<running, sockets, retired, reader, caps, mode,
                       pendingAck, acks, lifeLock, next, connects, arrived,
                       agreed, straddled>>
        /\ UNCHANGED nodeVars
    BY DEF MoveToReady, Goto
  <1>3. UNCHANGED <<process, node, lifecycle, status>>
    BY <1>2 DEF nodeVars
  <1>4. u \in Users /\ Callers \subseteq Users /\ Engagers \subseteq Users /\ u \notin Engagers
    BY UsersAssumption DEF Users
  <1>5. uid[u] = 0 /\ op[u] = "PAUSE" /\ lifeLock # u
    BY <1>1, <1>2, <1>4, IdleHasNone
  <1>6. nextId \in Nat /\ nextId' \in Nat /\ nextId < nextId' /\ nextId' # 0 /\ nextId' \in Ids
    BY <1>1, <1>2 DEF DataTypes, Ids
  <1>7. /\ pc' \in [Users -> PCs] /\ op' \in [Users -> Commands] /\ uid' \in [Users -> Ids]
        /\ pc'[u] = "lock" /\ op'[u] = "MOVE" /\ uid'[u] = nextId'
        /\ \A v \in Users : v # u => pc'[v] = pc[v] /\ op'[v] = op[v] /\ uid'[v] = uid[v]
    BY <1>1, <1>2, <1>4, <1>6 DEF UserTypes, PCs, Commands
  <1>8. \A v \in Callers : v # u => pc[v] = "idle" /\ uid[v] = 0 /\ op[v] = "PAUSE"
    BY <1>1, <1>2, OtherCallers
  <1>9. FlagTypes'
    BY <1>1, <1>2 DEF FlagTypes
  <1>10. DataTypes'
    BY <1>1, <1>2, <1>3, <1>6, BoundsAssumption DEF DataTypes
  <1>11. UserTypes'
    BY <1>1, <1>2, <1>4, <1>7 DEF UserTypes
  <1>12. CallInv'
    <2>1. \A v \in Users : pc'[v] = "send" <=> lifeLock' = v
      BY <1>1, <1>2, <1>5, <1>7 DEF CallInv
    <2>2. ASSUME NEW v \in Callers PROVE CallerInv(v)'
      <3>1. CASE v = u
        BY <1>1, <1>2, <1>6, <1>7, <3>1 DEF CallInv, CallerInv, Closing, Closes, LockFree
      <3>2. CASE v # u
        BY <1>1, <1>2, <1>4, <1>7, <1>8, <3>2 DEF CallInv, CallerInv, Closing
      <3> QED BY <3>1, <3>2
    <2>3. ASSUME NEW v \in Engagers PROVE EngagerInv(v)'
      BY <1>1, <1>4, <1>7 DEF CallInv, EngagerInv
    <2> QED BY <2>1, <2>2, <2>3 DEF CallInv
  <1>13. GoneInv'
    BY <1>1, <1>2, <1>3, <1>4, <1>7 DEF GoneInv, ClosedMeansGone, ReaderLives
  <1>14. AckInv'
    BY <1>1, <1>2, <1>5, <1>7 DEF AckInv, AcksDrained, UserTypes
  <1> DEFINE L == In(lifecycle)
             S == In(status)
  <1>15. L \subseteq LifecycleMessages /\ S \subseteq StatusMessages
    BY <1>1, InType DEF DataTypes
  <1>16. /\ \A m \in L : m[1] \in Nat
         /\ \A m \in S : m[1] = "ACK" => m[2] \in Nat
    BY <1>15 DEF LifecycleMessages, StatusMessages, Ids
  <1>17. OrderInv'
    <2>1. /\ \A m \in L : m[1] # 0 /\ (Order(m) => m[1] <= nextId')
      BY <1>1, <1>6, <1>16 DEF OrderInv
    <2>2. \A v \in Callers : uid'[v] <= nextId'
      BY <1>4, <1>6, <1>7, <1>8
    <2>3. ASSUME NEW v \in Callers, uid'[v] # 0, NEW m \in L, Order(m)
          PROVE  m[1] <= uid'[v] /\ (m[1] = uid'[v] => m[2] = op'[v])
      <3>1. uid'[v] = nextId'
        BY <1>4, <1>7, <1>8, <2>3
      <3>2. m[1] <= nextId
        BY <1>1, <2>3 DEF OrderInv
      <3> QED BY <1>6, <1>16, <3>1, <3>2
    <2> QED BY <1>1, <1>3, <2>1, <2>2, <2>3 DEF OrderInv
  <1>18. ReadyInv'
    <2>1. arrived \in Nat /\ node.req \in Nat /\ arrived <= nextId /\ node.req <= nextId
      BY <1>1 DEF DataTypes, NodeStates, ReadyInv, ReadyFor, Ids
    <2>2. \A v \in Callers : uid'[v] # 0 => uid'[v] = nextId'
      BY <1>4, <1>7, <1>8
    <2>3. arrived <= nextId' /\ node.req <= nextId'
      BY <1>6, <2>1
    <2> QED BY <1>1, <1>2, <1>3, <2>2, <2>3 DEF ReadyInv, ReadyFor, Underway
  <1>19. MoveInv'
    <2>1. \A v \in Callers : op'[v] = "MOVE" => v = u
      BY <1>4, <1>7, <1>8
    <2> QED BY <1>2, <1>7, <2>1 DEF MoveInv
  <1>20. OwnInv'
    <2> SUFFICES ASSUME ~straddled PROVE OwnInv'
      BY <1>2 DEF OwnInv
    <2>1. /\ \A m \in L : m[1] <= nextId /\ m[1] # nextId' /\ m[1] <= nextId'
          /\ \A m \in S : m[1] = "ACK" => m[2] # nextId' /\ m[2] <= nextId'
      BY <1>1, <1>6, <1>16 DEF OwnInv
    <2>2. \A v \in Users : uid[v] \in Nat /\ uid[v] # nextId' /\ uid[v] <= nextId'
      BY <1>1, <1>6 DEF OwnInv, UserTypes, Ids
    <2>3. \A v \in Users : uid'[v] <= nextId'
      BY <1>6, <1>7, <2>2
    <2>4. \A v, w \in Users : uid'[v] # 0 /\ uid'[v] = uid'[w] => v = w
      BY <1>1, <1>7, <2>2 DEF OwnInv
    <2>5. ASSUME NEW v \in Users, uid'[v] # 0
          PROVE  /\ \A m \in L : m[1] = uid'[v] => m[2] = op'[v]
                 /\ \A m \in S : m[1] = "ACK" /\ m[2] = uid'[v] => m[3] = op'[v]
      <3>1. CASE v = u
        BY <1>7, <2>1, <3>1
      <3>2. CASE v # u
        BY <1>1, <1>7, <2>5, <3>2 DEF OwnInv
      <3> QED BY <3>1, <3>2
    <2>6. \A a \in acks : a[2] = op'[lifeLock]
      BY <1>1, <1>5, <1>7 DEF OwnInv, AckInv, AcksDrained, UserTypes
    <2> QED BY <1>2, <1>3, <2>1, <2>3, <2>4, <2>5, <2>6 DEF OwnInv
  <1>21. ModeInv'
    <2>1. ASSUME NEW v \in Users, pc'[v] = "send"
          PROVE  pc[v] = "send" /\ op'[v] = op[v] /\ uid'[v] = uid[v]
      BY <1>7, <2>1
    <2> QED BY <1>1, <1>2, <1>3, <2>1 DEF ModeInv, Answered, DefaultMode
  <1> QED
    BY <1>9, <1>10, <1>11, <1>12, <1>13, <1>14, <1>17, <1>18, <1>19, <1>20, <1>21
       DEF ClientInv

\* The lifecycle lock is taken: nothing is left of the call that held it
\* before, and no answer to the new id can be under way.
LEMMA LockKeeps ==
    ASSUME ClientInv, role' = role, NEW u \in Users, Lock(u)
    PROVE  ClientInv'
  <1>1. /\ FlagTypes /\ DataTypes /\ UserTypes /\ CallInv /\ GoneInv /\ AckInv /\ OrderInv
        /\ ReadyInv /\ MoveInv /\ OwnInv /\ ModeInv
    BY DEF ClientInv
  <1> DEFINE id == IF uid[u] = 0 THEN nextId + 1 ELSE uid[u]
  <1>2. /\ pc[u] = "lock" /\ lifeLock = NoOne /\ uid' = [uid EXCEPT ![u] = id]
        /\ nextId' = (IF uid[u] = 0 THEN id ELSE nextId) /\ pendingAck' = id
        /\ lifeLock' = u /\ pc' = [pc EXCEPT ![u] = "send"]
        /\ UNCHANGED <<nodeVars, backendVars, acks, pendingReady, readySeen,
                       armLock, op, next, connects, requests, arrived, straddled>>
    BY DEF Lock, Goto
  <1>3. UNCHANGED <<process, node, lifecycle, status, running, sockets, retired, reader, caps,
                    ready, mode, acks, pendingReady, readySeen, armLock, op,
                    next, connects, requests, arrived, straddled>>
    BY <1>2 DEF nodeVars, backendVars
  <1>4. Callers \subseteq Users /\ Engagers \subseteq Users /\ (u \in Callers <=> u \notin Engagers)
    BY UsersAssumption DEF Users
  <1>5. /\ nextId \in Nat /\ uid[u] \in Nat /\ id \in Nat /\ id # 0 /\ nextId' \in Nat
        /\ nextId <= nextId'
    BY <1>1, <1>2 DEF DataTypes, UserTypes, Ids
  <1>6. uid[u] = 0 => id = nextId + 1 /\ nextId' = id
    BY <1>2
  <1>7. uid[u] # 0 => id = uid[u] /\ nextId' = nextId
    BY <1>2
  <1> HIDE DEF id
  <1>8. /\ pc' \in [Users -> PCs] /\ uid' \in [Users -> Ids]
        /\ pc'[u] = "send" /\ uid'[u] = id
        /\ \A v \in Users : v # u => pc'[v] = pc[v] /\ uid'[v] = uid[v]
    BY <1>1, <1>2, <1>5 DEF UserTypes, PCs, Ids
  <1>9. u \in Callers => \A v \in Callers : v # u => pc[v] = "idle" /\ uid[v] = 0 /\ op[v] = "PAUSE"
    BY <1>1, <1>2, OtherCallers
  <1>10. acks = {}
    BY <1>1, <1>2 DEF AckInv, AcksDrained
  <1>11. \A v \in Users : pc[v] # "send"
    BY <1>1, <1>2, UsersAssumption DEF CallInv
  <1>12. FlagTypes'
    BY <1>1, <1>3 DEF FlagTypes
  <1>13. DataTypes'
    <2>1. agreed' \in {"pending", "no", agreed}
      BY DEF Lock
    <2> QED BY <1>1, <1>2, <1>3, <1>5, <2>1 DEF DataTypes, Ids
  <1>14. UserTypes'
    BY <1>1, <1>2, <1>3, <1>8 DEF UserTypes
  <1>15. CallInv'
    <2>1. \A v \in Users : pc'[v] = "send" <=> lifeLock' = v
      BY <1>2, <1>8, <1>11
    <2>2. ASSUME NEW v \in Callers PROVE CallerInv(v)'
      <3>1. CASE v = u
        BY <1>1, <1>2, <1>3, <1>5, <1>8, <3>1 DEF CallInv, CallerInv, Closing
      <3>2. CASE v # u
        BY <1>1, <1>3, <1>4, <1>8, <3>2 DEF CallInv, CallerInv, Closing
      <3> QED BY <3>1, <3>2
    <2>3. ASSUME NEW v \in Engagers PROVE EngagerInv(v)'
      <3>1. CASE v = u
        BY <1>1, <1>3, <1>5, <1>8, <3>1 DEF CallInv, EngagerInv
      <3>2. CASE v # u
        BY <1>1, <1>3, <1>4, <1>8, <3>2 DEF CallInv, EngagerInv
      <3> QED BY <3>1, <3>2
    <2> QED BY <2>1, <2>2, <2>3 DEF CallInv
  <1>16. GoneInv'
    BY <1>1, <1>3, <1>4, <1>8 DEF GoneInv, ClosedMeansGone, ReaderLives
  <1>17. AckInv'
    BY <1>2, <1>3, <1>8, <1>10, UsersAssumption DEF AckInv, AcksDrained
  <1> DEFINE L == In(lifecycle)
             S == In(status)
  <1>18. L \subseteq LifecycleMessages /\ S \subseteq StatusMessages
    BY <1>1, InType DEF DataTypes
  <1>19. /\ \A m \in L : m[1] \in Nat
         /\ \A m \in S : m[1] = "ACK" => m[2] \in Nat
         /\ \A v \in Users : uid[v] \in Nat
    BY <1>1, <1>18 DEF LifecycleMessages, StatusMessages, Ids, UserTypes
  <1>20. \A v \in Callers : uid'[v] = uid[v] \/ (v = u /\ uid[u] = 0 /\ uid'[v] = nextId + 1)
    BY <1>4, <1>6, <1>7, <1>8
  <1>21. OrderInv'
    <2>1. \A m \in L : m[1] # 0 /\ (Order(m) => m[1] <= nextId')
      BY <1>1, <1>5, <1>19 DEF OrderInv
    <2>2. ASSUME NEW v \in Callers PROVE uid'[v] <= nextId'
      <3>1. uid[v] <= nextId
        BY <1>1 DEF OrderInv
      <3> QED BY <1>4, <1>5, <1>6, <1>19, <1>20, <3>1
    <2>3. ASSUME NEW v \in Callers, uid'[v] # 0, NEW m \in L, Order(m)
          PROVE  m[1] <= uid'[v] /\ (m[1] = uid'[v] => m[2] = op[v])
      <3>1. CASE uid'[v] = uid[v]
        BY <1>1, <2>3, <3>1 DEF OrderInv
      <3>2. CASE uid'[v] = nextId + 1
        <4>1. m[1] <= nextId
          BY <1>1, <2>3 DEF OrderInv
        <4> QED BY <1>5, <1>19, <3>2, <4>1
      <3> QED BY <1>20, <3>1, <3>2
    <2> QED BY <1>1, <1>3, <2>1, <2>2, <2>3 DEF OrderInv
  <1>22. ReadyInv'
    <2>1. arrived \in Nat /\ node.req \in Nat /\ arrived <= nextId /\ node.req <= nextId
      BY <1>1 DEF DataTypes, NodeStates, ReadyInv, ReadyFor, Ids
    <2>2. arrived <= nextId' /\ node.req <= nextId'
      BY <1>5, <2>1
    <2>3. ASSUME NEW v \in Callers, uid'[v] # 0 PROVE arrived <= uid'[v] /\ node.req <= uid'[v]
      <3>1. CASE uid'[v] = uid[v]
        BY <1>1, <2>3, <3>1 DEF ReadyInv, ReadyFor
      <3>2. CASE uid'[v] = nextId + 1
        BY <1>5, <2>1, <3>2
      <3> QED BY <1>20, <3>1, <3>2
    <2> QED BY <1>1, <1>3, <2>2, <2>3 DEF ReadyInv, ReadyFor, Underway
  <1>23. MoveInv'
    <2>1. ASSUME NEW v \in Callers, op[v] = "MOVE" PROVE uid'[v] = uid[v]
      <3>1. uid[v] # 0
        BY <1>1, <1>4, <2>1 DEF CallInv, CallerInv, Closing, Closes, UserTypes, PCs
      <3> QED BY <1>20, <3>1
    <2> QED BY <1>1, <1>3, <2>1 DEF MoveInv
  <1>24. OwnInv'
    <2> SUFFICES ASSUME ~straddled PROVE OwnInv'
      BY <1>3 DEF OwnInv
    <2>1. /\ \A m \in L : m[1] <= nextId
          /\ \A m \in S : m[1] = "ACK" => m[2] <= nextId
          /\ \A v \in Users : uid[v] <= nextId
      BY <1>1 DEF OwnInv
    <2>2. /\ \A m \in L : m[1] <= nextId'
          /\ \A m \in S : m[1] = "ACK" => m[2] <= nextId'
          /\ \A v \in Users : uid[v] <= nextId'
      BY <1>5, <1>19, <2>1
    <2>3. id <= nextId'
      BY <1>5, <1>6, <1>7, <2>2
    <2>4. CASE uid[u] # 0
      <3>1. \A v \in Users : uid'[v] = uid[v]
        BY <1>7, <1>8, <2>4
      <3> QED BY <1>1, <1>3, <1>10, <2>2, <3>1 DEF OwnInv
    <2>5. CASE uid[u] = 0
      <3>1. /\ \A m \in L : m[1] # id
            /\ \A m \in S : m[1] = "ACK" => m[2] # id
            /\ \A v \in Users : uid[v] # id
        BY <1>5, <1>6, <1>19, <2>1, <2>5
      <3>2. \A v, w \in Users : uid'[v] # 0 /\ uid'[v] = uid'[w] => v = w
        BY <1>1, <1>8, <3>1 DEF OwnInv
      <3>3. ASSUME NEW v \in Users, uid'[v] # 0
            PROVE  /\ \A m \in L : m[1] = uid'[v] => m[2] = op[v]
                   /\ \A m \in S : m[1] = "ACK" /\ m[2] = uid'[v] => m[3] = op[v]
        <4>1. CASE v = u
          BY <1>8, <3>1, <4>1
        <4>2. CASE v # u
          BY <1>1, <1>8, <3>3, <4>2 DEF OwnInv
        <4> QED BY <4>1, <4>2
      <3>4. \A v \in Users : uid'[v] <= nextId'
        BY <1>8, <2>2, <2>3
      <3> QED BY <1>3, <1>10, <2>2, <3>2, <3>3, <3>4 DEF OwnInv
    <2> QED BY <2>4, <2>5
  <1>25. ModeInv'
    <2> SUFFICES ASSUME ~straddled PROVE ModeInv'
      BY <1>3 DEF ModeInv
    <2>1. \A v \in Users : pc'[v] = "send" => v = u
      BY <1>8, <1>11
    <2>2. /\ op[u] \in Disturbing => agreed' # "yes"
          /\ agreed' = "yes" => agreed = "yes"
      BY DEF Lock, Disturbing
    <2>3. ASSUME op[u] \in ModeCommands
          PROVE  /\ Tailing(lifecycle, <<id, op[u]>>)
                 /\ ~(\E m \in S : m[1] = "ACK" /\ m[2] = id)
      <3>1. uid[u] = 0
        BY <1>1, <1>2, <1>4, <2>3
           DEF CallInv, CallerInv, EngagerInv, ModeCommands, LockFree, Users
      <3>2. /\ \A m \in S : m[1] = "ACK" => m[2] <= nextId
            /\ \A m \in L : m[1] <= nextId
        BY <1>1 DEF OwnInv
      <3>3. /\ \A m \in S : m[1] = "ACK" => m[2] # id
            /\ \A m \in L : m[1] # id
        BY <1>5, <1>6, <1>19, <3>1, <3>2
      <3>4. Tailing(lifecycle, <<id, op[u]>>)
        BY <3>3 DEF Tailing, In
      <3> QED BY <3>3, <3>4
    <2> QED BY <1>1, <1>3, <1>8, <1>10, <2>1, <2>2, <2>3 DEF ModeInv, Answered, DefaultMode
  <1> QED
    BY <1>12, <1>13, <1>14, <1>15, <1>16, <1>17, <1>21, <1>22, <1>23, <1>24, <1>25
       DEF ClientInv

\* A copy of the command in progress is the newest that is queued.
LEMMA SendKeeps ==
    ASSUME ClientInv, role' = role, NEW u \in Users, Send(u)
    PROVE  ClientInv'
  <1>1. /\ FlagTypes /\ DataTypes /\ UserTypes /\ CallInv /\ GoneInv /\ AckInv /\ OrderInv
        /\ ReadyInv /\ MoveInv /\ OwnInv /\ ModeInv
    BY DEF ClientInv
  <1> DEFINE k == <<uid[u], op[u]>>
             L == In(lifecycle)
             K == In(lifecycle')
  <1>2. /\ pc[u] = "send" /\ lifecycle' \in Published(lifecycle, k)
        /\ UNCHANGED <<process, node, status, backendVars, requestVars, userVars, historyVars>>
    BY DEF Send
  <1>3. UNCHANGED <<process, node, status, running, sockets, retired, reader, caps,
                    ready, mode, nextId, pendingAck, acks, pendingReady,
                    readySeen, armLock,
                    lifeLock, pc, op, uid, next, connects, requests, arrived,
                    agreed, straddled>>
    BY <1>2 DEF backendVars, requestVars, userVars, historyVars
  <1>4. /\ lifecycle \in Seq(LifecycleMessages) /\ Len(lifecycle) <= Capacity /\ Sorted(lifecycle)
        /\ k \in LifecycleMessages /\ k[1] = uid[u] /\ k[2] = op[u]
    BY <1>1 DEF DataTypes, UserTypes, OrderInv, LifecycleMessages
  <1> HIDE DEF k
  <1>5. /\ lifecycle' \in Seq(LifecycleMessages) /\ Len(lifecycle') <= Capacity
        /\ K \subseteq L \cup {k}
        /\ lifecycle' = lifecycle \/ lifecycle' = Append(lifecycle, k)
    BY <1>2, <1>4, PublishedIn
  <1>6. Callers \subseteq Users /\ Engagers \subseteq Users /\ (u \in Callers <=> u \notin Engagers)
    BY UsersAssumption DEF Users
  <1>7. uid[u] # 0 /\ uid[u] \in Nat /\ lifeLock = u
    BY <1>1, <1>2, <1>6 DEF CallInv, CallerInv, EngagerInv, UserTypes, Ids
  <1>8. Order(k) => u \in Callers
    BY <1>1, <1>4, <1>6 DEF CallInv, EngagerInv, Order
  <1>9. u \in Callers => \A v \in Callers : v # u => pc[v] = "idle" /\ uid[v] = 0 /\ op[v] = "PAUSE"
    BY <1>1, <1>2, OtherCallers
  <1>10. FlagTypes'
    BY <1>1, <1>3 DEF FlagTypes
  <1>11. DataTypes'
    BY <1>1, <1>3, <1>5 DEF DataTypes
  <1>12. UserTypes' /\ CallInv' /\ AckInv'
    BY <1>1, <1>3
       DEF UserTypes, CallInv, CallerInv, EngagerInv, Closing, AckInv,
           AcksDrained
  <1>13. GoneInv' /\ MoveInv'
    BY <1>1, <1>3 DEF GoneInv, ClosedMeansGone, ReaderLives, MoveInv
  <1>14. OrderInv'
    <2>1. Order(k) => \A m \in L : Order(m) => m[1] <= k[1]
      BY <1>1, <1>4, <1>7, <1>8 DEF OrderInv
    <2>2. Sorted(lifecycle')
      BY <1>4, <1>5, <2>1, SortedAppend
    <2>3. \A m \in K : m[1] # 0 /\ (Order(m) => m[1] <= nextId)
      BY <1>1, <1>4, <1>5, <1>7, <1>8 DEF OrderInv
    <2>4. ASSUME NEW v \in Callers, uid[v] # 0, NEW m \in K, Order(m)
          PROVE  m[1] <= uid[v] /\ (m[1] = uid[v] => m[2] = op[v])
      <3>1. CASE m \in L
        BY <1>1, <2>4, <3>1 DEF OrderInv
      <3>2. CASE m = k
        BY <1>4, <1>7, <1>8, <1>9, <2>4, <3>2
      <3> QED BY <1>5, <2>4, <3>1, <3>2
    <2> QED BY <1>1, <1>3, <2>2, <2>3, <2>4 DEF OrderInv
  <1>15. ReadyInv'
    <2>1. \A m \in K : Order(m) => arrived <= m[1] /\ node.req <= m[1]
      BY <1>1, <1>4, <1>5, <1>7, <1>8 DEF ReadyInv, ReadyFor
    <2> QED BY <1>1, <1>3, <2>1 DEF ReadyInv, ReadyFor, Underway
  <1>16. OwnInv'
    <2> SUFFICES ASSUME ~straddled PROVE OwnInv'
      BY <1>3 DEF OwnInv
    <2>1. \A m \in K : m[1] <= nextId
      BY <1>1, <1>4, <1>5 DEF OwnInv
    <2>2. \A v \in Users : uid[v] # 0 => \A m \in K : m[1] = uid[v] => m[2] = op[v]
      BY <1>1, <1>4, <1>5, <1>7 DEF OwnInv
    <2> QED BY <1>1, <1>3, <2>1, <2>2 DEF OwnInv
  <1>17. ModeInv'
    <2> SUFFICES ASSUME ~straddled PROVE ModeInv'
      BY <1>3 DEF ModeInv
    <2>1. agreed = "yes" => k[2] \notin Disturbing
      BY <1>1, <1>2, <1>4 DEF ModeInv
    <2>2. ASSUME NEW v \in Users, pc[v] = "send" PROVE v = u
      BY <1>1, <1>7, <2>2 DEF CallInv
    <2>3. \A m \in K : m \in L \/ m = k
      BY <1>5
    <2>4. \A v \in Users : pc[v] = "send" /\ op[v] \in Disturbing => agreed # "yes"
      BY <1>1 DEF ModeInv
    <2>5. ASSUME agreed = "yes", process = "up"
          PROVE  /\ node.mode = IF mode = "none" THEN DefaultMode ELSE mode
                 /\ \A m \in K : m[2] \in Disturbing =>
                      m[2] \in ModeCommands /\ ModeOf(m[2]) = node.mode
      BY <1>1, <2>1, <2>3, <2>5 DEF ModeInv
    <2>6. ASSUME op[u] \in ModeCommands
          PROVE  Tailing(lifecycle', k)
      <3>1. Tailing(lifecycle, k)
        BY <1>1, <1>2, <2>6 DEF ModeInv, k
      <3> QED BY <1>4, <1>5, <3>1, TailingAppend
    <2>7. ASSUME op[u] \in ModeCommands, agreed = "pending", process = "up", Answered(u)
          PROVE  node.mode = ModeOf(op[u]) /\ \A m \in K : m = k
      <3>1. node.mode = ModeOf(op[u]) /\ \A m \in L : m = k
        BY <1>1, <1>2, <2>7 DEF ModeInv, k
      <3> QED BY <2>3, <3>1
    <2> QED BY <1>3, <2>2, <2>4, <2>5, <2>6, <2>7 DEF ModeInv, Answered, DefaultMode, k
  <1> QED BY <1>10, <1>11, <1>12, <1>13, <1>14, <1>15, <1>16, <1>17 DEF ClientInv

\* The end of _send_lifecycle() leaves no answer behind.
LEMMA UnlockEffect ==
    ASSUME UserTypes, CallInv, AckInv, NEW u \in Users, pc[u] = "send", Unlock(u)
    PROVE  /\ lifeLock = u /\ lifeLock' = NoOne /\ pendingAck' = 0 /\ acks' = {}
           /\ \A v \in Users : v # u => pc[v] # "send"
  BY UsersAssumption DEF CallInv, AckInv, AcksDrained, Unlock, Answers

\* The return of a call frees the handle and forgets the id.
LEMMA ReturnCalls ==
    ASSUME UserTypes, CallInv, NEW u \in Users, Return(u), pc[u] # "idle",
           u \in Callers => next[u] # "spawn",
           UNCHANGED <<next, connects>>,
           lifeLock' \in Users \cup {NoOne}, lifeLock' # u,
           \A v \in Users : v # u => (lifeLock' = v <=> lifeLock = v)
    PROVE  UserTypes' /\ CallInv'
  <1>1. /\ pc' \in [Users -> PCs] /\ op' \in [Users -> Commands] /\ uid' \in [Users -> Ids]
        /\ armLock' \in Users \cup {NoOne}
        /\ pc'[u] = "idle" /\ uid'[u] = 0 /\ op'[u] = "PAUSE"
        /\ \A v \in Users : v # u => pc'[v] = pc[v] /\ uid'[v] = uid[v] /\ op'[v] = op[v]
        /\ armLock' = IF armLock = u THEN NoOne ELSE armLock
    BY ReturnEffect
  <1>2. Callers \subseteq Users /\ Engagers \subseteq Users
    BY DEF Users
  <1>3. UserTypes'
    BY <1>1 DEF UserTypes
  <1>4. \A v \in Users : pc'[v] = "send" <=> lifeLock' = v
    BY <1>1 DEF CallInv
  <1>5. ASSUME NEW v \in Callers PROVE CallerInv(v)'
    <2>1. CASE v = u
      BY <1>1, <2>1 DEF CallerInv
    <2>2. CASE v # u
      <3>1. pc'[v] # "idle" => armLock' = v
        BY <1>1, <1>2, <2>2 DEF CallInv, CallerInv
      <3> QED BY <1>1, <1>2, <2>2, <3>1 DEF CallInv, CallerInv, Closing
    <2> QED BY <2>1, <2>2
  <1>6. ASSUME NEW v \in Engagers PROVE EngagerInv(v)'
    <2>1. CASE v = u
      BY <1>1, <2>1 DEF EngagerInv, LockFree
    <2>2. CASE v # u
      BY <1>1, <1>2, <2>2 DEF CallInv, EngagerInv
    <2> QED BY <2>1, <2>2
  <1> QED BY <1>3, <1>4, <1>5, <1>6 DEF CallInv

\* A returned call orders nothing any more.
LEMMA ReturnIds ==
    ASSUME UserTypes, OrderInv, ReadyInv, NEW u \in Users, Return(u),
           UNCHANGED <<lifecycle, nextId, node, arrived, process>>, nextId \in Nat,
           In(status') \subseteq In(status)
    PROVE  OrderInv' /\ ReadyInv'
  <1>1. \A v \in Callers : \/ uid'[v] = 0
                           \/ uid'[v] = uid[v] /\ op'[v] = op[v]
    BY ReturnEffect DEF Users
  <1>2. OrderInv'
    <2>1. \A v \in Callers : uid'[v] <= nextId
      BY <1>1 DEF OrderInv
    <2> QED BY <1>1, <2>1 DEF OrderInv
  <1>3. ReadyInv'
    BY <1>1 DEF ReadyInv, ReadyFor, Underway
  <1> QED BY <1>2, <1>3

\* Its id stands for no other call.
LEMMA ReturnOwn ==
    ASSUME UserTypes, AckInv, OwnInv, NEW u \in Users, Return(u), nextId \in Nat,
           UNCHANGED <<lifecycle, nextId, straddled>>, In(status') \subseteq In(status),
           acks' = {} \/ (acks' = acks /\ lifeLock' = lifeLock /\ lifeLock # u)
    PROVE  OwnInv'
  <1> SUFFICES ASSUME ~straddled PROVE OwnInv'
    BY DEF OwnInv
  <1>1. /\ uid'[u] = 0
        /\ \A v \in Users : v # u => uid'[v] = uid[v] /\ op'[v] = op[v]
    BY ReturnEffect
  <1>2. \A v \in Users : uid'[v] <= nextId
    BY <1>1 DEF OwnInv
  <1>3. \A v, w \in Users : uid'[v] # 0 /\ uid'[v] = uid'[w] => v = w
    BY <1>1 DEF OwnInv
  <1>4. ASSUME NEW v \in Users, uid'[v] # 0
        PROVE  /\ \A m \in In(lifecycle) : m[1] = uid'[v] => m[2] = op'[v]
               /\ \A m \in In(status) : m[1] = "ACK" /\ m[2] = uid'[v] => m[3] = op'[v]
    BY <1>1, <1>4 DEF OwnInv
  <1>5. \A a \in acks' : a[2] = op'[lifeLock']
    BY <1>1 DEF OwnInv, AckInv, AcksDrained, UserTypes
  <1> QED BY <1>2, <1>3, <1>4, <1>5 DEF OwnInv

\* A move that returns is not pending any more, and another call that returns
\* leaves a pending move alone.
LEMMA ReturnMove ==
    ASSUME FlagTypes, UserTypes, CallInv, MoveInv, NEW u \in Users, Return(u), pc[u] # "idle",
           UNCHANGED <<arrived, ready>>, pendingReady \in Ids,
           IF op[u] = "MOVE" THEN ForgetMove(u) ELSE UNCHANGED <<pendingReady, readySeen>>
    PROVE  MoveInv' /\ pendingReady' \in Ids /\ readySeen' \in BOOLEAN
  <1>1. /\ uid'[u] = 0 /\ op'[u] = "PAUSE"
        /\ \A v \in Users : v # u => uid'[v] = uid[v] /\ op'[v] = op[v]
    BY ReturnEffect
  <1>2. Callers \subseteq Users /\ (u \in Callers \/ u \in Engagers)
    BY DEF Users
  <1>3. CASE op[u] = "MOVE"
    <2>1. u \in Callers
      BY <1>2, <1>3 DEF CallInv, EngagerInv, LockFree
    <2>2. \A v \in Callers : v # u => op[v] = "PAUSE"
      BY <2>1, OtherCallers
    <2>3. pendingReady = uid[u] \/ pendingReady = 0
      BY <1>3, <2>1 DEF MoveInv
    <2>4. pendingReady' = 0
      BY <1>3, <2>3 DEF ForgetMove
    <2>5. readySeen' = FALSE
      BY <1>3, <2>3 DEF ForgetMove, MoveInv, FlagTypes
    <2>6. \A v \in Callers : op'[v] # "MOVE"
      BY <1>1, <1>2, <2>2
    <2> QED BY <2>4, <2>5, <2>6 DEF MoveInv, Ids
  <1>4. CASE op[u] # "MOVE"
    <2>1. \A v \in Callers : op'[v] = "MOVE" <=> op[v] = "MOVE"
      BY <1>1, <1>2, <1>4
    <2>2. \A v \in Callers : op[v] = "MOVE" => uid'[v] = uid[v]
      BY <1>1, <1>2, <1>4
    <2> QED BY <1>4, <2>1, <2>2 DEF MoveInv, FlagTypes
  <1> QED BY <1>3, <1>4

\* A call that returns without having replaced the cached mode.
LEMMA ReturnMode ==
    ASSUME UserTypes, ModeInv, NEW u \in Users, Return(u), role' = role,
           UNCHANGED <<process, straddled, node, mode, lifecycle>>,
           In(status') \subseteq In(status),
           agreed' = agreed \/ agreed' = "no", acks' \subseteq acks
    PROVE  ModeInv'
  <1>1. \A v \in Users : pc'[v] = "send" => pc[v] = "send" /\ uid'[v] = uid[v] /\ op'[v] = op[v]
    BY ReturnEffect
  <1> QED BY <1>1 DEF ModeInv, Answered, DefaultMode

\* What is closing or over stays so when another call returns.
LEMMA ReturnGone ==
    ASSUME UserTypes, GoneInv, NEW u \in Users, Return(u),
           UNCHANGED <<process, running, retired, reader>>
    PROVE  GoneInv'
  <1>1. \A v \in Callers : pc'[v] = "idle" \/ pc'[v] = pc[v]
    BY ReturnEffect DEF Users
  <1> QED BY <1>1 DEF GoneInv, ClosedMeansGone, ReaderLives

\* A move that was acknowledged waits for its READY, and a close that was
\* acknowledged or refused waits for the process: both keep id and handle.
LEMMA GoesOnKeeps ==
    ASSUME ClientInv, role' = role, NEW u \in Users, pc[u] = "send", Unlock(u), NEW l, Goto(u, l),
           (op[u] = "MOVE" /\ l = "readyWait") \/ (Closing(u) /\ l = "waitExit"),
           node' = node \/ node' = [node EXCEPT !.run = FALSE],
           UNCHANGED <<process, lifecycle, status, backendVars, nextId, pendingReady, readySeen,
                       armLock, op, uid, next, historyVars>>
    PROVE  ClientInv'
  <1>1. /\ FlagTypes /\ DataTypes /\ UserTypes /\ CallInv /\ GoneInv /\ AckInv /\ OrderInv
        /\ ReadyInv /\ MoveInv /\ OwnInv /\ ModeInv
    BY DEF ClientInv
  <1>2. UNCHANGED <<process, lifecycle, status, running, sockets, retired, reader, caps,
                    ready, mode, nextId, pendingReady, readySeen, armLock,
                    op, uid, next, connects, requests, arrived, agreed,
                    straddled>>
    BY DEF backendVars, historyVars
  <1>3. /\ lifeLock = u /\ lifeLock' = NoOne /\ pendingAck' = 0 /\ acks' = {}
        /\ \A v \in Users : v # u => pc[v] # "send"
    BY <1>1, UnlockEffect
  <1>4. node \in NodeStates
    BY <1>1 DEF DataTypes
  <1>5. /\ node' \in NodeStates /\ node'.ready = node.ready /\ node'.req = node.req
        /\ node'.done = node.done /\ node'.left = node.left /\ node'.mode = node.mode
    BY <1>4 DEF NodeStates
  <1>6. Callers \subseteq Users /\ Engagers \subseteq Users /\ u \in Callers /\ u \notin Engagers
    BY <1>1, UsersAssumption DEF Users, CallInv, EngagerInv, Closing, Closes, LockFree
  <1>7. l \in {"readyWait", "waitExit"}
    OBVIOUS
  <1>8. /\ pc' \in [Users -> PCs] /\ pc'[u] = l
        /\ \A v \in Users : v # u => pc'[v] = pc[v]
    BY <1>1, <1>7 DEF UserTypes, Goto, PCs
  <1>9. FlagTypes'
    BY <1>1, <1>2 DEF FlagTypes
  <1>10. DataTypes'
    BY <1>1, <1>2, <1>3, <1>5 DEF DataTypes, Ids
  <1>11. UserTypes'
    BY <1>1, <1>2, <1>3, <1>8 DEF UserTypes
  <1>12. CallInv'
    <2>1. \A v \in Users : pc'[v] = "send" <=> lifeLock' = v
      BY <1>3, <1>7, <1>8, UsersAssumption
    <2>2. ASSUME NEW v \in Callers PROVE CallerInv(v)'
      <3>1. CASE v = u
        BY <1>1, <1>2, <1>6, <1>8, <3>1 DEF CallInv, CallerInv, Closing
      <3>2. CASE v # u
        BY <1>1, <1>2, <1>6, <1>8, <3>2 DEF CallInv, CallerInv, Closing
      <3> QED BY <3>1, <3>2
    <2>3. ASSUME NEW v \in Engagers PROVE EngagerInv(v)'
      BY <1>1, <1>2, <1>6, <1>8 DEF CallInv, EngagerInv
    <2> QED BY <2>1, <2>2, <2>3 DEF CallInv
  <1>13. GoneInv'
    BY <1>1, <1>2, <1>6, <1>7, <1>8 DEF GoneInv, ClosedMeansGone, ReaderLives
  <1>14. AckInv' /\ OrderInv' /\ MoveInv'
    BY <1>1, <1>2, <1>3 DEF AckInv, AcksDrained, OrderInv, MoveInv
  <1>15. ReadyInv'
    BY <1>1, <1>2, <1>5 DEF ReadyInv, ReadyFor, Underway
  <1>16. OwnInv'
    BY <1>1, <1>2, <1>3 DEF OwnInv
  <1>17. ModeInv'
    <2>1. \A v \in Users : pc'[v] # "send"
      BY <1>3, <1>7, <1>8
    <2> QED BY <1>1, <1>2, <1>5, <2>1 DEF ModeInv, DefaultMode
  <1> QED BY <1>9, <1>10, <1>11, <1>12, <1>13, <1>14, <1>15, <1>16, <1>17 DEF ClientInv

\* No answer, or a negative one: the call is over, or the close goes on.
LEMMA SendFailsKeeps ==
    ASSUME ClientInv, role' = role, NEW u \in Users, SendFails(u)
    PROVE  ClientInv'
  <1>1. /\ FlagTypes /\ DataTypes /\ UserTypes /\ CallInv /\ GoneInv /\ AckInv /\ OrderInv
        /\ ReadyInv /\ MoveInv /\ OwnInv /\ ModeInv
    BY DEF ClientInv
  <1>2. /\ pc[u] = "send" /\ Unlock(u)
        /\ agreed' = (IF op[u] \in ModeCommands THEN "no" ELSE agreed)
        /\ UNCHANGED <<process, lifecycle, status, backendVars,
                       nextId, next, connects, requests, arrived, straddled>>
    BY DEF SendFails
  <1>3. CASE Closing(u)
    <2>1. /\ node' = [node EXCEPT !.run = FALSE] /\ Goto(u, "waitExit")
          /\ UNCHANGED <<pendingReady, readySeen, armLock, op, uid>>
      BY <1>3 DEF SendFails
    <2>2. agreed' = agreed
      BY <1>2, <1>3 DEF Closing, Closes, ModeCommands
    <2>3. UNCHANGED historyVars
      BY <1>2, <2>2 DEF historyVars
    <2> QED BY <1>2, <1>3, <2>1, <2>3, GoesOnKeeps
  <1>4. CASE ~Closing(u)
    <2>1. /\ Return(u) /\ node' = node
          /\ IF op[u] = "MOVE" THEN ForgetMove(u) ELSE UNCHANGED <<pendingReady, readySeen>>
      BY <1>4 DEF SendFails
    <2>2. UNCHANGED <<process, lifecycle, status, running, sockets, retired, reader, caps,
                      ready, mode, nextId, next, connects, requests, arrived,
                      straddled>>
      BY <1>2 DEF backendVars
    <2>3. /\ lifeLock = u /\ lifeLock' = NoOne /\ pendingAck' = 0 /\ acks' = {}
      BY <1>1, <1>2, UnlockEffect
    <2>4. nextId \in Nat /\ pendingReady \in Ids
      BY <1>1 DEF DataTypes, Ids
    <2>5. u \in Callers => next[u] # "spawn"
      BY <1>1, <1>2 DEF CallInv, CallerInv
    <2>6. MoveInv' /\ pendingReady' \in Ids /\ readySeen' \in BOOLEAN
      BY <1>1, <1>2, <2>1, <2>2, <2>4, ReturnMove
    <2>7. FlagTypes'
      BY <1>1, <2>2, <2>6 DEF FlagTypes
    <2>8. DataTypes'
      BY <1>1, <1>2, <2>1, <2>2, <2>3, <2>6 DEF DataTypes, Ids
    <2>9. UserTypes' /\ CallInv'
      BY <1>1, <1>2, <2>1, <2>2, <2>3, <2>5, UsersAssumption, ReturnCalls
    <2>10. GoneInv'
      BY <1>1, <2>1, <2>2, ReturnGone
    <2>11. AckInv'
      BY <2>3 DEF AckInv, AcksDrained
    <2>12. OrderInv' /\ ReadyInv'
      BY <1>1, <2>1, <2>2, <2>4, ReturnIds
    <2>13. OwnInv'
      BY <1>1, <2>1, <2>2, <2>3, <2>4, ReturnOwn
    <2>14. ModeInv'
      BY <1>1, <1>2, <2>1, <2>2, <2>3, ReturnMode
    <2> QED BY <2>6, <2>7, <2>8, <2>9, <2>10, <2>11, <2>12, <2>13, <2>14 DEF ClientInv
  <1> QED BY <1>3, <1>4

\* The acknowledgement: a mode change that nothing disturbed is agreed, for
\* the node has carried it out and only copies of it are left in the queue.
LEMMA AcknowledgedKeeps ==
    ASSUME ClientInv, role' = role, NEW u \in Users, Acknowledged(u)
    PROVE  ClientInv'
  <1>1. /\ FlagTypes /\ DataTypes /\ UserTypes /\ CallInv /\ GoneInv /\ AckInv /\ OrderInv
        /\ ReadyInv /\ MoveInv /\ OwnInv /\ ModeInv
    BY DEF ClientInv
  <1>2. /\ pc[u] = "send" /\ Unlock(u) /\ Answers(u) # {}
        /\ UNCHANGED <<nodeVars, running, sockets, retired, reader, caps, ready,
                       nextId, pendingReady, readySeen, next, connects,
                       requests, arrived,
                       straddled>>
    BY DEF Acknowledged
  <1>3. UNCHANGED <<process, node, lifecycle, status>>
    BY <1>2 DEF nodeVars
  <1>4. op[u] \notin ModeCommands => agreed' = agreed
    BY DEF Acknowledged
  <1>5. op[u] \in ModeCommands =>
          agreed' = IF agreed = "pending" /\ mode # "none" THEN "yes" ELSE "no"
    BY DEF Acknowledged
  <1>7. CASE op[u] = "MOVE"
    <2>1. Goto(u, "readyWait") /\ UNCHANGED <<uid, armLock, op, mode>>
      BY <1>7 DEF Acknowledged, Closing, Closes, ModeCommands
    <2>2. agreed' = agreed
      BY <1>4, <1>7 DEF ModeCommands
    <2>3. UNCHANGED historyVars /\ UNCHANGED backendVars
      BY <1>2, <2>1, <2>2 DEF historyVars, backendVars
    <2> QED BY <1>2, <1>3, <1>7, <2>1, <2>3, GoesOnKeeps
  <1>8. CASE Closing(u)
    <2>1. Goto(u, "waitExit") /\ UNCHANGED <<uid, armLock, op, mode>>
      BY <1>8 DEF Acknowledged, Closing, Closes, ModeCommands
    <2>2. agreed' = agreed
      BY <1>4, <1>8 DEF ModeCommands, Closing, Closes
    <2>3. UNCHANGED historyVars /\ UNCHANGED backendVars
      BY <1>2, <2>1, <2>2 DEF historyVars, backendVars
    <2> QED BY <1>2, <1>3, <1>8, <2>1, <2>3, GoesOnKeeps
  <1>9. CASE op[u] # "MOVE" /\ ~Closing(u)
    <2>1. /\ Return(u)
          /\ op[u] \notin ModeCommands => mode' = mode
          /\ op[u] \in ModeCommands => mode' = IF mode = "none" THEN mode ELSE ModeOf(op[u])
      <3>1. CASE op[u] \in ModeCommands
        BY <1>9, <3>1 DEF Acknowledged, ReplaceMode
      <3>2. CASE op[u] \notin ModeCommands
        BY <1>9, <3>2 DEF Acknowledged
      <3> QED BY <3>1, <3>2
    <2>2. /\ lifeLock = u /\ lifeLock' = NoOne /\ pendingAck' = 0 /\ acks' = {}
      BY <1>1, <1>2, UnlockEffect
    <2>3. nextId \in Nat /\ pendingReady \in Ids
      BY <1>1 DEF DataTypes, Ids
    <2>4. u \in Callers => next[u] # "spawn"
      BY <1>1, <1>2 DEF CallInv, CallerInv
    <2>5. op[u] # "MOVE"
      BY <1>9
    <2>6. MoveInv'
      BY <1>1, <1>2, <2>1, <2>3, <2>5, ReturnMove
    <2>7. FlagTypes'
      BY <1>1, <1>2 DEF FlagTypes
    <2>8. mode' \in Modes \cup {"none"}
      BY <1>1, <2>1 DEF DataTypes, ModeOf, Modes
    <2>9. agreed' \in {"yes", "pending", "no"}
      BY <1>1, <1>4, <1>5 DEF DataTypes
    <2>10. DataTypes'
      BY <1>1, <1>2, <1>3, <2>2, <2>8, <2>9 DEF DataTypes, Ids
    <2>11. UserTypes' /\ CallInv'
      BY <1>1, <1>2, <2>1, <2>2, <2>4, UsersAssumption, ReturnCalls
    <2>12. GoneInv'
      BY <1>1, <1>2, <1>3, <2>1, ReturnGone
    <2>13. AckInv'
      BY <2>2 DEF AckInv, AcksDrained
    <2>14. OrderInv' /\ ReadyInv'
      BY <1>1, <1>2, <1>3, <2>1, <2>3, ReturnIds
    <2>15. OwnInv'
      BY <1>1, <1>2, <1>3, <2>1, <2>2, <2>3, ReturnOwn
    <2>16. ModeInv'
      <3>1. CASE op[u] \notin ModeCommands
        <4>1. mode' = mode /\ agreed' = agreed
          BY <1>4, <2>1, <3>1
        <4> QED BY <1>1, <1>2, <1>3, <2>1, <2>2, <4>1, ReturnMode
      <3>2. CASE op[u] \in ModeCommands
        <4>1. \A v \in Users : pc'[v] # "send"
          <5>1. pc'[u] = "idle" /\ \A v \in Users : v # u => pc'[v] = pc[v]
            BY <1>1, <2>1, ReturnEffect
          <5> QED BY <1>1, <1>2, <5>1, UnlockEffect
        <4>2. ASSUME agreed' = "yes", process = "up", ~straddled
              PROVE  /\ mode' = node.mode /\ mode' # "none"
                     /\ \A m \in In(lifecycle) : m[2] \in Disturbing =>
                          m[2] \in ModeCommands /\ ModeOf(m[2]) = node.mode
          <5>1. agreed = "pending" /\ mode # "none"
            BY <1>5, <3>2, <4>2
          <5>2. Answered(u)
            BY <1>2 DEF Answered, Answers
          <5>3. /\ node.mode = ModeOf(op[u])
                /\ \A m \in In(lifecycle) : m = <<uid[u], op[u]>>
            BY <1>1, <1>2, <3>2, <4>2, <5>1, <5>2 DEF ModeInv
          <5>4. mode' = ModeOf(op[u])
            BY <2>1, <3>2, <5>1
          <5>5. ModeOf(op[u]) # "none"
            BY DEF ModeOf
          <5> QED BY <3>2, <5>3, <5>4, <5>5
        <4> QED BY <1>2, <1>3, <4>1, <4>2 DEF ModeInv
      <3> QED BY <3>1, <3>2
    <2> QED BY <2>6, <2>7, <2>10, <2>11, <2>12, <2>13, <2>14, <2>15, <2>16 DEF ClientInv
  <1> QED BY <1>7, <1>8, <1>9

\* The end of move_to_ready().
LEMMA MoveReturnsKeeps ==
    ASSUME ClientInv, role' = role, NEW u \in Users, MoveReturns(u)
    PROVE  ClientInv'
  <1>1. /\ FlagTypes /\ DataTypes /\ UserTypes /\ CallInv /\ GoneInv /\ AckInv /\ OrderInv
        /\ ReadyInv /\ MoveInv /\ OwnInv /\ ModeInv
    BY DEF ClientInv
  <1>2. /\ pc[u] = "readyWait" /\ ForgetMove(u) /\ Return(u)
        /\ UNCHANGED <<nodeVars, backendVars, nextId, pendingAck, acks, lifeLock,
                       next, historyVars>>
    BY DEF MoveReturns
  <1>3. UNCHANGED <<process, node, lifecycle, status, running, sockets, retired, reader, caps,
                    ready, mode, nextId, pendingAck, acks, lifeLock, next,
                    connects, requests,
                    arrived, agreed, straddled>>
    BY <1>2 DEF nodeVars, backendVars, historyVars
  <1>4. /\ u \in Callers /\ op[u] = "MOVE" /\ next[u] # "spawn" /\ lifeLock # u
    BY <1>1, <1>2 DEF CallInv, CallerInv, EngagerInv, Users
  <1>5. nextId \in Nat /\ pendingReady \in Ids
    BY <1>1 DEF DataTypes, Ids
  <1>6. MoveInv' /\ pendingReady' \in Ids /\ readySeen' \in BOOLEAN
    BY <1>1, <1>2, <1>3, <1>4, <1>5, ReturnMove
  <1>7. FlagTypes'
    BY <1>1, <1>3, <1>6 DEF FlagTypes
  <1>8. DataTypes'
    BY <1>1, <1>3, <1>6 DEF DataTypes
  <1>9. UserTypes' /\ CallInv'
    <2>1. lifeLock' \in Users \cup {NoOne}
      BY <1>1, <1>3 DEF UserTypes
    <2> QED BY <1>1, <1>2, <1>3, <1>4, <2>1, ReturnCalls
  <1>10. GoneInv'
    BY <1>1, <1>2, <1>3, ReturnGone
  <1>11. AckInv'
    <2>1. \A v \in Users : v # u => uid'[v] = uid[v]
      BY <1>1, <1>2, ReturnEffect
    <2> QED BY <1>1, <1>3, <1>4, <2>1 DEF AckInv, AcksDrained, UserTypes
  <1>12. OrderInv' /\ ReadyInv'
    BY <1>1, <1>2, <1>3, <1>5, ReturnIds
  <1>13. OwnInv'
    BY <1>1, <1>2, <1>3, <1>4, <1>5, ReturnOwn
  <1>14. ModeInv'
    BY <1>1, <1>2, <1>3, ReturnMode
  <1> QED BY <1>6, <1>7, <1>8, <1>9, <1>10, <1>11, <1>12, <1>13, <1>14 DEF ClientInv

-----------------------------------------------------------------------------
(***************************************************************************)
(* connect() and close().                                                  *)
(***************************************************************************)

\* What there is to close.
LEMMA WhatToClose ==
    ASSUME DataTypes, FlagTypes
    PROVE  /\ CloseFrom \in {"lock", "join", "retired"}
           /\ CloseFrom = "lock" <=> process = "up"
           /\ CloseFrom = "join" => process # "up"
           /\ (process # "none" /\ ~retired) => CloseFrom # "retired"
  BY DEF CloseFrom, DataTypes, FlagTypes

\* The handle is taken, or kept, to close what there is: nobody else is in a
\* call of it, and the thread has no id yet.
LEMMA BeginsCloseKeeps ==
    ASSUME ClientInv, role' = role, NEW u \in Callers, uid[u] = 0, lifeLock # u,
           op[u] \in {"PAUSE", "SHUTDOWN"}, armLock = NoOne \/ pc[u] # "idle", armLock' = u,
           NEW c \in Closes, op' = [op EXCEPT ![u] = c],
           NEW l \in {"lock", "join", "spawn"}, Goto(u, l),
           NEW n \in {"idle", "spawn"}, next' = [next EXCEPT ![u] = n],
           n = "spawn" => l # "lock" /\ c = "SHUTDOWN" /\ connects < MaxConnects,
           l = "spawn" => n = "spawn",
           l = "join" => process # "up" /\ ~running',
           running' \in BOOLEAN, running' => running,
           UNCHANGED <<nodeVars, sockets, retired, reader, caps, ready, mode,
                       requestVars, lifeLock, uid, historyVars>>
    PROVE  ClientInv'
  <1>1. /\ FlagTypes /\ DataTypes /\ UserTypes /\ CallInv /\ GoneInv /\ AckInv /\ OrderInv
        /\ ReadyInv /\ MoveInv /\ OwnInv /\ ModeInv
    BY DEF ClientInv
  <1>2. UNCHANGED <<process, node, lifecycle, status, nextId, pendingAck, acks, pendingReady,
                    readySeen, connects, requests, arrived, agreed, straddled>>
    BY DEF nodeVars, requestVars, historyVars
  <1>3. Callers \subseteq Users /\ Engagers \subseteq Users /\ u \in Users /\ u \notin Engagers
    BY UsersAssumption DEF Users
  <1>4. \A v \in Callers : v # u => pc[v] = "idle" /\ uid[v] = 0 /\ op[v] = "PAUSE"
    BY <1>1, OtherCallers
  <1>5. /\ pc' \in [Users -> PCs] /\ op' \in [Users -> Commands]
        /\ next' \in [Users -> {"idle", "spawn"}]
        /\ pc'[u] = l /\ op'[u] = c /\ next'[u] = n
        /\ \A v \in Users : v # u => pc'[v] = pc[v] /\ op'[v] = op[v] /\ next'[v] = next[v]
    BY <1>1, <1>3 DEF UserTypes, Goto, PCs, Commands
  <1>6. FlagTypes'
    BY <1>1, <1>2 DEF FlagTypes
  <1>7. DataTypes'
    BY <1>1, <1>2 DEF DataTypes
  <1>8. UserTypes'
    BY <1>1, <1>3, <1>5 DEF UserTypes
  <1>9. CallInv'
    <2>1. pc[u] # "send"
      BY <1>1, <1>3 DEF CallInv
    <2>2. \A v \in Users : pc'[v] = "send" <=> lifeLock' = v
      BY <1>1, <1>5, <2>1 DEF CallInv
    <2>3. ASSUME NEW v \in Callers PROVE CallerInv(v)'
      <3>1. CASE v = u
        BY <1>2, <1>5, <3>1 DEF CallerInv, Closing, Closes, LockFree
      <3>2. CASE v # u
        BY <1>1, <1>2, <1>3, <1>4, <1>5, <3>2 DEF CallInv, CallerInv, Closing
      <3> QED BY <3>1, <3>2
    <2>4. ASSUME NEW v \in Engagers PROVE EngagerInv(v)'
      BY <1>1, <1>3, <1>5 DEF CallInv, EngagerInv
    <2> QED BY <2>2, <2>3, <2>4 DEF CallInv
  <1>10. GoneInv'
    <2>1. \A v \in Callers : pc'[v] # "connecting"
      BY <1>3, <1>4, <1>5
    <2>2. \A v \in Callers : pc'[v] = "join" => process # "up" /\ ~running'
      BY <1>3, <1>4, <1>5
    <2> QED BY <1>1, <1>2, <2>1, <2>2 DEF GoneInv, ClosedMeansGone, ReaderLives
  <1>11. AckInv'
    BY <1>1, <1>2 DEF AckInv, AcksDrained
  <1>12. \A v \in Users : uid[v] # 0 => op'[v] = op[v]
    BY <1>5
  <1>13. OrderInv'
    BY <1>1, <1>2, <1>3, <1>12 DEF OrderInv
  <1>14. ReadyInv'
    BY <1>1, <1>2 DEF ReadyInv, ReadyFor, Underway
  <1>15. MoveInv'
    <2>1. \A v \in Callers : op'[v] # "MOVE" /\ op[v] # "MOVE"
      BY <1>3, <1>4, <1>5 DEF Closes
    <2> QED BY <1>1, <1>2, <2>1 DEF MoveInv
  <1>16. OwnInv'
    <2>1. acks # {} => op'[lifeLock] = op[lifeLock]
      BY <1>1, <1>5 DEF AckInv, AcksDrained, UserTypes
    <2> QED BY <1>1, <1>2, <1>12, <2>1 DEF OwnInv
  <1>17. ModeInv'
    <2>1. \A v \in Users : pc'[v] = "send" => pc[v] = "send" /\ op'[v] = op[v]
      BY <1>5
    <2> QED BY <1>1, <1>2, <2>1 DEF ModeInv, Answered, DefaultMode
  <1> QED BY <1>6, <1>7, <1>8, <1>9, <1>10, <1>11, <1>13, <1>14, <1>15, <1>16, <1>17 DEF ClientInv

\* connect(), and what it retires first.
LEMMA ConnectKeeps ==
    ASSUME ClientInv, role' = role, NEW u \in Callers, Connect(u)
    PROVE  ClientInv'
  <1>1. FlagTypes /\ DataTypes /\ UserTypes /\ CallInv
    BY DEF ClientInv
  <1> DEFINE l == IF CloseFrom = "retired" THEN "spawn" ELSE CloseFrom
             n == IF process = "up" THEN "idle" ELSE "spawn"
  <1>2. /\ pc[u] = "idle" /\ armLock = NoOne /\ connects < MaxConnects /\ armLock' = u
        /\ op' = [op EXCEPT ![u] = "SHUTDOWN"] /\ next' = [next EXCEPT ![u] = n]
        /\ Goto(u, l) /\ running' = (running /\ CloseFrom # "join")
        /\ UNCHANGED <<nodeVars, sockets, retired, reader, caps, ready, mode,
                       requestVars, lifeLock, uid, historyVars>>
    BY DEF Connect
  <1>3. uid[u] = 0 /\ op[u] = "PAUSE" /\ lifeLock # u
    BY <1>1, <1>2, IdleHasNone DEF Users
  <1>4. /\ CloseFrom \in {"lock", "join", "retired"}
        /\ CloseFrom = "lock" <=> process = "up"
        /\ CloseFrom = "join" => process # "up"
    BY <1>1, WhatToClose
  <1>5. /\ l \in {"lock", "join", "spawn"} /\ n \in {"idle", "spawn"}
        /\ n = "spawn" => l # "lock"
        /\ l = "spawn" => n = "spawn"
    BY <1>4
  <1>6. l = "join" => process # "up" /\ ~running'
    BY <1>2, <1>4
  <1>7. running' \in BOOLEAN /\ (running' => running)
    BY <1>2, Zenon
  <1>8. "SHUTDOWN" \in Closes
    BY DEF Closes
  <1> HIDE DEF l, n
  <1> QED BY <1>2, <1>3, <1>5, <1>6, <1>7, <1>8, BeginsCloseKeeps

\* close() by a caller.
LEMMA CloseKeeps ==
    ASSUME ClientInv, role' = role, NEW u \in Callers, NEW c \in Commands, Close(u, c)
    PROVE  ClientInv'
  <1>1. FlagTypes /\ DataTypes /\ UserTypes /\ CallInv
    BY DEF ClientInv
  <1>2. /\ pc[u] = "idle" /\ armLock = NoOne /\ c \in Closes
        /\ CloseFrom # "retired" /\ armLock' = u
        /\ op' = [op EXCEPT ![u] = c] /\ next' = next
        /\ Goto(u, CloseFrom) /\ running' = (running /\ CloseFrom # "join")
        /\ UNCHANGED <<nodeVars, sockets, retired, reader, caps, ready, mode,
                       requestVars, lifeLock, uid, historyVars>>
    BY DEF Close
  <1>3. uid[u] = 0 /\ op[u] = "PAUSE" /\ lifeLock # u
    BY <1>1, <1>2, IdleHasNone DEF Users
  <1>4. CloseFrom \in {"lock", "join"} /\ (CloseFrom = "join" => process # "up")
    BY <1>1, <1>2, WhatToClose
  <1>5. next[u] \in {"idle", "spawn"} /\ next[u] # "spawn" /\ next' = [next EXCEPT ![u] = next[u]]
    BY <1>1, <1>2 DEF UserTypes, CallInv, CallerInv, Users
  <1>6. CloseFrom = "join" => ~running'
    BY <1>2
  <1>7. running' \in BOOLEAN /\ (running' => running)
    BY <1>2, Zenon
  <1> QED BY <1>2, <1>3, <1>4, <1>5, <1>6, <1>7, BeginsCloseKeeps

\* A connect() that fails closes what it has started.
LEMMA ConnectFailsKeeps ==
    ASSUME ClientInv, role' = role, NEW u \in Users, ConnectFails(u)
    PROVE  ClientInv'
  <1>1. FlagTypes /\ DataTypes /\ UserTypes /\ CallInv /\ GoneInv
    BY DEF ClientInv
  <1>2. /\ pc[u] = "connecting"
        /\ Goto(u, CloseFrom) /\ running' = (running /\ CloseFrom # "join")
        /\ UNCHANGED <<nodeVars, sockets, retired, reader, caps, ready, mode,
                       requestVars, armLock, lifeLock, op, uid, next,
                       historyVars>>
    BY DEF ConnectFails
  <1>3. u \in Callers
    BY <1>1, <1>2 DEF CallInv, EngagerInv, Users
  <1>4. /\ uid[u] = 0 /\ op[u] = "SHUTDOWN" /\ lifeLock # u /\ armLock = u /\ next[u] # "spawn"
        /\ process # "none" /\ ~retired
    BY <1>1, <1>2, <1>3 DEF CallInv, CallerInv, GoneInv, Users
  <1>5. CloseFrom \in {"lock", "join"} /\ (CloseFrom = "join" => process # "up")
    BY <1>1, <1>4, WhatToClose
  <1>6. /\ next[u] \in {"idle", "spawn"} /\ next' = [next EXCEPT ![u] = next[u]]
        /\ op' = [op EXCEPT ![u] = "SHUTDOWN"] /\ armLock' = u
    BY <1>1, <1>2, <1>4 DEF UserTypes
  <1>7. CloseFrom = "join" => ~running'
    BY <1>2
  <1>8. running' \in BOOLEAN /\ (running' => running)
    BY <1>2, Zenon
  <1>9. "SHUTDOWN" \in Closes
    BY DEF Closes
  <1> QED BY <1>2, <1>3, <1>4, <1>5, <1>6, <1>7, <1>8, <1>9, BeginsCloseKeeps

\* A new connection: no caller has an id, and another thread only if it was
\* waiting for its acknowledgement, in which case the connection is straddled.
LEMMA SpawnKeeps ==
    ASSUME ClientInv, role' = role, NEW u \in Users, Spawn(u)
    PROVE  ClientInv'
  <1>1. /\ FlagTypes /\ DataTypes /\ UserTypes /\ CallInv /\ GoneInv /\ AckInv /\ OrderInv
        /\ ReadyInv /\ MoveInv /\ OwnInv /\ ModeInv
    BY DEF ClientInv
  <1>2. /\ pc[u] = "spawn" /\ process' = "up" /\ node' = FreshNode
        /\ lifecycle' = <<>> /\ status' = <<>>
        /\ running' = TRUE /\ sockets' = "open" /\ retired' = FALSE /\ reader' = "alive"
        /\ caps' = FALSE /\ ready' = FALSE /\ mode' = "none"
        /\ nextId' = 0 /\ pendingAck' = 0 /\ acks' = {} /\ pendingReady' = 0
        /\ connects' = connects + 1 /\ arrived' = 0
        /\ agreed' = (IF role = "follower" THEN "yes" ELSE "no")
        /\ straddled' = (\E v \in Users : pc[v] = "send")
        /\ pc' = [pc EXCEPT ![u] = "connecting"] /\ next' = [next EXCEPT ![u] = "idle"]
        /\ UNCHANGED <<requests, readySeen, armLock, lifeLock, op, uid>>
    BY DEF Spawn, Goto
  <1>3. Callers \subseteq Users /\ Engagers \subseteq Users /\ u \in Callers /\ u \notin Engagers
    BY <1>1, <1>2, UsersAssumption DEF Users, CallInv, EngagerInv
  <1>4. /\ armLock = u /\ op[u] = "SHUTDOWN" /\ uid[u] = 0 /\ next[u] = "spawn"
        /\ connects < MaxConnects /\ lifeLock # u
    BY <1>1, <1>2, <1>3 DEF CallInv, CallerInv
  <1>5. \A v \in Callers : v # u => pc[v] = "idle" /\ uid[v] = 0 /\ op[v] = "PAUSE"
    BY <1>1, <1>2, <1>3, OtherCallers
  <1>6. \A v \in Callers : uid[v] = 0 /\ op[v] \in {"PAUSE", "SHUTDOWN"}
    BY <1>4, <1>5
  <1>7. /\ pc' \in [Users -> PCs] /\ next' \in [Users -> {"idle", "spawn"}]
        /\ pc'[u] = "connecting" /\ next'[u] = "idle"
        /\ \A v \in Users : v # u => pc'[v] = pc[v] /\ next'[v] = next[v]
    BY <1>1, <1>2, <1>3 DEF UserTypes, PCs
  <1>8. /\ In(<<>>) = {} /\ Len(<<>>) = 0
        /\ <<>> \in Seq(LifecycleMessages) /\ <<>> \in Seq(StatusMessages)
    BY InEmpty
  <1>9. /\ node' \in NodeStates /\ node'.req = 0 /\ node'.left = 0 /\ node'.mode = "hold"
    BY <1>2, BoundsAssumption DEF FreshNode, NodeStates, Modes, Ids
  <1>10. FlagTypes'
    <2>1. straddled' \in BOOLEAN
      BY <1>2, Zenon
    <2> QED BY <1>1, <1>2, <2>1 DEF FlagTypes
  <1>11. DataTypes'
    BY <1>1, <1>2, <1>4, <1>8, <1>9, BoundsAssumption DEF DataTypes, Ids
  <1>12. UserTypes'
    BY <1>1, <1>2, <1>7 DEF UserTypes
  <1>13. CallInv'
    <2>1. \A v \in Users : pc'[v] = "send" <=> lifeLock' = v
      BY <1>1, <1>2, <1>4, <1>7 DEF CallInv
    <2>2. ASSUME NEW v \in Callers PROVE CallerInv(v)'
      <3>1. CASE v = u
        BY <1>2, <1>4, <1>7, <3>1 DEF CallerInv
      <3>2. CASE v # u
        BY <1>1, <1>2, <1>3, <1>5, <1>7, <3>2 DEF CallInv, CallerInv
      <3> QED BY <3>1, <3>2
    <2>3. ASSUME NEW v \in Engagers PROVE EngagerInv(v)'
      BY <1>1, <1>2, <1>3, <1>7 DEF CallInv, EngagerInv
    <2> QED BY <2>1, <2>2, <2>3 DEF CallInv
  <1>14. GoneInv'
    <2>1. \A v \in Callers : pc'[v] # "join"
      BY <1>3, <1>5, <1>7
    <2> QED BY <1>2, <2>1 DEF GoneInv, ClosedMeansGone
  <1>15. AckInv'
    BY <1>2 DEF AckInv, AcksDrained
  <1>16. Sorted(lifecycle')
    BY <1>2, <1>8 DEF Sorted
  <1>17. OrderInv'
    BY <1>2, <1>6, <1>8, <1>16 DEF OrderInv
  <1>18. ReadyInv'
    BY <1>2, <1>6, <1>8, <1>9 DEF ReadyInv, ReadyFor, Underway
  <1>19. MoveInv'
    <2>1. ~readySeen
      BY <1>1, <1>6 DEF MoveInv
    <2> QED BY <1>2, <1>6, <2>1 DEF MoveInv
  <1>20. OwnInv'
    <2>1. ASSUME ~straddled', NEW v \in Users PROVE uid[v] = 0
      <3>1. pc[v] # "send"
        BY <1>2, <2>1
      <3> QED BY <1>1, <1>6, <3>1 DEF CallInv, EngagerInv, Users
    <2> QED BY <1>2, <1>8, <2>1 DEF OwnInv
  <1>21. ModeInv'
    <2>1. straddled' \/ \A v \in Users : pc'[v] # "send"
      BY <1>2, <1>7
    <2> QED BY <1>2, <1>8, <1>9, <2>1 DEF ModeInv, DefaultMode
  <1> QED
    BY <1>10, <1>11, <1>12, <1>13, <1>14, <1>15, <1>17, <1>18, <1>19, <1>20, <1>21
       DEF ClientInv

\* A call of a caller that holds no id and sends no move returns.
LEMMA ReturnKeeps ==
    ASSUME ClientInv, role' = role, NEW u \in Callers, pc[u] \in {"connecting", "join"}, Return(u),
           next[u] # "spawn", sockets' \in {"none", "open", "closed"}, retired' \in BOOLEAN,
           retired' => retired \/ (pc[u] = "join" /\ ~ReaderLives),
           status' = status \/ status' = <<>>,
           UNCHANGED <<process, node, lifecycle, running, reader, caps, ready, mode,
                       requestVars, lifeLock, next, historyVars>>
    PROVE  ClientInv'
  <1>1. /\ FlagTypes /\ DataTypes /\ UserTypes /\ CallInv /\ GoneInv /\ AckInv /\ OrderInv
        /\ ReadyInv /\ MoveInv /\ OwnInv /\ ModeInv
    BY DEF ClientInv
  <1>2. UNCHANGED <<process, node, lifecycle, running, reader, caps,
                    ready, mode, nextId, pendingAck, acks, pendingReady,
                    readySeen, lifeLock,
                    next, connects, requests, arrived, agreed, straddled>>
    BY DEF requestVars, historyVars
  <1>15. /\ In(status') \subseteq In(status)
         /\ status' \in Seq(StatusMessages) /\ Len(status') <= Capacity
    <2>1. CASE status' = status
      BY <1>1, <2>1 DEF DataTypes
    <2>2. CASE status' = <<>>
      BY <2>2, InEmpty, BoundsAssumption
    <2> QED BY <2>1, <2>2
  <1>3. u \in Users /\ Callers \subseteq Users
    BY DEF Users
  <1>4. lifeLock # u /\ op[u] # "MOVE" /\ pc[u] # "idle"
    BY <1>1, <1>3 DEF CallInv, CallerInv, Closing, Closes
  <1>5. nextId \in Nat /\ pendingReady \in Ids /\ lifeLock' \in Users \cup {NoOne}
    BY <1>1, <1>2 DEF DataTypes, Ids, UserTypes
  <1>6. MoveInv'
    BY <1>1, <1>2, <1>3, <1>4, <1>5, ReturnMove
  <1>7. FlagTypes'
    BY <1>1, <1>2 DEF FlagTypes
  <1>8. DataTypes'
    BY <1>1, <1>2, <1>15 DEF DataTypes
  <1>9. UserTypes' /\ CallInv'
    BY <1>1, <1>2, <1>3, <1>4, <1>5, ReturnCalls
  <1>10. GoneInv'
    <2>1. \A v \in Callers : v # u => pc[v] = "idle"
      BY <1>1, <1>4, OtherCallers
    <2>2. \A v \in Callers : pc'[v] = "idle"
      BY <1>1, <1>3, <2>1, ReturnEffect
    <2>3. ClosedMeansGone'
      BY <1>1, <1>2 DEF GoneInv, ClosedMeansGone, ReaderLives
    <2> QED BY <2>2, <2>3 DEF GoneInv
  <1>11. AckInv'
    <2>1. \A v \in Users : v # u => uid'[v] = uid[v]
      BY <1>1, <1>3, ReturnEffect
    <2> QED BY <1>1, <1>2, <1>4, <2>1 DEF AckInv, AcksDrained, UserTypes
  <1>12. OrderInv' /\ ReadyInv'
    BY <1>1, <1>2, <1>15, <1>3, <1>5, ReturnIds
  <1>13. OwnInv'
    BY <1>1, <1>2, <1>15, <1>3, <1>4, <1>5, ReturnOwn
  <1>14. ModeInv'
    BY <1>1, <1>2, <1>15, <1>3, ReturnMode
  <1> QED BY <1>6, <1>7, <1>8, <1>9, <1>10, <1>11, <1>12, <1>13, <1>14 DEF ClientInv

\* connect() returns when the node is known, ready and sampled.
LEMMA ConnectSucceedsKeeps ==
    ASSUME ClientInv, role' = role, NEW u \in Users, ConnectSucceeds(u)
    PROVE  ClientInv'
  <1>1. FlagTypes /\ DataTypes /\ UserTypes /\ CallInv
    BY DEF ClientInv
  <1>2. /\ pc[u] = "connecting" /\ Return(u)
        /\ UNCHANGED <<process, node, lifecycle, status, running, sockets, retired, reader,
                       caps, ready, mode, requestVars, lifeLock, next, historyVars>>
    BY DEF ConnectSucceeds, nodeVars, backendVars
  <1>3. u \in Callers
    BY <1>1, <1>2 DEF CallInv, EngagerInv, Users
  <1>4. next[u] # "spawn" /\ sockets' \in {"none", "open", "closed"} /\ retired' \in BOOLEAN
    BY <1>1, <1>2, <1>3 DEF CallInv, CallerInv, DataTypes, FlagTypes
  <1>5. /\ pc[u] \in {"connecting", "join"}
        /\ (retired' => retired \/ (pc[u] = "join" /\ ~ReaderLives))
    BY <1>2
  <1> QED BY <1>2, <1>3, <1>4, <1>5, ReturnKeeps

\* The process is gone once its exit was awaited, killed if need be.
LEMMA AwaitProcessKeeps ==
    ASSUME ClientInv, role' = role, NEW u \in Users, AwaitProcess(u)
    PROVE  ClientInv'
  <1>1. /\ FlagTypes /\ DataTypes /\ UserTypes /\ CallInv /\ GoneInv /\ AckInv /\ OrderInv
        /\ ReadyInv /\ MoveInv /\ OwnInv /\ ModeInv
    BY DEF ClientInv
  <1>2. /\ pc[u] = "waitExit" /\ process' = (IF process = "up" THEN "killed" ELSE process)
        /\ node' = FreshNode /\ lifecycle' = <<>>
        /\ running' = FALSE /\ pc' = [pc EXCEPT ![u] = "join"]
        /\ UNCHANGED <<status, sockets, retired, reader, caps,
                       ready, mode, requestVars, armLock, lifeLock, op, uid,
                       next, historyVars>>
    BY DEF AwaitProcess, Goto
  <1>3. UNCHANGED <<nextId, pendingAck, acks, pendingReady, readySeen, connects, requests,
                    arrived, agreed, straddled>>
    BY <1>2 DEF requestVars, historyVars
  <1>4. Callers \subseteq Users /\ Engagers \subseteq Users /\ u \in Callers /\ u \notin Engagers
    BY <1>1, <1>2, UsersAssumption DEF Users, CallInv, EngagerInv
  <1>5. \A v \in Callers : v # u => pc[v] = "idle"
    BY <1>1, <1>2, <1>4, OtherCallers
  <1>6. /\ pc' \in [Users -> PCs] /\ pc'[u] = "join"
        /\ \A v \in Users : v # u => pc'[v] = pc[v]
    BY <1>1, <1>2 DEF UserTypes, PCs
  <1>7. process' # "up" /\ process' \in {"none", "up", "exited", "killed"}
    BY <1>1, <1>2 DEF DataTypes
  <1>8. FlagTypes'
    BY <1>1, <1>2, <1>3 DEF FlagTypes
  <1>16. /\ node' \in NodeStates /\ node'.req = 0 /\ node'.left = 0
         /\ In(lifecycle') = {} /\ lifecycle' \in Seq(LifecycleMessages)
         /\ Len(lifecycle') = 0 /\ Sorted(lifecycle') /\ \A m : Tailing(lifecycle', m)
    <2>1. /\ node' \in NodeStates /\ node'.req = 0 /\ node'.left = 0
      BY <1>2, BoundsAssumption DEF FreshNode, NodeStates, Modes, Ids
    <2>2. In(lifecycle') = {} /\ lifecycle' \in Seq(LifecycleMessages) /\ Len(lifecycle') = 0
      BY <1>2, InEmpty
    <2> QED BY <2>1, <2>2 DEF Sorted, Tailing
  <1>9. DataTypes'
    BY <1>1, <1>2, <1>3, <1>7, <1>16, BoundsAssumption DEF DataTypes
  <1>10. UserTypes'
    BY <1>1, <1>2, <1>6 DEF UserTypes
  <1>11. CallInv'
    <2>1. \A v \in Users : pc'[v] = "send" <=> lifeLock' = v
      BY <1>1, <1>2, <1>6 DEF CallInv
    <2>2. ASSUME NEW v \in Callers PROVE CallerInv(v)'
      <3>1. CASE v = u
        BY <1>1, <1>2, <1>3, <1>4, <1>6, <3>1 DEF CallInv, CallerInv, Closing
      <3>2. CASE v # u
        BY <1>1, <1>2, <1>3, <1>4, <1>6, <3>2 DEF CallInv, CallerInv, Closing
      <3> QED BY <3>1, <3>2
    <2>3. ASSUME NEW v \in Engagers PROVE EngagerInv(v)'
      BY <1>1, <1>2, <1>4, <1>6 DEF CallInv, EngagerInv
    <2> QED BY <2>1, <2>2, <2>3 DEF CallInv
  <1>12. GoneInv'
    <2>1. \A v \in Callers : pc'[v] # "connecting"
      BY <1>4, <1>5, <1>6
    <2> QED BY <1>1, <1>2, <1>7, <2>1 DEF GoneInv, ClosedMeansGone, ReaderLives
  <1>13. AckInv' /\ OrderInv' /\ MoveInv' /\ OwnInv'
    BY <1>1, <1>2, <1>3, <1>16 DEF AckInv, AcksDrained, OrderInv, MoveInv, OwnInv
  <1>14. ReadyInv'
    <2>1. nextId \in Nat /\ \A v \in Callers : uid[v] \in Nat
      BY <1>1 DEF DataTypes, UserTypes, Users, Ids
    <2> QED BY <1>1, <1>2, <1>3, <1>7, <1>16, <2>1 DEF ReadyInv, ReadyFor
  <1>15. ModeInv'
    <2>1. \A v \in Users : pc'[v] = "send" => pc[v] = "send"
      BY <1>6
    <2> QED BY <1>1, <1>2, <1>3, <1>7, <1>16, <2>1 DEF ModeInv
  <1> QED BY <1>8, <1>9, <1>10, <1>11, <1>12, <1>13, <1>14, <1>15 DEF ClientInv

\* The backend is retired: for good, or to start the next process.
LEMMA JoinKeeps ==
    ASSUME ClientInv, role' = role, NEW u \in Users, Join(u)
    PROVE  ClientInv'
  <1>1. /\ FlagTypes /\ DataTypes /\ UserTypes /\ CallInv /\ GoneInv /\ AckInv /\ OrderInv
        /\ ReadyInv /\ MoveInv /\ OwnInv /\ ModeInv
    BY DEF ClientInv
  <1>2. /\ pc[u] = "join" /\ ~ReaderLives /\ sockets' = "closed" /\ retired' = TRUE
        /\ status' = <<>> /\ Finish(u)
        /\ UNCHANGED <<process, node, lifecycle, running, reader, caps, ready, mode,
                       requestVars, lifeLock, next, historyVars>>
    BY DEF Join
  <1>3. Callers \subseteq Users /\ Engagers \subseteq Users /\ u \in Callers /\ u \notin Engagers
    BY <1>1, <1>2, UsersAssumption DEF Users, CallInv, EngagerInv
  <1>4. CASE next[u] # "spawn"
    <2>1. Return(u)
      BY <1>2, <1>4 DEF Finish
    <2> QED BY <1>2, <1>3, <1>4, <2>1, ReturnKeeps
  <1>5. CASE next[u] = "spawn"
    <2>1. pc' = [pc EXCEPT ![u] = "spawn"] /\ UNCHANGED <<uid, armLock, op>>
      BY <1>2, <1>5 DEF Finish, Goto
    <2>2. UNCHANGED <<process, node, lifecycle, nextId, pendingAck, acks, pendingReady,
                      readySeen, connects, requests, arrived, agreed,
                      straddled>>
      BY <1>2 DEF requestVars, historyVars
    <2>12. In(status') = {} /\ status' \in Seq(StatusMessages) /\ Len(status') <= Capacity
      BY <1>2, InEmpty, BoundsAssumption
    <2>3. \A v \in Callers : v # u => pc[v] = "idle"
      BY <1>1, <1>2, <1>3, OtherCallers
    <2>4. /\ pc' \in [Users -> PCs] /\ pc'[u] = "spawn"
          /\ \A v \in Users : v # u => pc'[v] = pc[v]
      BY <1>1, <2>1 DEF UserTypes, PCs
    <2>5. FlagTypes'
      BY <1>1, <1>2, <2>2 DEF FlagTypes
    <2>6. DataTypes'
      BY <1>1, <1>2, <2>2, <2>12 DEF DataTypes
    <2>7. UserTypes'
      BY <1>1, <1>2, <2>1, <2>4 DEF UserTypes
    <2>8. CallInv'
      <3>1. \A v \in Users : pc'[v] = "send" <=> lifeLock' = v
        BY <1>1, <1>2, <2>4 DEF CallInv
      <3>2. ASSUME NEW v \in Callers PROVE CallerInv(v)'
        <4>1. CASE v = u
          BY <1>1, <1>2, <1>3, <1>5, <2>1, <2>2, <2>4, <4>1
             DEF CallInv, CallerInv, Closing
        <4>2. CASE v # u
          BY <1>1, <1>2, <1>3, <2>1, <2>2, <2>4, <4>2
             DEF CallInv, CallerInv, Closing
        <4> QED BY <4>1, <4>2
      <3>3. ASSUME NEW v \in Engagers PROVE EngagerInv(v)'
        BY <1>1, <1>3, <2>1, <2>4 DEF CallInv, EngagerInv
      <3> QED BY <3>1, <3>2, <3>3 DEF CallInv
    <2>9. GoneInv'
      <3>1. \A v \in Callers : pc'[v] # "connecting" /\ pc'[v] # "join"
        BY <1>3, <2>3, <2>4
      <3>2. process # "up" /\ ~running
        BY <1>1, <1>2, <1>3 DEF GoneInv
      <3> QED BY <1>2, <2>2, <3>1, <3>2 DEF GoneInv, ClosedMeansGone, ReaderLives
    <2>10. AckInv' /\ OrderInv' /\ MoveInv' /\ OwnInv' /\ ReadyInv'
      BY <1>1, <1>2, <2>1, <2>2, <2>12
         DEF AckInv, AcksDrained, OrderInv, MoveInv, OwnInv, ReadyInv,
         ReadyFor, Underway
    <2>11. ModeInv'
      <3>1. \A v \in Users : pc'[v] = "send" => pc[v] = "send"
        BY <2>4
      <3> QED BY <1>1, <1>2, <2>1, <2>2, <2>12, <3>1 DEF ModeInv, Answered, DefaultMode
    <2> QED BY <2>5, <2>6, <2>7, <2>8, <2>9, <2>10, <2>11 DEF ClientInv
  <1> QED BY <1>4, <1>5

-----------------------------------------------------------------------------

\* Nothing is queued, known or wanted before the first connect().
LEMMA ClientInit == Init => ClientInv
  <1> SUFFICES ASSUME Init PROVE ClientInv
    OBVIOUS
  <1>1. /\ In(<<>>) = {} /\ Len(<<>>) = 0
        /\ <<>> \in Seq(LifecycleMessages) /\ <<>> \in Seq(StatusMessages)
    BY InEmpty
  <1>2. /\ node \in NodeStates /\ node.req = 0 /\ node.left = 0 /\ node.mode = "hold"
    BY BoundsAssumption DEF Init, FreshNode, NodeStates, Modes, Ids
  <1>3. Callers \subseteq Users /\ Engagers \subseteq Users
    BY DEF Users
  <1>4. FlagTypes
    BY DEF Init, FlagTypes
  <1>5. DataTypes
    BY <1>1, <1>2, BoundsAssumption DEF Init, DataTypes, Ids
  <1>6. UserTypes
    BY DEF Init, UserTypes, PCs, Commands, LockFree, Ids
  <1>7. CallInv
    BY <1>3, UsersAssumption DEF Init, CallInv, CallerInv, EngagerInv, LockFree
  <1>8. GoneInv /\ AckInv
    BY <1>3 DEF Init, GoneInv, ClosedMeansGone, ReaderLives, AckInv, AcksDrained
  <1>9. Sorted(lifecycle)
    BY <1>1 DEF Init, Sorted
  <1>10. OrderInv /\ ReadyInv
    BY <1>1, <1>2, <1>3, <1>9 DEF Init, OrderInv, ReadyInv, ReadyFor
  <1>11. MoveInv /\ OwnInv
    BY <1>1, <1>3 DEF Init, MoveInv, OwnInv
  <1>12. ModeInv
    BY DEF Init, ModeInv
  <1> QED BY <1>4, <1>5, <1>6, <1>7, <1>8, <1>10, <1>11, <1>12 DEF ClientInv

\* Every step keeps the invariant.
LEMMA ClientNext == ClientInv /\ [Next]_vars => ClientInv'
  <1> SUFFICES ASSUME ClientInv, [Next]_vars PROVE ClientInv'
    OBVIOUS
  <1>1. CASE ReaderStep
    <2>1. role' = role
      BY <1>1 DEF ReaderStep
    <2> QED BY <1>1, <2>1, ReaderEndsKeeps, ReadStatusKeeps, ReadSampleKeeps DEF ReaderStep
  <1>2. ASSUME NEW u \in Users, CallStep(u) PROVE ClientInv'
    <2>1. role' = role
      BY <1>2 DEF CallStep
    <2> QED BY <1>2, <2>1, LockKeeps, AcknowledgedKeeps, SendFailsKeeps, MoveReturnsKeeps,
               SpawnKeeps, ConnectSucceedsKeeps, ConnectFailsKeeps, AwaitProcessKeeps,
               JoinKeeps
            DEF CallStep
  <1>3. CASE OtherStep
    <2>1. role' = role
      BY <1>3 DEF OtherStep
    <2>2. CASE NodeStep \/ NodeTrips \/ NodeExits
      BY <2>1, <2>2, NodeStepKeeps, NodeTripsKeeps, NodeExitsKeeps
    <2>3. ASSUME NEW u \in Users, Send(u) PROVE ClientInv'
      BY <2>1, <2>3, SendKeeps
    <2>4. ASSUME NEW u \in Users, NEW c \in Commands, SendCommand(u, c) PROVE ClientInv'
      BY <2>1, <2>4, SendCommandKeeps
    <2>5. ASSUME NEW u \in Callers, MoveToReady(u) \/ Connect(u) PROVE ClientInv'
      BY <2>1, <2>5, MoveToReadyKeeps, ConnectKeeps
    <2>6. ASSUME NEW u \in Callers, NEW c \in Commands, Close(u, c) PROVE ClientInv'
      BY <2>1, <2>6, CloseKeeps
    <2> QED BY <1>3, <2>2, <2>3, <2>4, <2>5, <2>6 DEF OtherStep
  <1>7. CASE UNCHANGED vars
    <2>1. UNCHANGED <<role, process, node, lifecycle, status, running, sockets, retired, reader, caps,
                      ready, mode, nextId, pendingAck, acks, pendingReady,
                      readySeen, armLock,
                      lifeLock, pc, op, uid, next, connects, requests, arrived,
                      agreed, straddled>>
      BY <1>7
         DEF vars, nodeVars, backendVars, requestVars, userVars, historyVars
    <2>2. FlagTypes' /\ DataTypes' /\ UserTypes' /\ AckInv' /\ GoneInv'
      BY <2>1
         DEF ClientInv, FlagTypes, DataTypes, UserTypes, AckInv, AcksDrained,
             GoneInv,
         ClosedMeansGone, ReaderLives
    <2>3. CallInv'
      BY <2>1 DEF ClientInv, CallInv, CallerInv, EngagerInv, Closing
    <2>4. OrderInv' /\ ReadyInv' /\ MoveInv' /\ OwnInv'
      BY <2>1
         DEF ClientInv, OrderInv, ReadyInv, ReadyFor, Underway, MoveInv, OwnInv
    <2>5. ModeInv'
      BY <2>1 DEF ClientInv, ModeInv, Answered, DefaultMode
    <2> QED BY <2>2, <2>3, <2>4, <2>5 DEF ClientInv
  <1> QED BY <1>1, <1>2, <1>3, <1>7 DEF Next

\* What the runs check follows.
LEMMA ClientSafe == ClientInv => AnswersAreOwn /\ NodeAsBelieved
  <1> SUFFICES ASSUME ClientInv PROVE AnswersAreOwn /\ NodeAsBelieved
    OBVIOUS
  <1>1. /\ FlagTypes /\ DataTypes /\ UserTypes /\ CallInv /\ GoneInv /\ AckInv
        /\ MoveInv /\ OwnInv /\ ModeInv
    BY DEF ClientInv
  <1>2. TypeOK
    <2>1. {running, retired, caps, ready, readySeen} \subseteq BOOLEAN
      BY <1>1 DEF FlagTypes
    <2> QED BY <1>1, <2>1 DEF FlagTypes, DataTypes, UserTypes, TypeOK, LifecycleMessages,
               StatusMessages
  <1>3. ReadyAnswersRequest
    <2> SUFFICES ASSUME NEW u \in Users, pc[u] = "readyWait", ready PROVE uid[u] = arrived
      BY DEF ReadyAnswersRequest
    <2>1. u \in Callers /\ op[u] = "MOVE"
      BY <1>1 DEF CallInv, CallerInv, EngagerInv, Users
    <2> QED BY <1>1, <2>1 DEF MoveInv
  <1>4. AckIsOwn
    <2> SUFFICES ASSUME ~straddled, NEW u \in Users, pc[u] = "send", NEW a \in Answers(u)
                 PROVE  a[2] = op[u]
      BY DEF AckIsOwn
    <2>1. lifeLock = u /\ a \in acks
      BY <1>1 DEF CallInv, Answers
    <2> QED BY <1>1, <2>1 DEF OwnInv
  <1>5. ModeAsCommanded
    BY <1>1 DEF ModeInv, ModeAsCommanded
  <1> QED BY <1>1, <1>2, <1>3, <1>4, <1>5 DEF AnswersAreOwn, NodeAsBelieved, AckInv, GoneInv

\* The invariant holds in every state.
LEMMA ClientAlways == Spec => []ClientInv
  BY ClientInit, ClientNext, PTL DEF Spec

\* For any number of threads, requests and connections, and any capacity of the
\* topics, move_to_ready() ends normally only when the node completed the move
\* of that request, a lifecycle call only when it carried out that command, and
\* no answer is kept for a later call.
THEOREM OwnAnswers == Spec => []AnswersAreOwn
  BY ClientAlways, ClientSafe, PTL

\* As generally, the cached mode is the node's after a mode change that
\* succeeded, until a hold(), a move, a cleanup or the node itself changes the
\* mode behind it, and a backend that was retired has no process left.
THEOREM TrueBeliefs == Spec => []NodeAsBelieved
  BY ClientAlways, ClientSafe, PTL

-----------------------------------------------------------------------------
(***************************************************************************)
(* The pair: the inductive invariant, in three parts.  First, where the    *)
(* threads are: engage() is admitted, holds the arms, or is over, and a    *)
(* rollback returns to the caller it was entered from.                     *)
(***************************************************************************)
Admitted == at["engage"] \in {"pause", "float", "align", "command", "enable",
                              "on", "resume", "mark"}
InRollback(t) == at[t] \in {"rbFollower", "rbLeader"}

ControlInv ==
    /\ ret["engage"] \in {"idle", "finish"}
    /\ ret["stop"] = "idle"
    /\ ret["session"] \in {"idle", "closeLeader", "connectFollower"}
    /\ at["engage"] = "command" => steps < AlignSteps

\* The cleanup lock is held by a rollback, or by _enable().
LockInv ==
    \A t \in Threads :
        cleanup = t <=> (InRollback(t) \/ (t = "engage" /\ ArmsLocked))

\* Blocked engagement stays cancelled, and once drained holds no arm.
BlockInv == blocked => cancel /\ (at["session"] # "drain" => ~ArmsLocked)

ArmTypes ==
    /\ conn \in [Arms -> BOOLEAN]
    /\ changed \subseteq Arms
    /\ bilateral \in BOOLEAN /\ live \in BOOLEAN /\ moving \in BOOLEAN

PairTypes ==
    /\ engaged \in BOOLEAN /\ inProgress \in BOOLEAN /\ needs \in BOOLEAN
    /\ blocked \in BOOLEAN /\ cancel \in BOOLEAN

ThreadTypes ==
    /\ cleanup \in Threads \cup {Unlocked}
    /\ at \in [Threads -> SessionPCs] /\ ret \in [Threads -> SessionPCs]
    /\ want \in [Threads -> Expectations]

RunTypes ==
    failed \in BOOLEAN /\ overtaken \in BOOLEAN /\ steps \in 0 .. AlignSteps /\ fresh \subseteq Arms

Types == ArmTypes /\ PairTypes /\ ThreadTypes /\ RunTypes

GateInv == Types /\ ControlInv /\ LockInv /\ BlockInv

(***************************************************************************)
(* Second, who may consume _needs_rollback: while an engagement is         *)
(* admitted, a rollback of another thread belongs to an older one, has     *)
(* cancelled it, or is that of a rejected gain.  Unless the last of these  *)
(* has taken it (overtaken), the engagement still has its rollback or will *)
(* ask for one when it sees the cancellation.                              *)
(***************************************************************************)
OrderedRollbacks ==
    /\ at["session"] \in {"cancel", "rollback"} => want["session"] # "any"
    /\ at["stop"] = "cancel" => want["stop"] # "any"
    /\ Admitted => \A t \in Threads : at[t] = "rollback" =>
                        \/ want[t] = "past"
                        \/ want[t] = "current" /\ cancel
                        \/ want[t] = "any" /\ t = "stop"

EngagementInv ==
    /\ Admitted => inProgress /\ ~engaged
    /\ ArmsLocked => changed = {}

OwnedEngagement ==
    /\ engaged => needs
    /\ Admitted => needs \/ cancel
    /\ ArmsLocked => needs

(***************************************************************************)
(* Third, an arm that is not in its safe state belongs to the engagement   *)
(* recorded for it, and someone will put it back: a rollback that is due,  *)
(* the leg of a rollback under way, or an alignment that was cancelled     *)
(* while it sent a target.                                                 *)
(***************************************************************************)
UnsafeFollower == conn["follower"] /\ (live \/ (moving /\ "follower" \notin changed))
UnsafeLeader == conn["leader"] /\ bilateral

Recorded ==
    /\ conn["follower"] /\ live => "follower" \notin changed
    /\ conn["leader"] /\ bilateral => "leader" \notin changed

Attended ==
    /\ UnsafeFollower =>
        \/ needs
        \/ \E t \in Threads : at[t] = "rbFollower" \/ (at[t] = "rbLeader" /\ failed)
        \/ at["engage"] = "align" /\ cancel
    /\ UnsafeLeader => needs \/ \E t \in Threads : InRollback(t)

PairInv ==
    /\ GateInv /\ OrderedRollbacks /\ EngagementInv /\ Recorded
    /\ overtaken \/ (OwnedEngagement /\ Attended)

(***************************************************************************)
(* A thread that goes to a step of its call stays among the steps.         *)
(***************************************************************************)
LEMMA StepTypes ==
    ASSUME ThreadTypes, NEW t \in Threads, NEW l \in SessionPCs, GotoStep(t, l)
    PROVE  at' \in [Threads -> SessionPCs]
  BY DEF ThreadTypes, GotoStep

(***************************************************************************)
(* Entering _rollback() keeps the types of the threads.                    *)
(***************************************************************************)
LEMMA RollbackTypes ==
    ASSUME ThreadTypes, NEW t \in Threads, NEW l \in SessionPCs,
           NEW e \in Expectations, Rollback(t, e, l)
    PROVE  /\ at' \in [Threads -> SessionPCs]
           /\ ret' \in [Threads -> SessionPCs]
           /\ want' \in [Threads -> Expectations]
  <1>1. "rollback" \in SessionPCs
    BY DEF SessionPCs
  <1> QED
    BY <1>1 DEF ThreadTypes, Rollback, GotoStep

(***************************************************************************)
(* Returning from _rollback() keeps the types of the threads.              *)
(***************************************************************************)
LEMMA ReturnTypes ==
    ASSUME ThreadTypes, NEW t \in Threads, ReturnTo(t)
    PROVE  /\ at' \in [Threads -> SessionPCs]
           /\ ret' \in [Threads -> SessionPCs]
           /\ want' \in [Threads -> Expectations]
  <1>1. "idle" \in SessionPCs /\ "any" \in Expectations
    BY DEF SessionPCs, Expectations
  <1> QED
    BY <1>1 DEF ThreadTypes, ReturnTo, GotoStep

(***************************************************************************)
(* A step of engage() that succeeds or raises keeps the types of the       *)
(* threads and of the cleanup lock.                                        *)
(***************************************************************************)
LEMMA ProceedTypes ==
    ASSUME ThreadTypes, NEW l \in SessionPCs, NEW ok \in BOOLEAN, Proceed(l, ok)
    PROVE  /\ at' \in [Threads -> SessionPCs]
           /\ ret' \in [Threads -> SessionPCs]
           /\ want' \in [Threads -> Expectations]
           /\ cleanup' \in Threads \cup {Unlocked}
  <1>1. "engage" \in Threads /\ "any" \in Expectations /\ "finish" \in SessionPCs
    BY DEF Threads, Expectations, SessionPCs
  <1>2. cleanup' \in Threads \cup {Unlocked}
    BY DEF ThreadTypes, Proceed
  <1>3. CASE ok
    BY <1>1, <1>2, <1>3, StepTypes DEF ThreadTypes, Proceed
  <1>4. CASE ~ok
    BY <1>1, <1>2, <1>4, RollbackTypes DEF ThreadTypes, Proceed
  <1> QED
    BY <1>3, <1>4

(***************************************************************************)
(* The members of the finite sets, for proofs that need no more of them.   *)
(***************************************************************************)
LEMMA Labels ==
    /\ {"idle", "pause", "float", "align", "command", "enable", "on", "resume",
        "mark", "finish", "cancel", "rollback", "rbFollower", "rbLeader",
        "drain",
        "closeLeader", "closeFollower", "connectFollower", "pauseFollower",
        "connectLeader", "floatLeader", "abort"} \subseteq SessionPCs
    /\ Expectations = {"any", "current", "past"}
    /\ Threads = {"engage", "stop", "session"}
  BY DEF SessionPCs, Expectations, Threads

(***************************************************************************)
(* A node that goes idle has Boolean modes.                                *)
(***************************************************************************)
LEMMA IdleTypes ==
    ASSUME NEW as, Idle(as)
    PROVE  bilateral' \in BOOLEAN /\ live' \in BOOLEAN /\ moving' \in BOOLEAN
  BY Zenon DEF Idle

(***************************************************************************)
(* _Arm.close() keeps the types of the arms.                               *)
(***************************************************************************)
LEMMA ClosedTypes ==
    ASSUME ArmTypes, NEW as \in SUBSET Arms, Closed(as)
    PROVE  ArmTypes'
  <1>1. conn' \in [Arms -> BOOLEAN] /\ changed' \subseteq Arms
    BY DEF ArmTypes, Closed
  <1> QED
    BY <1>1, IdleTypes DEF ArmTypes, Closed

(***************************************************************************)
(* _Arm.connect() keeps the types of the arms and of the newly connected   *)
(* ones.                                                                   *)
(***************************************************************************)
LEMMA ConnectArmTypes ==
    ASSUME ArmTypes, fresh \subseteq Arms,
           NEW a \in Arms, NEW l, NEW after, ConnectArm(a, l, after)
    PROVE  ArmTypes' /\ fresh' \subseteq Arms
  <1>1. conn' \in [Arms -> BOOLEAN] /\ changed' \subseteq Arms /\ fresh' \subseteq Arms
    BY DEF ArmTypes, ConnectArm
  <1>2. bilateral' \in BOOLEAN /\ live' \in BOOLEAN /\ moving' \in BOOLEAN
    BY IdleTypes DEF ArmTypes, ConnectArm
  <1> QED
    BY <1>1, <1>2 DEF ArmTypes

(***************************************************************************)
(* Every step keeps the types of the arms.                                 *)
(***************************************************************************)
LEMMA ArmTypesKept ==
    ASSUME ArmTypes, RunTypes, [TeleopNext]_teleopVars
    PROVE  ArmTypes'
  <1> USE DEF ArmTypes
  <1>1. CASE BeginEngage
    BY <1>1 DEF BeginEngage
  <1>2. CASE RefuseEngage
    BY <1>2 DEF RefuseEngage, armVars
  <1>3. CASE Cancelled
    BY <1>3 DEF Cancelled, armVars
  <1>4. CASE PauseToAlign
    BY <1>4 DEF PauseToAlign, SetLive, pairVars
  <1>5. CASE FloatToAlign
    BY <1>5 DEF FloatToAlign, SetBilateral, pairVars
  <1>6. CASE Align
    BY <1>6 DEF Align, armVars, pairVars
  <1>7. CASE CommandFollower
    BY <1>7 DEF CommandFollower, pairVars
  <1>8. CASE Enable
    BY <1>8 DEF Enable, armVars, pairVars
  <1>9. CASE EnableFeedback
    BY <1>9 DEF EnableFeedback, SetBilateral, pairVars
  <1>10. CASE ResumeLive
    BY <1>10 DEF ResumeLive, SetLive, pairVars
  <1>11. CASE MarkEngaged
    BY <1>11 DEF MarkEngaged, armVars
  <1>12. CASE FinishEngage
    BY <1>12 DEF FinishEngage, armVars
  <1>13. CASE \E t \in Threads : EnterRollback(t)
    BY <1>13 DEF EnterRollback, armVars
  <1>14. CASE \E t \in Threads : RollBackFollower(t)
    BY <1>14 DEF RollBackFollower, SetLive, pairVars
  <1>15. CASE \E t \in Threads : RollBackLeader(t)
    BY <1>15 DEF RollBackLeader, SetBilateral
  <1>16. CASE Disengage("stop")
    BY <1>16 DEF Disengage, armVars, pairVars
  <1>17. CASE \E t \in {"stop", "session"} : CancelThenRollBack(t)
    BY <1>17 DEF CancelThenRollBack, armVars
  <1>18. CASE CancelEngage
    BY <1>18 DEF CancelEngage, armVars, threadVars
  <1>19. CASE RejectGain
    BY <1>19 DEF RejectGain, armVars, pairVars
  <1>20. CASE CloseSession
    BY <1>20 DEF CloseSession, armVars
  <1>21. CASE ConnectSession
    BY <1>21 DEF ConnectSession, armVars
  <1>22. CASE Drained
    BY <1>22 DEF Drained, armVars, pairVars
  <1>23. CASE CloseArms
    BY <1>23, ClosedTypes DEF CloseArms, Arms
  <1>24. CASE ConnectFollower
    BY <1>24, ConnectArmTypes DEF ConnectFollower, RunTypes, Arms
  <1>25. CASE PauseFollower
    BY <1>25 DEF PauseFollower, SetLive, pairVars
  <1>26. CASE ConnectLeader
    BY <1>26, ConnectArmTypes DEF ConnectLeader, RunTypes, Arms
  <1>27. CASE FloatLeader
    BY <1>27 DEF FloatLeader, SetBilateral, pairVars
  <1>28. CASE AllowEngagement
    BY <1>28 DEF AllowEngagement, armVars
  <1>29. CASE AbortConnect
    BY <1>29, ClosedTypes DEF AbortConnect, RunTypes
  <1>30. CASE \E a \in Arms : LoseArm(a)
    BY <1>30, IdleTypes DEF LoseArm, pairVars, threadVars
  <1>31. CASE UNCHANGED teleopVars
    BY <1>31 DEF teleopVars, armVars, pairVars, threadVars
  <1> QED
    BY <1>1, <1>2, <1>3, <1>4, <1>5, <1>6, <1>7, <1>8, <1>9, <1>10, <1>11,
       <1>12, <1>13, <1>14, <1>15, <1>16, <1>17, <1>18, <1>19, <1>20, <1>21,
       <1>22, <1>23, <1>24, <1>25, <1>26, <1>27, <1>28, <1>29, <1>30, <1>31
    DEF TeleopNext, EngageStep, StopStep, SessionStep, RollbackStep, Threads

(***************************************************************************)
(* Every step keeps the types of the pair's flags.                         *)
(***************************************************************************)
LEMMA PairTypesKept ==
    ASSUME ArmTypes, PairTypes, RunTypes, [TeleopNext]_teleopVars
    PROVE  PairTypes'
  <1> USE AlignAssumption DEF PairTypes
  <1>1. CASE BeginEngage
    BY <1>1 DEF BeginEngage
  <1>2. CASE RefuseEngage
    BY <1>2 DEF RefuseEngage
  <1>3. CASE Cancelled
    BY <1>3 DEF Cancelled
  <1>4. CASE PauseToAlign
    BY <1>4 DEF PauseToAlign, pairVars
  <1>5. CASE FloatToAlign
    BY <1>5 DEF FloatToAlign, pairVars
  <1>6. CASE Align
    BY <1>6 DEF Align, pairVars
  <1>7. CASE CommandFollower
    BY <1>7 DEF CommandFollower, pairVars
  <1>8. CASE Enable
    BY <1>8 DEF Enable, pairVars
  <1>9. CASE EnableFeedback
    BY <1>9 DEF EnableFeedback, pairVars
  <1>10. CASE ResumeLive
    BY <1>10 DEF ResumeLive, pairVars
  <1>11. CASE MarkEngaged
    BY <1>11 DEF MarkEngaged
  <1>12. CASE FinishEngage
    BY <1>12 DEF FinishEngage
  <1>13. CASE \E t \in Threads : EnterRollback(t)
    BY <1>13 DEF EnterRollback
  <1>14. CASE \E t \in Threads : RollBackFollower(t)
    BY <1>14 DEF RollBackFollower, pairVars
  <1>15. CASE \E t \in Threads : RollBackLeader(t)
    BY <1>15 DEF RollBackLeader
  <1>16. CASE Disengage("stop")
    BY <1>16 DEF Disengage, pairVars
  <1>17. CASE \E t \in {"stop", "session"} : CancelThenRollBack(t)
    BY <1>17 DEF CancelThenRollBack
  <1>18. CASE CancelEngage
    BY <1>18 DEF CancelEngage
  <1>19. CASE RejectGain
    BY <1>19 DEF RejectGain, pairVars
  <1>20. CASE CloseSession
    BY <1>20 DEF CloseSession, Block
  <1>21. CASE ConnectSession
    BY <1>21 DEF ConnectSession, Block
  <1>22. CASE Drained
    BY <1>22 DEF Drained, pairVars
  <1>23. CASE CloseArms
    BY <1>23 DEF CloseArms, pairVars
  <1>24. CASE ConnectFollower
    BY <1>24 DEF ConnectFollower, pairVars
  <1>25. CASE PauseFollower
    BY <1>25 DEF PauseFollower, pairVars
  <1>26. CASE ConnectLeader
    BY <1>26 DEF ConnectLeader, pairVars
  <1>27. CASE FloatLeader
    BY <1>27 DEF FloatLeader, pairVars
  <1>28. CASE AllowEngagement
    BY <1>28 DEF AllowEngagement
  <1>29. CASE AbortConnect
    BY <1>29 DEF AbortConnect, pairVars
  <1>30. CASE \E a \in Arms : LoseArm(a)
    BY <1>30 DEF LoseArm, pairVars
  <1>31. CASE UNCHANGED teleopVars
    BY <1>31 DEF teleopVars, pairVars
  <1> QED
    BY <1>1, <1>2, <1>3, <1>4, <1>5, <1>6, <1>7, <1>8, <1>9, <1>10, <1>11,
       <1>12, <1>13, <1>14, <1>15, <1>16, <1>17, <1>18, <1>19, <1>20, <1>21,
       <1>22, <1>23, <1>24, <1>25, <1>26, <1>27, <1>28, <1>29, <1>30, <1>31
    DEF TeleopNext, EngageStep, StopStep, SessionStep, RollbackStep, Threads

(***************************************************************************)
(* Every step keeps the alignment within its duration, and the types of    *)
(* the locals of _rollback() and connect().                                *)
(***************************************************************************)
LEMMA RunTypesKept ==
    ASSUME ControlInv, ArmTypes, RunTypes, [TeleopNext]_teleopVars
    PROVE  RunTypes'
  <1> USE AlignAssumption DEF RunTypes
  <1>1. CASE BeginEngage
    BY <1>1 DEF BeginEngage
  <1>2. CASE RefuseEngage
    BY <1>2 DEF RefuseEngage
  <1>3. CASE Cancelled
    BY <1>3 DEF Cancelled
  <1>4. CASE PauseToAlign
    BY <1>4 DEF PauseToAlign
  <1>5. CASE FloatToAlign
    BY <1>5 DEF FloatToAlign
  <1>6. CASE Align
    BY <1>6 DEF Align
  <1>7. CASE CommandFollower
    BY <1>7 DEF CommandFollower, ControlInv
  <1>8. CASE Enable
    BY <1>8 DEF Enable
  <1>9. CASE EnableFeedback
    BY <1>9 DEF EnableFeedback
  <1>10. CASE ResumeLive
    BY <1>10 DEF ResumeLive
  <1>11. CASE MarkEngaged
    BY <1>11 DEF MarkEngaged
  <1>12. CASE FinishEngage
    BY <1>12 DEF FinishEngage
  <1>13. CASE \E t \in Threads : EnterRollback(t)
    BY <1>13 DEF EnterRollback
  <1>14. CASE \E t \in Threads : RollBackFollower(t)
    BY <1>14 DEF RollBackFollower
  <1>15. CASE \E t \in Threads : RollBackLeader(t)
    BY <1>15 DEF RollBackLeader
  <1>16. CASE Disengage("stop")
    BY <1>16 DEF Disengage
  <1>17. CASE \E t \in {"stop", "session"} : CancelThenRollBack(t)
    BY <1>17 DEF CancelThenRollBack
  <1>18. CASE CancelEngage
    BY <1>18 DEF CancelEngage, threadVars
  <1>19. CASE RejectGain
    BY <1>19 DEF RejectGain
  <1>20. CASE CloseSession
    BY <1>20 DEF CloseSession
  <1>21. CASE ConnectSession
    BY <1>21 DEF ConnectSession
  <1>22. CASE Drained
    BY <1>22 DEF Drained
  <1>23. CASE CloseArms
    BY <1>23 DEF CloseArms, Closed
  <1>24. CASE ConnectFollower
    BY <1>24, ConnectArmTypes DEF ConnectFollower, Arms
  <1>25. CASE PauseFollower
    BY <1>25 DEF PauseFollower
  <1>26. CASE ConnectLeader
    BY <1>26, ConnectArmTypes DEF ConnectLeader, Arms
  <1>27. CASE FloatLeader
    BY <1>27 DEF FloatLeader
  <1>28. CASE AllowEngagement
    BY <1>28 DEF AllowEngagement
  <1>29. CASE AbortConnect
    BY <1>29 DEF AbortConnect, Closed
  <1>30. CASE \E a \in Arms : LoseArm(a)
    BY <1>30 DEF LoseArm, threadVars
  <1>31. CASE UNCHANGED teleopVars
    BY <1>31 DEF teleopVars, threadVars
  <1> QED
    BY <1>1, <1>2, <1>3, <1>4, <1>5, <1>6, <1>7, <1>8, <1>9, <1>10, <1>11,
       <1>12, <1>13, <1>14, <1>15, <1>16, <1>17, <1>18, <1>19, <1>20, <1>21,
       <1>22, <1>23, <1>24, <1>25, <1>26, <1>27, <1>28, <1>29, <1>30, <1>31
    DEF TeleopNext, EngageStep, StopStep, SessionStep, RollbackStep, Threads

(***************************************************************************)
(* Every step keeps the threads at steps of their calls.                   *)
(***************************************************************************)
LEMMA ThreadTypesKept ==
    ASSUME ArmTypes, ThreadTypes, [TeleopNext]_teleopVars
    PROVE  ThreadTypes'
  <1> USE DEF ThreadTypes
  <1>1. CASE BeginEngage
    BY <1>1, Labels, StepTypes DEF BeginEngage
  <1>2. CASE RefuseEngage
    BY <1>2, Labels, RollbackTypes DEF RefuseEngage, armVars
  <1>3. CASE Cancelled
    BY <1>3, Labels, RollbackTypes DEF Cancelled, armVars
  <1>4. CASE PauseToAlign
    BY <1>4, Labels, ProceedTypes DEF PauseToAlign, SetLive, pairVars
  <1>5. CASE FloatToAlign
    BY <1>5, Labels, ProceedTypes
       DEF FloatToAlign, SetBilateral, pairVars, MayProceed
  <1>6. CASE Align
    BY <1>6, Labels, ProceedTypes DEF Align, armVars, pairVars, MayProceed
  <1>7. CASE CommandFollower
    <2>1. conn["follower"] \in BOOLEAN
      BY DEF ArmTypes, Arms
    <2> QED
      BY <1>7, <2>1, Labels, ProceedTypes DEF CommandFollower, pairVars
  <1>8. CASE Enable
    BY <1>8, Labels, StepTypes
       DEF Enable, armVars, pairVars, MayProceed, BothCurrent, Current
  <1>9. CASE EnableFeedback
    BY <1>9, Labels, ProceedTypes DEF EnableFeedback, SetBilateral, pairVars
  <1>10. CASE ResumeLive
    BY <1>10, Labels, ProceedTypes, ZenonT(60) DEF ResumeLive, SetLive, pairVars
  <1>11. CASE MarkEngaged
    BY <1>11, Labels, ProceedTypes, StepTypes DEF MarkEngaged, armVars
  <1>12. CASE FinishEngage
    BY <1>12, Labels, StepTypes DEF FinishEngage, armVars
  <1>13. CASE \E t \in Threads : EnterRollback(t)
    BY <1>13, Labels, ReturnTypes, StepTypes DEF EnterRollback, armVars
  <1>14. CASE \E t \in Threads : RollBackFollower(t)
    BY <1>14, Labels, StepTypes DEF RollBackFollower, SetLive, pairVars, Current
  <1>15. CASE \E t \in Threads : RollBackLeader(t)
    BY <1>15, Labels, ReturnTypes, StepTypes
       DEF RollBackLeader, SetBilateral, Current
  <1>16. CASE Disengage("stop")
    BY <1>16, Labels, StepTypes DEF Disengage, armVars, pairVars
  <1>17. CASE \E t \in {"stop", "session"} : CancelThenRollBack(t)
    BY <1>17, Labels, StepTypes DEF CancelThenRollBack, armVars
  <1>18. CASE CancelEngage
    BY <1>18, Labels DEF CancelEngage, armVars, threadVars
  <1>19. CASE RejectGain
    BY <1>19, Labels, RollbackTypes DEF RejectGain, armVars, pairVars
  <1>20. CASE CloseSession
    BY <1>20, Labels, StepTypes DEF CloseSession, Block, armVars
  <1>21. CASE ConnectSession
    BY <1>21, Labels, StepTypes DEF ConnectSession, Block, armVars
  <1>22. CASE Drained
    BY <1>22, Labels, StepTypes DEF Drained, armVars, pairVars
  <1>23. CASE CloseArms
    BY <1>23, Labels, StepTypes DEF CloseArms, Closed, Idle, pairVars
  <1>24. CASE ConnectFollower
    BY <1>24, Labels, StepTypes DEF ConnectFollower, ConnectArm, Idle, pairVars
  <1>25. CASE PauseFollower
    BY <1>25, Labels, StepTypes DEF PauseFollower, SetLive, pairVars
  <1>26. CASE ConnectLeader
    BY <1>26, Labels, StepTypes DEF ConnectLeader, ConnectArm, Idle, pairVars
  <1>27. CASE FloatLeader
    BY <1>27, Labels, StepTypes DEF FloatLeader, SetBilateral, pairVars
  <1>28. CASE AllowEngagement
    BY <1>28, Labels, StepTypes DEF AllowEngagement, armVars
  <1>29. CASE AbortConnect
    BY <1>29, Labels, StepTypes DEF AbortConnect, Closed, Idle, pairVars
  <1>30. CASE \E a \in Arms : LoseArm(a)
    BY <1>30, Labels DEF LoseArm, Idle, pairVars, threadVars
  <1>31. CASE UNCHANGED teleopVars
    BY <1>31, Labels DEF teleopVars, armVars, pairVars, threadVars
  <1> QED
    BY <1>1, <1>2, <1>3, <1>4, <1>5, <1>6, <1>7, <1>8, <1>9, <1>10, <1>11,
       <1>12, <1>13, <1>14, <1>15, <1>16, <1>17, <1>18, <1>19, <1>20, <1>21,
       <1>22, <1>23, <1>24, <1>25, <1>26, <1>27, <1>28, <1>29, <1>30, <1>31
    DEF TeleopNext, EngageStep, StopStep, SessionStep, RollbackStep, Threads

(***************************************************************************)
(* _pause_live_input(True) never starts the stream, and stops it when it   *)
(* succeeds.                                                               *)
(***************************************************************************)
LEMMA PauseEffect ==
    ASSUME live \in BOOLEAN, NEW ok \in BOOLEAN, SetLive(FALSE, ok)
    PROVE  (live' => live) /\ (ok => ~live')
  BY DEF SetLive

(***************************************************************************)
(* enter_gravity_compensation() never starts force feedback, and ends it   *)
(* when it succeeds.                                                       *)
(***************************************************************************)
LEMMA FloatEffect ==
    ASSUME bilateral \in BOOLEAN, NEW ok \in BOOLEAN, SetBilateral(FALSE, ok)
    PROVE  (bilateral' => bilateral) /\ (ok => ~bilateral')
  BY DEF SetBilateral

(***************************************************************************)
(* The follower's leg of _rollback() starts nothing, and leaves a current  *)
(* follower still or records the failure.                                  *)
(***************************************************************************)
LEMMA FollowerLeg ==
    ASSUME ArmTypes, failed \in BOOLEAN, NEW t \in Threads, RollBackFollower(t)
    PROVE  /\ conn' = conn /\ changed' = changed /\ bilateral' = bilateral
           /\ live' => live
           /\ moving' => moving
           /\ Current("follower") => failed' \/ (~live' /\ ~moving')
  <1>1. CASE Current("follower")
    <2>1. PICK paused \in BOOLEAN, held \in BOOLEAN :
            /\ SetLive(FALSE, paused)
            /\ moving' \in IF held THEN {FALSE} ELSE {moving, FALSE}
            /\ failed' = (~paused \/ ~held)
      BY <1>1 DEF RollBackFollower
    <2>2. (live' => live) /\ (paused => ~live')
      BY <2>1, PauseEffect DEF ArmTypes
    <2>3. (moving' => moving) /\ (held => ~moving')
      BY <2>1 DEF ArmTypes
    <2> QED
      BY <2>1, <2>2, <2>3, Zenon DEF RollBackFollower
  <1>2. CASE ~Current("follower")
    <2>1. UNCHANGED <<conn, changed, live, moving, bilateral>>
      BY <1>2 DEF RollBackFollower
    <2> QED
      BY <1>2, <2>1, Zenon
  <1> QED
    BY <1>1, <1>2

(***************************************************************************)
(* The leader's leg of _rollback() starts nothing, leaves a current leader *)
(* without force feedback or asks for another rollback, and hands on the   *)
(* failure of the follower's leg.                                          *)
(***************************************************************************)
LEMMA LeaderLeg ==
    ASSUME ArmTypes, NEW t \in Threads, RollBackLeader(t)
    PROVE  /\ conn' = conn /\ changed' = changed /\ live' = live /\ moving' = moving
           /\ bilateral' => bilateral
           /\ needs \/ failed => needs'
           /\ Current("leader") => needs' \/ ~bilateral'
  <1>1. CASE Current("leader")
    <2>1. PICK ok \in BOOLEAN :
            SetBilateral(FALSE, ok) /\ needs' = (needs \/ failed \/ ~ok)
      BY <1>1 DEF RollBackLeader
    <2>2. (bilateral' => bilateral) /\ (ok => ~bilateral')
      BY <2>1, FloatEffect DEF ArmTypes
    <2> QED
      BY <2>1, <2>2, Zenon DEF RollBackLeader
  <1>2. CASE ~Current("leader")
    <2>1. /\ needs' = (needs \/ failed)
          /\ UNCHANGED <<conn, changed, live, moving, bilateral>>
      BY <1>2 DEF RollBackLeader
    <2> QED
      BY <1>2, <2>1, Zenon
  <1> QED
    BY <1>1, <1>2

(***************************************************************************)
(* _Arm.connect() makes no arm unsafe: the node it starts is idle.         *)
(***************************************************************************)
LEMMA ConnectIsSafe ==
    ASSUME ArmTypes, NEW a \in Arms, NEW l, NEW after, ConnectArm(a, l, after)
    PROVE  /\ UnsafeFollower' => UnsafeFollower
           /\ UnsafeLeader' => UnsafeLeader
           /\ \E x \in {l, after, "abort"} : GotoStep("session", x)
  <1>1. \E x \in {l, after, "abort"} : GotoStep("session", x)
    BY Zenon DEF ConnectArm
  <1>2. CASE conn[a]
    BY <1>1, <1>2 DEF ConnectArm, UnsafeFollower, UnsafeLeader
  <1>3. CASE ~conn[a]
    <2>1. Idle({a}) /\ (\A b \in Arms : b # a =>
                            conn'[b] = conn[b] /\ (b \in changed' <=> b \in changed))
      BY <1>3 DEF ConnectArm, ArmTypes
    <2> QED
      BY <1>1, <2>1 DEF Idle, UnsafeFollower, UnsafeLeader, Arms
  <1> QED
    BY <1>2, <1>3

(***************************************************************************)
(* The same of the two connecting steps of ArmSession.connect().           *)
(***************************************************************************)
LEMMA ConnectSteps ==
    ASSUME ArmTypes, ConnectFollower \/ ConnectLeader
    PROVE  /\ UnsafeFollower' => UnsafeFollower
           /\ UnsafeLeader' => UnsafeLeader
           /\ at["session"] \in {"connectFollower", "connectLeader"}
           /\ \E x \in {"pauseFollower", "connectLeader", "floatLeader", "finish",
                       "abort"} :
                at' = [at EXCEPT !["session"] = x]
  <1>1. "follower" \in Arms /\ "leader" \in Arms
    BY DEF Arms
  <1>2. CASE ConnectFollower
    <2>1. /\ at["session"] = "connectFollower"
          /\ ConnectArm("follower", "pauseFollower", "connectLeader")
      BY <1>2 DEF ConnectFollower
    <2> QED
      BY <1>1, <2>1, ConnectIsSafe DEF GotoStep
  <1>3. CASE ConnectLeader
    <2>1. /\ at["session"] = "connectLeader"
          /\ ConnectArm("leader", "floatLeader", "finish")
      BY <1>3 DEF ConnectLeader
    <2> QED
      BY <1>1, <2>1, ConnectIsSafe DEF GotoStep
  <1> QED
    BY <1>2, <1>3

(***************************************************************************)
(* Every rollback returns to its caller, and an alignment commands the     *)
(* follower within its duration only.                                      *)
(***************************************************************************)
LEMMA ControlKept ==
    ASSUME ThreadTypes, RunTypes, ControlInv, [TeleopNext]_teleopVars
    PROVE  ControlInv'
  <1> USE DEF Threads, ThreadTypes, RunTypes, ControlInv
  <1>1. CASE BeginEngage
    BY <1>1 DEF BeginEngage, GotoStep
  <1>2. CASE RefuseEngage
    BY <1>2 DEF RefuseEngage, Rollback, GotoStep
  <1>3. CASE Cancelled
    BY <1>3 DEF Cancelled, Rollback, GotoStep
  <1>4. CASE PauseToAlign
    BY <1>4 DEF PauseToAlign, Proceed, Rollback, GotoStep, pairVars
  <1>5. CASE FloatToAlign
    BY <1>5 DEF FloatToAlign, Proceed, Rollback, GotoStep, pairVars
  <1>6. CASE Align
    BY <1>6 DEF Align, Proceed, Rollback, GotoStep, pairVars
  <1>7. CASE CommandFollower
    BY <1>7 DEF CommandFollower, Proceed, Rollback, GotoStep, pairVars
  <1>8. CASE Enable
    BY <1>8 DEF Enable, GotoStep, pairVars
  <1>9. CASE EnableFeedback
    BY <1>9 DEF EnableFeedback, Proceed, Rollback, GotoStep, pairVars
  <1>10. CASE ResumeLive
    BY <1>10 DEF ResumeLive, Proceed, Rollback, GotoStep, pairVars
  <1>11. CASE MarkEngaged
    BY <1>11 DEF MarkEngaged, Proceed, Rollback, GotoStep
  <1>12. CASE FinishEngage
    BY <1>12 DEF FinishEngage, GotoStep
  <1>13. CASE \E t \in Threads : EnterRollback(t)
    <2>1. PICK t \in Threads : EnterRollback(t)
      BY <1>13
    <2> QED
      BY <2>1 DEF EnterRollback, ReturnTo, GotoStep, armVars
  <1>14. CASE \E t \in Threads : RollBackFollower(t)
    <2>1. PICK t \in Threads : RollBackFollower(t)
      BY <1>14
    <2> QED
      BY <2>1 DEF RollBackFollower, SetLive, GotoStep, pairVars, Current
  <1>15. CASE \E t \in Threads : RollBackLeader(t)
    <2>1. PICK t \in Threads : RollBackLeader(t)
      BY <1>15
    <2> QED
      BY <2>1 DEF RollBackLeader, SetBilateral, ReturnTo, GotoStep, Current
  <1>16. CASE Disengage("stop")
    BY <1>16 DEF Disengage, GotoStep, pairVars
  <1>17. CASE \E t \in {"stop", "session"} : CancelThenRollBack(t)
    <2>1. PICK t \in {"stop", "session"} : CancelThenRollBack(t)
      BY <1>17
    <2> QED
      BY <2>1 DEF CancelThenRollBack, GotoStep, armVars
  <1>18. CASE CancelEngage
    BY <1>18 DEF CancelEngage, threadVars
  <1>19. CASE RejectGain
    BY <1>19 DEF RejectGain, Rollback, GotoStep, pairVars
  <1>20. CASE CloseSession
    BY <1>20 DEF CloseSession, Block, GotoStep
  <1>21. CASE ConnectSession
    BY <1>21 DEF ConnectSession, Block, GotoStep
  <1>22. CASE Drained
    BY <1>22 DEF Drained, GotoStep, pairVars
  <1>23. CASE CloseArms
    BY <1>23 DEF CloseArms, GotoStep, pairVars
  <1>24. CASE ConnectFollower
    BY <1>24 DEF ConnectFollower, ConnectArm, GotoStep, pairVars
  <1>25. CASE PauseFollower
    BY <1>25 DEF PauseFollower, GotoStep, pairVars
  <1>26. CASE ConnectLeader
    BY <1>26 DEF ConnectLeader, ConnectArm, GotoStep, pairVars
  <1>27. CASE FloatLeader
    BY <1>27 DEF FloatLeader, GotoStep, pairVars
  <1>28. CASE AllowEngagement
    BY <1>28 DEF AllowEngagement, GotoStep
  <1>29. CASE AbortConnect
    BY <1>29 DEF AbortConnect, GotoStep, pairVars
  <1>30. CASE \E a \in Arms : LoseArm(a)
    <2>1. PICK a \in Arms : LoseArm(a)
      BY <1>30
    <2> QED
      BY <2>1 DEF LoseArm, Idle, armVars, pairVars, threadVars
  <1>31. CASE UNCHANGED teleopVars
    BY <1>31 DEF teleopVars, pairVars, threadVars
  <1> QED
    BY <1>1, <1>2, <1>3, <1>4, <1>5, <1>6, <1>7, <1>8, <1>9, <1>10, <1>11,
       <1>12, <1>13, <1>14, <1>15, <1>16, <1>17, <1>18, <1>19, <1>20, <1>21,
       <1>22, <1>23, <1>24, <1>25, <1>26, <1>27, <1>28, <1>29, <1>30, <1>31
    DEF TeleopNext, EngageStep, StopStep, SessionStep, RollbackStep, Threads

(***************************************************************************)
(* The cleanup lock is held by exactly one rollback or by _enable(): every *)
(* with block that is entered is left.                                     *)
(***************************************************************************)
LEMMA LockKept ==
    ASSUME ThreadTypes, ControlInv, LockInv, [TeleopNext]_teleopVars
    PROVE  LockInv'
  <1> USE DEF Threads, Unlocked, ThreadTypes, ControlInv, LockInv, InRollback,
              ArmsLocked
  <1>1. CASE BeginEngage
    BY <1>1 DEF BeginEngage, GotoStep
  <1>2. CASE RefuseEngage
    BY <1>2 DEF RefuseEngage, Rollback, GotoStep
  <1>3. CASE Cancelled
    BY <1>3 DEF Cancelled, Rollback, GotoStep
  <1>4. CASE PauseToAlign
    BY <1>4 DEF PauseToAlign, Proceed, Rollback, GotoStep
  <1>5. CASE FloatToAlign
    BY <1>5 DEF FloatToAlign, Proceed, Rollback, GotoStep
  <1>6. CASE Align
    BY <1>6 DEF Align, Proceed, Rollback, GotoStep
  <1>7. CASE CommandFollower
    BY <1>7 DEF CommandFollower, Proceed, Rollback, GotoStep
  <1>8. CASE Enable
    BY <1>8 DEF Enable, GotoStep
  <1>9. CASE EnableFeedback
    BY <1>9 DEF EnableFeedback, Proceed, Rollback, GotoStep
  <1>10. CASE ResumeLive
    BY <1>10 DEF ResumeLive, Proceed, Rollback, GotoStep
  <1>11. CASE MarkEngaged
    BY <1>11 DEF MarkEngaged, Proceed, Rollback, GotoStep
  <1>12. CASE FinishEngage
    BY <1>12 DEF FinishEngage, GotoStep
  <1>13. CASE \E t \in Threads : EnterRollback(t)
    <2>1. PICK t \in Threads : EnterRollback(t)
      BY <1>13
    <2>2. CASE needs /\ want[t] # "past"
      BY <2>1, <2>2 DEF EnterRollback, GotoStep
    <2>3. CASE ~(needs /\ want[t] # "past")
      <3>1. /\ ReturnTo(t) /\ UNCHANGED <<cleanup, needs, cancel>>
            /\ cleanup = Unlocked /\ at[t] = "rollback"
        BY <2>1, <2>3, Zenon DEF EnterRollback
      <3> QED
        BY <3>1 DEF ReturnTo, GotoStep
    <2> QED
      BY <2>2, <2>3
  <1>14. CASE \E t \in Threads : RollBackFollower(t)
    <2>1. PICK t \in Threads : RollBackFollower(t)
      BY <1>14
    <2> QED
      BY <2>1 DEF RollBackFollower, SetLive, GotoStep, pairVars, Current
  <1>15. CASE \E t \in Threads : RollBackLeader(t)
    <2>1. PICK t \in Threads : RollBackLeader(t)
      BY <1>15
    <2> QED
      BY <2>1 DEF RollBackLeader, SetBilateral, ReturnTo, GotoStep, Current
  <1>16. CASE Disengage("stop")
    BY <1>16 DEF Disengage, GotoStep
  <1>17. CASE \E t \in {"stop", "session"} : CancelThenRollBack(t)
    <2>1. PICK t \in {"stop", "session"} : CancelThenRollBack(t)
      BY <1>17
    <2> QED
      BY <2>1 DEF CancelThenRollBack, GotoStep, armVars
  <1>18. CASE CancelEngage
    BY <1>18 DEF CancelEngage, threadVars
  <1>19. CASE RejectGain
    BY <1>19 DEF RejectGain, Rollback, GotoStep
  <1>20. CASE CloseSession
    BY <1>20 DEF CloseSession, Block, GotoStep
  <1>21. CASE ConnectSession
    BY <1>21 DEF ConnectSession, Block, GotoStep
  <1>22. CASE Drained
    BY <1>22 DEF Drained, GotoStep
  <1>23. CASE CloseArms
    BY <1>23 DEF CloseArms, GotoStep
  <1>24. CASE ConnectFollower
    BY <1>24 DEF ConnectFollower, ConnectArm, GotoStep
  <1>25. CASE PauseFollower
    BY <1>25 DEF PauseFollower, GotoStep
  <1>26. CASE ConnectLeader
    BY <1>26 DEF ConnectLeader, ConnectArm, GotoStep
  <1>27. CASE FloatLeader
    BY <1>27 DEF FloatLeader, GotoStep
  <1>28. CASE AllowEngagement
    BY <1>28 DEF AllowEngagement, GotoStep
  <1>29. CASE AbortConnect
    BY <1>29 DEF AbortConnect, GotoStep
  <1>30. CASE \E a \in Arms : LoseArm(a)
    <2>1. PICK a \in Arms : LoseArm(a)
      BY <1>30
    <2> QED
      BY <2>1 DEF LoseArm, Idle, armVars, pairVars, threadVars
  <1>31. CASE UNCHANGED teleopVars
    BY <1>31 DEF teleopVars, threadVars
  <1> QED
    BY <1>1, <1>2, <1>3, <1>4, <1>5, <1>6, <1>7, <1>8, <1>9, <1>10, <1>11,
       <1>12, <1>13, <1>14, <1>15, <1>16, <1>17, <1>18, <1>19, <1>20, <1>21,
       <1>22, <1>23, <1>24, <1>25, <1>26, <1>27, <1>28, <1>29, <1>30, <1>31
    DEF TeleopNext, EngageStep, StopStep, SessionStep, RollbackStep, Threads

(***************************************************************************)
(* Blocked engagement stays cancelled: the only step that clears           *)
(* _align_cancel is refused while engagement is blocked.                   *)
(***************************************************************************)
LEMMA BlockKept ==
    ASSUME ThreadTypes, ControlInv, LockInv, BlockInv, [TeleopNext]_teleopVars
    PROVE  BlockInv'
  <1> USE DEF Threads, Unlocked, ThreadTypes, ControlInv, LockInv, InRollback,
              ArmsLocked, BlockInv
  <1>1. CASE BeginEngage
    BY <1>1 DEF BeginEngage, GotoStep
  <1>2. CASE RefuseEngage
    BY <1>2 DEF RefuseEngage, Rollback, GotoStep
  <1>3. CASE Cancelled
    BY <1>3 DEF Cancelled, Rollback, GotoStep
  <1>4. CASE PauseToAlign
    BY <1>4 DEF PauseToAlign, Proceed, Rollback, GotoStep, pairVars
  <1>5. CASE FloatToAlign
    BY <1>5 DEF FloatToAlign, Proceed, Rollback, GotoStep, pairVars, MayProceed
  <1>6. CASE Align
    BY <1>6 DEF Align, Proceed, Rollback, GotoStep, pairVars, MayProceed
  <1>7. CASE CommandFollower
    BY <1>7 DEF CommandFollower, Proceed, Rollback, GotoStep, pairVars
  <1>8. CASE Enable
    BY <1>8 DEF Enable, GotoStep, pairVars, MayProceed
  <1>9. CASE EnableFeedback
    BY <1>9 DEF EnableFeedback, Proceed, Rollback, GotoStep, pairVars
  <1>10. CASE ResumeLive
    BY <1>10 DEF ResumeLive, Proceed, Rollback, GotoStep, pairVars
  <1>11. CASE MarkEngaged
    BY <1>11 DEF MarkEngaged, Proceed, Rollback, GotoStep
  <1>12. CASE FinishEngage
    BY <1>12 DEF FinishEngage, GotoStep
  <1>13. CASE \E t \in Threads : EnterRollback(t)
    <2>1. PICK t \in Threads : EnterRollback(t)
      BY <1>13
    <2> QED
      BY <2>1, ZenonT(60) DEF EnterRollback, ReturnTo, GotoStep, armVars
  <1>14. CASE \E t \in Threads : RollBackFollower(t)
    <2>1. PICK t \in Threads : RollBackFollower(t)
      BY <1>14
    <2> QED
      BY <2>1 DEF RollBackFollower, SetLive, GotoStep, pairVars, Current
  <1>15. CASE \E t \in Threads : RollBackLeader(t)
    <2>1. PICK t \in Threads : RollBackLeader(t)
      BY <1>15
    <2> QED
      BY <2>1 DEF RollBackLeader, SetBilateral, ReturnTo, GotoStep, Current
  <1>16. CASE Disengage("stop")
    BY <1>16 DEF Disengage, GotoStep, pairVars
  <1>17. CASE \E t \in {"stop", "session"} : CancelThenRollBack(t)
    <2>1. PICK t \in {"stop", "session"} : CancelThenRollBack(t)
      BY <1>17
    <2> QED
      BY <2>1 DEF CancelThenRollBack, GotoStep, armVars
  <1>18. CASE CancelEngage
    BY <1>18 DEF CancelEngage, threadVars
  <1>19. CASE RejectGain
    BY <1>19 DEF RejectGain, Rollback, GotoStep, pairVars
  <1>20. CASE CloseSession
    BY <1>20 DEF CloseSession, Block, GotoStep
  <1>21. CASE ConnectSession
    BY <1>21 DEF ConnectSession, Block, GotoStep
  <1>22. CASE Drained
    BY <1>22 DEF Drained, GotoStep, pairVars
  <1>23. CASE CloseArms
    BY <1>23 DEF CloseArms, GotoStep, pairVars
  <1>24. CASE ConnectFollower
    BY <1>24 DEF ConnectFollower, ConnectArm, GotoStep, pairVars
  <1>25. CASE PauseFollower
    BY <1>25 DEF PauseFollower, GotoStep, pairVars
  <1>26. CASE ConnectLeader
    BY <1>26 DEF ConnectLeader, ConnectArm, GotoStep, pairVars
  <1>27. CASE FloatLeader
    BY <1>27 DEF FloatLeader, GotoStep, pairVars
  <1>28. CASE AllowEngagement
    BY <1>28 DEF AllowEngagement, GotoStep
  <1>29. CASE AbortConnect
    BY <1>29 DEF AbortConnect, GotoStep, pairVars
  <1>30. CASE \E a \in Arms : LoseArm(a)
    <2>1. PICK a \in Arms : LoseArm(a)
      BY <1>30
    <2> QED
      BY <2>1 DEF LoseArm, Idle, armVars, pairVars, threadVars
  <1>31. CASE UNCHANGED teleopVars
    BY <1>31 DEF teleopVars, pairVars, threadVars
  <1> QED
    BY <1>1, <1>2, <1>3, <1>4, <1>5, <1>6, <1>7, <1>8, <1>9, <1>10, <1>11,
       <1>12, <1>13, <1>14, <1>15, <1>16, <1>17, <1>18, <1>19, <1>20, <1>21,
       <1>22, <1>23, <1>24, <1>25, <1>26, <1>27, <1>28, <1>29, <1>30, <1>31
    DEF TeleopNext, EngageStep, StopStep, SessionStep, RollbackStep, Threads

(***************************************************************************)
(* A rollback that waits for the cleanup lock while an engagement is       *)
(* admitted is of an older generation, has cancelled it, or is that of a   *)
(* rejected gain.                                                          *)
(***************************************************************************)
LEMMA OrderKept ==
    ASSUME ThreadTypes, ControlInv, LockInv, EngagementInv,
           OrderedRollbacks, [TeleopNext]_teleopVars
    PROVE  OrderedRollbacks'
  <1> USE DEF Threads, Unlocked, ThreadTypes, ControlInv, LockInv, InRollback,
              ArmsLocked, EngagementInv, OrderedRollbacks, Admitted
  <1>1. CASE BeginEngage
    <2>1. /\ at' = [at EXCEPT !["engage"] = "pause"]
          /\ \A t \in Threads : want'[t] = IF want[t] = "current" THEN "past" ELSE want[t]
      BY <1>1 DEF BeginEngage, GotoStep
    <2>2. \A t \in Threads : want[t] \in {"any", "current", "past"}
      BY DEF Expectations
    <2> QED
      BY <2>1, <2>2
  <1>2. CASE RefuseEngage
    BY <1>2 DEF RefuseEngage, Rollback, GotoStep
  <1>3. CASE Cancelled
    BY <1>3 DEF Cancelled, Rollback, GotoStep
  <1>4. CASE PauseToAlign
    <2>1. /\ at["engage"] = "pause" /\ cancel' = cancel
          /\ \/ at' = [at EXCEPT !["engage"] = "float"] /\ want' = want
             \/ /\ at' = [at EXCEPT !["engage"] = "rollback"]
                /\ want' = [want EXCEPT !["engage"] = "any"]
      BY <1>4 DEF PauseToAlign, Proceed, Rollback, GotoStep, pairVars
    <2> QED BY <2>1
  <1>5. CASE FloatToAlign
    BY <1>5 DEF FloatToAlign, Proceed, Rollback, GotoStep, pairVars, MayProceed
  <1>6. CASE Align
    BY <1>6 DEF Align, Proceed, Rollback, GotoStep, pairVars, MayProceed
  <1>7. CASE CommandFollower
    <2>1. /\ at["engage"] = "command" /\ cancel' = cancel
          /\ \/ at' = [at EXCEPT !["engage"] = "align"] /\ want' = want
             \/ /\ at' = [at EXCEPT !["engage"] = "rollback"]
                /\ want' = [want EXCEPT !["engage"] = "any"]
      BY <1>7 DEF CommandFollower, Proceed, Rollback, GotoStep, pairVars
    <2> QED BY <2>1
  <1>8. CASE Enable
    BY <1>8 DEF Enable, GotoStep, pairVars, MayProceed
  <1>9. CASE EnableFeedback
    BY <1>9, ZenonT(60)
       DEF EnableFeedback, Proceed, Rollback, GotoStep, pairVars
  <1>10. CASE ResumeLive
    BY <1>10, ZenonT(60) DEF ResumeLive, Proceed, Rollback, GotoStep, pairVars
  <1>11. CASE MarkEngaged
    BY <1>11 DEF MarkEngaged, Proceed, Rollback, GotoStep
  <1>12. CASE FinishEngage
    BY <1>12 DEF FinishEngage, GotoStep
  <1>13. CASE \E t \in Threads : EnterRollback(t)
    <2>1. PICK t \in Threads : EnterRollback(t)
      BY <1>13
    <2>2. CASE needs /\ want[t] # "past"
      BY <2>1, <2>2, ZenonT(60) DEF EnterRollback, GotoStep
    <2>3. CASE ~(needs /\ want[t] # "past")
      <3>1. /\ ReturnTo(t) /\ UNCHANGED <<cleanup, needs, cancel>>
            /\ cleanup = Unlocked /\ at[t] = "rollback"
        BY <2>1, <2>3, Zenon DEF EnterRollback
      <3> QED
        BY <3>1 DEF ReturnTo, GotoStep
    <2> QED
      BY <2>2, <2>3
  <1>14. CASE \E t \in Threads : RollBackFollower(t)
    <2>1. PICK t \in Threads : RollBackFollower(t)
      BY <1>14
    <2> QED
      BY <2>1 DEF RollBackFollower, SetLive, GotoStep, pairVars, Current
  <1>15. CASE \E t \in Threads : RollBackLeader(t)
    <2>1. PICK t \in Threads : RollBackLeader(t)
      BY <1>15
    <2> QED
      BY <2>1 DEF RollBackLeader, SetBilateral, ReturnTo, GotoStep, Current
  <1>16. CASE Disengage("stop")
    BY <1>16 DEF Disengage, GotoStep, pairVars
  <1>17. CASE \E t \in {"stop", "session"} : CancelThenRollBack(t)
    <2>1. CASE CancelThenRollBack("stop")
      BY <2>1 DEF CancelThenRollBack, GotoStep, Expectations
    <2>2. CASE CancelThenRollBack("session")
      BY <2>2 DEF CancelThenRollBack, GotoStep, Expectations
    <2> QED
      BY <1>17, <2>1, <2>2
  <1>18. CASE CancelEngage
    BY <1>18 DEF CancelEngage, threadVars
  <1>19. CASE RejectGain
    BY <1>19 DEF RejectGain, Rollback, GotoStep, pairVars
  <1>20. CASE CloseSession
    BY <1>20 DEF CloseSession, Block, GotoStep
  <1>21. CASE ConnectSession
    BY <1>21, ZenonT(60) DEF ConnectSession, Block, GotoStep
  <1>22. CASE Drained
    BY <1>22 DEF Drained, GotoStep, pairVars
  <1>23. CASE CloseArms
    BY <1>23, ZenonT(60) DEF CloseArms, GotoStep, pairVars
  <1>24. CASE ConnectFollower
    BY <1>24, ZenonT(60) DEF ConnectFollower, ConnectArm, GotoStep, pairVars
  <1>25. CASE PauseFollower
    BY <1>25 DEF PauseFollower, GotoStep, pairVars
  <1>26. CASE ConnectLeader
    BY <1>26, ZenonT(60) DEF ConnectLeader, ConnectArm, GotoStep, pairVars
  <1>27. CASE FloatLeader
    BY <1>27 DEF FloatLeader, GotoStep, pairVars
  <1>28. CASE AllowEngagement
    BY <1>28 DEF AllowEngagement, GotoStep
  <1>29. CASE AbortConnect
    BY <1>29 DEF AbortConnect, GotoStep, pairVars
  <1>30. CASE \E a \in Arms : LoseArm(a)
    <2>1. PICK a \in Arms : LoseArm(a)
      BY <1>30
    <2> QED
      BY <2>1 DEF LoseArm, Idle, armVars, pairVars, threadVars
  <1>31. CASE UNCHANGED teleopVars
    BY <1>31 DEF teleopVars, pairVars, threadVars
  <1> QED
    BY <1>1, <1>2, <1>3, <1>4, <1>5, <1>6, <1>7, <1>8, <1>9, <1>10, <1>11,
       <1>12, <1>13, <1>14, <1>15, <1>16, <1>17, <1>18, <1>19, <1>20, <1>21,
       <1>22, <1>23, <1>24, <1>25, <1>26, <1>27, <1>28, <1>29, <1>30, <1>31
    DEF TeleopNext, EngageStep, StopStep, SessionStep, RollbackStep, Threads

(***************************************************************************)
(* An admitted engagement is in progress and the pair not yet engaged, and *)
(* no arm is replaced while _enable() holds the arms.                      *)
(***************************************************************************)
LEMMA EngagementKept ==
    ASSUME Types, ControlInv, LockInv, EngagementInv, [TeleopNext]_teleopVars
    PROVE  EngagementInv'
  <1> USE DEF Threads, Unlocked, ThreadTypes, ControlInv, LockInv, InRollback,
              ArmsLocked, EngagementInv, Admitted, Types
  <1>1. CASE BeginEngage
    BY <1>1 DEF BeginEngage, GotoStep
  <1>2. CASE RefuseEngage
    BY <1>2 DEF RefuseEngage, Rollback, GotoStep, armVars
  <1>3. CASE Cancelled
    BY <1>3 DEF Cancelled, Rollback, GotoStep, armVars
  <1>4. CASE PauseToAlign
    BY <1>4 DEF PauseToAlign, Proceed, Rollback, GotoStep, pairVars
  <1>5. CASE FloatToAlign
    BY <1>5 DEF FloatToAlign, Proceed, Rollback, GotoStep, pairVars, MayProceed
  <1>6. CASE Align
    BY <1>6
       DEF Align, Proceed, Rollback, GotoStep, armVars, pairVars, MayProceed
  <1>7. CASE CommandFollower
    BY <1>7 DEF CommandFollower, Proceed, Rollback, GotoStep, pairVars
  <1>8. CASE Enable
    <2>1. changed = {}
      BY <1>8 DEF Enable, MayProceed, BothCurrent, Current, ArmTypes
    <2> QED
      BY <1>8, <2>1 DEF Enable, GotoStep, armVars, pairVars, MayProceed
  <1>9. CASE EnableFeedback
    BY <1>9 DEF EnableFeedback, Proceed, Rollback, GotoStep, pairVars
  <1>10. CASE ResumeLive
    BY <1>10 DEF ResumeLive, Proceed, Rollback, GotoStep, pairVars
  <1>11. CASE MarkEngaged
    BY <1>11 DEF MarkEngaged, Proceed, Rollback, GotoStep, armVars
  <1>12. CASE FinishEngage
    BY <1>12 DEF FinishEngage, GotoStep, armVars
  <1>13. CASE \E t \in Threads : EnterRollback(t)
    <2>1. PICK t \in Threads : EnterRollback(t)
      BY <1>13
    <2> QED
      BY <2>1, ZenonT(60) DEF EnterRollback, ReturnTo, GotoStep, armVars
  <1>14. CASE \E t \in Threads : RollBackFollower(t)
    <2>1. PICK t \in Threads : RollBackFollower(t)
      BY <1>14
    <2> QED
      BY <2>1 DEF RollBackFollower, SetLive, GotoStep, pairVars, Current
  <1>15. CASE \E t \in Threads : RollBackLeader(t)
    <2>1. PICK t \in Threads : RollBackLeader(t)
      BY <1>15
    <2> QED
      BY <2>1 DEF RollBackLeader, SetBilateral, ReturnTo, GotoStep, Current
  <1>16. CASE Disengage("stop")
    BY <1>16 DEF Disengage, GotoStep, armVars, pairVars
  <1>17. CASE \E t \in {"stop", "session"} : CancelThenRollBack(t)
    <2>1. PICK t \in {"stop", "session"} : CancelThenRollBack(t)
      BY <1>17
    <2> QED
      BY <2>1 DEF CancelThenRollBack, GotoStep, armVars
  <1>18. CASE CancelEngage
    BY <1>18 DEF CancelEngage, armVars, threadVars
  <1>19. CASE RejectGain
    BY <1>19 DEF RejectGain, Rollback, GotoStep, armVars, pairVars
  <1>20. CASE CloseSession
    BY <1>20 DEF CloseSession, Block, GotoStep, armVars
  <1>21. CASE ConnectSession
    BY <1>21 DEF ConnectSession, Block, GotoStep, armVars
  <1>22. CASE Drained
    BY <1>22 DEF Drained, GotoStep, armVars, pairVars
  <1>23. CASE CloseArms
    BY <1>23 DEF CloseArms, Closed, GotoStep, pairVars
  <1>24. CASE ConnectFollower
    BY <1>24 DEF ConnectFollower, ConnectArm, GotoStep, pairVars
  <1>25. CASE PauseFollower
    BY <1>25 DEF PauseFollower, GotoStep, pairVars
  <1>26. CASE ConnectLeader
    BY <1>26 DEF ConnectLeader, ConnectArm, GotoStep, pairVars
  <1>27. CASE FloatLeader
    BY <1>27 DEF FloatLeader, GotoStep, pairVars
  <1>28. CASE AllowEngagement
    BY <1>28 DEF AllowEngagement, GotoStep, armVars
  <1>29. CASE AbortConnect
    BY <1>29 DEF AbortConnect, Closed, GotoStep, pairVars
  <1>30. CASE \E a \in Arms : LoseArm(a)
    <2>1. PICK a \in Arms : LoseArm(a)
      BY <1>30
    <2> QED
      BY <2>1 DEF LoseArm, Idle, armVars, pairVars, threadVars
  <1>31. CASE UNCHANGED teleopVars
    BY <1>31 DEF teleopVars, armVars, pairVars, threadVars
  <1> QED
    BY <1>1, <1>2, <1>3, <1>4, <1>5, <1>6, <1>7, <1>8, <1>9, <1>10, <1>11,
       <1>12, <1>13, <1>14, <1>15, <1>16, <1>17, <1>18, <1>19, <1>20, <1>21,
       <1>22, <1>23, <1>24, <1>25, <1>26, <1>27, <1>28, <1>29, <1>30, <1>31
    DEF TeleopNext, EngageStep, StopStep, SessionStep, RollbackStep, Threads

(***************************************************************************)
(* Only the next engagement clears the mark of a late rollback.            *)
(***************************************************************************)
LEMMA OvertakenKept ==
    ASSUME overtaken, [TeleopNext]_teleopVars
    PROVE  overtaken' \/ BeginEngage
  <1>1. CASE BeginEngage
    BY <1>1
  <1>2. CASE RefuseEngage
    BY <1>2 DEF RefuseEngage
  <1>3. CASE Cancelled
    BY <1>3 DEF Cancelled
  <1>4. CASE PauseToAlign
    BY <1>4 DEF PauseToAlign
  <1>5. CASE FloatToAlign
    BY <1>5 DEF FloatToAlign
  <1>6. CASE Align
    BY <1>6 DEF Align
  <1>7. CASE CommandFollower
    BY <1>7 DEF CommandFollower
  <1>8. CASE Enable
    BY <1>8 DEF Enable
  <1>9. CASE EnableFeedback
    BY <1>9 DEF EnableFeedback
  <1>10. CASE ResumeLive
    BY <1>10 DEF ResumeLive
  <1>11. CASE MarkEngaged
    BY <1>11 DEF MarkEngaged
  <1>12. CASE FinishEngage
    BY <1>12 DEF FinishEngage
  <1>13. CASE \E t \in Threads : EnterRollback(t)
    BY <1>13 DEF EnterRollback
  <1>14. CASE \E t \in Threads : RollBackFollower(t)
    BY <1>14 DEF RollBackFollower
  <1>15. CASE \E t \in Threads : RollBackLeader(t)
    BY <1>15 DEF RollBackLeader
  <1>16. CASE Disengage("stop")
    BY <1>16 DEF Disengage
  <1>17. CASE \E t \in {"stop", "session"} : CancelThenRollBack(t)
    BY <1>17 DEF CancelThenRollBack
  <1>18. CASE CancelEngage
    BY <1>18 DEF CancelEngage, threadVars
  <1>19. CASE RejectGain
    BY <1>19 DEF RejectGain
  <1>20. CASE CloseSession
    BY <1>20 DEF CloseSession
  <1>21. CASE ConnectSession
    BY <1>21 DEF ConnectSession
  <1>22. CASE Drained
    BY <1>22 DEF Drained
  <1>23. CASE CloseArms
    BY <1>23 DEF CloseArms
  <1>24. CASE ConnectFollower
    BY <1>24 DEF ConnectFollower
  <1>25. CASE PauseFollower
    BY <1>25 DEF PauseFollower
  <1>26. CASE ConnectLeader
    BY <1>26 DEF ConnectLeader
  <1>27. CASE FloatLeader
    BY <1>27 DEF FloatLeader
  <1>28. CASE AllowEngagement
    BY <1>28 DEF AllowEngagement
  <1>29. CASE AbortConnect
    BY <1>29 DEF AbortConnect
  <1>30. CASE \E a \in Arms : LoseArm(a)
    BY <1>30 DEF LoseArm, threadVars
  <1>31. CASE UNCHANGED teleopVars
    BY <1>31 DEF teleopVars, threadVars
  <1> QED
    BY <1>1, <1>2, <1>3, <1>4, <1>5, <1>6, <1>7, <1>8, <1>9, <1>10, <1>11,
       <1>12, <1>13, <1>14, <1>15, <1>16, <1>17, <1>18, <1>19, <1>20, <1>21,
       <1>22, <1>23, <1>24, <1>25, <1>26, <1>27, <1>28, <1>29, <1>30, <1>31
    DEF TeleopNext, EngageStep, StopStep, SessionStep, RollbackStep, Threads

(***************************************************************************)
(* Unless the late rollback of a rejected gain takes it, an admitted       *)
(* engagement keeps its rollback until it is cancelled, and an engaged     *)
(* pair keeps it altogether.                                               *)
(***************************************************************************)
LEMMA OwnedKept ==
    ASSUME Types, ControlInv, LockInv, OrderedRollbacks, EngagementInv,
           OwnedEngagement, ~overtaken', [TeleopNext]_teleopVars
    PROVE  OwnedEngagement'
  <1> USE DEF Threads, Unlocked, ThreadTypes, ControlInv, LockInv, InRollback,
              ArmsLocked, OrderedRollbacks, EngagementInv, OwnedEngagement, Admitted,
              Types
  <1>1. CASE BeginEngage
    BY <1>1 DEF BeginEngage, GotoStep
  <1>2. CASE RefuseEngage
    BY <1>2 DEF RefuseEngage, Rollback, GotoStep, armVars
  <1>3. CASE Cancelled
    BY <1>3 DEF Cancelled, Rollback, GotoStep, armVars
  <1>4. CASE PauseToAlign
    BY <1>4 DEF PauseToAlign, Proceed, Rollback, GotoStep, pairVars
  <1>5. CASE FloatToAlign
    BY <1>5 DEF FloatToAlign, Proceed, Rollback, GotoStep, pairVars, MayProceed
  <1>6. CASE Align
    BY <1>6
       DEF Align, Proceed, Rollback, GotoStep, armVars, pairVars, MayProceed
  <1>7. CASE CommandFollower
    BY <1>7 DEF CommandFollower, Proceed, Rollback, GotoStep, pairVars
  <1>8. CASE Enable
    <2>1. changed = {}
      BY <1>8 DEF Enable, MayProceed, BothCurrent, Current, ArmTypes
    <2> QED
      BY <1>8, <2>1 DEF Enable, GotoStep, armVars, pairVars, MayProceed
  <1>9. CASE EnableFeedback
    BY <1>9 DEF EnableFeedback, Proceed, Rollback, GotoStep, pairVars
  <1>10. CASE ResumeLive
    BY <1>10 DEF ResumeLive, Proceed, Rollback, GotoStep, pairVars
  <1>11. CASE MarkEngaged
    BY <1>11 DEF MarkEngaged, Proceed, Rollback, GotoStep, armVars
  <1>12. CASE FinishEngage
    BY <1>12 DEF FinishEngage, GotoStep, armVars
  <1>13. CASE \E t \in Threads : EnterRollback(t)
    <2>1. PICK t \in Threads : EnterRollback(t)
      BY <1>13
    <2> QED
      BY <2>1, ZenonT(60) DEF EnterRollback, MeetsAlignment, ReturnTo, GotoStep, armVars
  <1>14. CASE \E t \in Threads : RollBackFollower(t)
    <2>1. PICK t \in Threads : RollBackFollower(t)
      BY <1>14
    <2> QED
      BY <2>1 DEF RollBackFollower, SetLive, GotoStep, pairVars, Current
  <1>15. CASE \E t \in Threads : RollBackLeader(t)
    <2>1. PICK t \in Threads : RollBackLeader(t)
      BY <1>15
    <2> QED
      BY <2>1 DEF RollBackLeader, SetBilateral, ReturnTo, GotoStep, Current
  <1>16. CASE Disengage("stop")
    BY <1>16 DEF Disengage, GotoStep, armVars, pairVars
  <1>17. CASE \E t \in {"stop", "session"} : CancelThenRollBack(t)
    <2>1. PICK t \in {"stop", "session"} : CancelThenRollBack(t)
      BY <1>17
    <2> QED
      BY <2>1 DEF CancelThenRollBack, GotoStep, armVars
  <1>18. CASE CancelEngage
    BY <1>18 DEF CancelEngage, armVars, threadVars
  <1>19. CASE RejectGain
    BY <1>19 DEF RejectGain, Rollback, GotoStep, armVars, pairVars
  <1>20. CASE CloseSession
    BY <1>20 DEF CloseSession, Block, GotoStep, armVars
  <1>21. CASE ConnectSession
    BY <1>21 DEF ConnectSession, Block, GotoStep, armVars
  <1>22. CASE Drained
    BY <1>22 DEF Drained, GotoStep, armVars, pairVars
  <1>23. CASE CloseArms
    BY <1>23 DEF CloseArms, Closed, GotoStep, pairVars
  <1>24. CASE ConnectFollower
    BY <1>24 DEF ConnectFollower, ConnectArm, GotoStep, pairVars
  <1>25. CASE PauseFollower
    BY <1>25 DEF PauseFollower, GotoStep, pairVars
  <1>26. CASE ConnectLeader
    BY <1>26 DEF ConnectLeader, ConnectArm, GotoStep, pairVars
  <1>27. CASE FloatLeader
    BY <1>27 DEF FloatLeader, GotoStep, pairVars
  <1>28. CASE AllowEngagement
    BY <1>28 DEF AllowEngagement, GotoStep, armVars
  <1>29. CASE AbortConnect
    BY <1>29 DEF AbortConnect, Closed, GotoStep, pairVars
  <1>30. CASE \E a \in Arms : LoseArm(a)
    <2>1. PICK a \in Arms : LoseArm(a)
      BY <1>30
    <2> QED
      BY <2>1 DEF LoseArm, Idle, armVars, pairVars, threadVars
  <1>31. CASE UNCHANGED teleopVars
    BY <1>31 DEF teleopVars, armVars, pairVars, threadVars
  <1> QED
    BY <1>1, <1>2, <1>3, <1>4, <1>5, <1>6, <1>7, <1>8, <1>9, <1>10, <1>11,
       <1>12, <1>13, <1>14, <1>15, <1>16, <1>17, <1>18, <1>19, <1>20, <1>21,
       <1>22, <1>23, <1>24, <1>25, <1>26, <1>27, <1>28, <1>29, <1>30, <1>31
    DEF TeleopNext, EngageStep, StopStep, SessionStep, RollbackStep, Threads

(***************************************************************************)
(* A connected arm that follows or feeds back is the one the engagement    *)
(* recorded.                                                               *)
(***************************************************************************)
LEMMA RecordedKept ==
    ASSUME Types, EngagementInv, Recorded, [TeleopNext]_teleopVars
    PROVE  Recorded'
  <1> USE DEF Arms, Types, ArmTypes, EngagementInv, ArmsLocked, Recorded
  <1>1. CASE BeginEngage
    BY <1>1 DEF BeginEngage
  <1>2. CASE RefuseEngage
    BY <1>2 DEF RefuseEngage, armVars
  <1>3. CASE Cancelled
    BY <1>3 DEF Cancelled, armVars
  <1>4. CASE PauseToAlign
    BY <1>4 DEF PauseToAlign, SetLive, pairVars
  <1>5. CASE FloatToAlign
    BY <1>5 DEF FloatToAlign, SetBilateral, pairVars
  <1>6. CASE Align
    BY <1>6 DEF Align, armVars, pairVars
  <1>7. CASE CommandFollower
    BY <1>7 DEF CommandFollower, pairVars
  <1>8. CASE Enable
    BY <1>8 DEF Enable, armVars, pairVars, BothCurrent, Current
  <1>9. CASE EnableFeedback
    BY <1>9 DEF EnableFeedback, SetBilateral, pairVars
  <1>10. CASE ResumeLive
    BY <1>10 DEF ResumeLive, SetLive, pairVars
  <1>11. CASE MarkEngaged
    BY <1>11 DEF MarkEngaged, armVars
  <1>12. CASE FinishEngage
    BY <1>12 DEF FinishEngage, armVars
  <1>13. CASE \E t \in Threads : EnterRollback(t)
    <2>1. PICK t \in Threads : EnterRollback(t)
      BY <1>13
    <2> QED
      BY <2>1 DEF EnterRollback, ReturnTo, GotoStep, armVars
  <1>14. CASE \E t \in Threads : RollBackFollower(t)
    BY <1>14, FollowerLeg DEF RunTypes
  <1>15. CASE \E t \in Threads : RollBackLeader(t)
    BY <1>15, LeaderLeg
  <1>16. CASE Disengage("stop")
    BY <1>16 DEF Disengage, armVars, pairVars
  <1>17. CASE \E t \in {"stop", "session"} : CancelThenRollBack(t)
    <2>1. PICK t \in {"stop", "session"} : CancelThenRollBack(t)
      BY <1>17
    <2> QED
      BY <2>1 DEF CancelThenRollBack, GotoStep, armVars
  <1>18. CASE CancelEngage
    BY <1>18 DEF CancelEngage, armVars, threadVars
  <1>19. CASE RejectGain
    BY <1>19 DEF RejectGain, armVars, pairVars
  <1>20. CASE CloseSession
    BY <1>20 DEF CloseSession, armVars
  <1>21. CASE ConnectSession
    BY <1>21 DEF ConnectSession, armVars
  <1>22. CASE Drained
    BY <1>22 DEF Drained, armVars, pairVars
  <1>23. CASE CloseArms
    BY <1>23 DEF CloseArms, Closed, Idle, pairVars
  <1>24. CASE ConnectFollower
    BY <1>24 DEF ConnectFollower, ConnectArm, Idle, pairVars
  <1>25. CASE PauseFollower
    BY <1>25 DEF PauseFollower, SetLive, pairVars
  <1>26. CASE ConnectLeader
    BY <1>26 DEF ConnectLeader, ConnectArm, Idle, pairVars
  <1>27. CASE FloatLeader
    BY <1>27 DEF FloatLeader, SetBilateral, pairVars
  <1>28. CASE AllowEngagement
    BY <1>28 DEF AllowEngagement, armVars
  <1>29. CASE AbortConnect
    BY <1>29 DEF AbortConnect, Closed, Idle, pairVars
  <1>30. CASE \E a \in Arms : LoseArm(a)
    <2>1. PICK a \in Arms : LoseArm(a)
      BY <1>30
    <2> QED
      BY <2>1 DEF LoseArm, Idle, armVars, pairVars, threadVars
  <1>31. CASE UNCHANGED teleopVars
    BY <1>31 DEF teleopVars, armVars, pairVars, threadVars
  <1> QED
    BY <1>1, <1>2, <1>3, <1>4, <1>5, <1>6, <1>7, <1>8, <1>9, <1>10, <1>11,
       <1>12, <1>13, <1>14, <1>15, <1>16, <1>17, <1>18, <1>19, <1>20, <1>21,
       <1>22, <1>23, <1>24, <1>25, <1>26, <1>27, <1>28, <1>29, <1>30, <1>31
    DEF TeleopNext, EngageStep, StopStep, SessionStep, RollbackStep, Threads

(***************************************************************************)
(* An arm that leaves its safe state always has someone to put it back.    *)
(***************************************************************************)
LEMMA AttendedKept ==
    ASSUME Types, ControlInv, LockInv, EngagementInv, OwnedEngagement, Recorded,
           Attended, [TeleopNext]_teleopVars
    PROVE  Attended'
  <1> USE DEF Threads, Arms, Types, ArmTypes, ThreadTypes, ControlInv, LockInv,
              OwnedEngagement, ArmsLocked, Admitted, Recorded, Attended,
              InRollback, UnsafeFollower, UnsafeLeader, Unlocked
  <1>1. CASE BeginEngage
    BY <1>1 DEF BeginEngage, GotoStep
  <1>2. CASE RefuseEngage
    BY <1>2 DEF RefuseEngage, Rollback, GotoStep, armVars
  <1>3. CASE Cancelled
    BY <1>3 DEF Cancelled, Rollback, GotoStep, armVars
  <1>4. CASE PauseToAlign
    BY <1>4, ZenonT(60)
       DEF PauseToAlign, SetLive, Proceed, Rollback, GotoStep, pairVars
  <1>5. CASE FloatToAlign
    BY <1>5
       DEF FloatToAlign, SetBilateral, Proceed, Rollback, GotoStep, pairVars,
           MayProceed
  <1>6. CASE Align
    BY <1>6
       DEF Align, Proceed, Rollback, GotoStep, armVars, pairVars, MayProceed
  <1>7. CASE CommandFollower
    BY <1>7 DEF CommandFollower, Proceed, Rollback, GotoStep, pairVars
  <1>8. CASE Enable
    BY <1>8
       DEF Enable, GotoStep, armVars, pairVars, MayProceed, BothCurrent, Current
  <1>9. CASE EnableFeedback
    BY <1>9
       DEF EnableFeedback, SetBilateral, Proceed, Rollback, GotoStep, pairVars
  <1>10. CASE ResumeLive
    BY <1>10 DEF ResumeLive, SetLive, Proceed, Rollback, GotoStep, pairVars
  <1>11. CASE MarkEngaged
    BY <1>11 DEF MarkEngaged, Proceed, Rollback, GotoStep, armVars
  <1>12. CASE FinishEngage
    BY <1>12 DEF FinishEngage, GotoStep, armVars
  <1>13. CASE \E t \in Threads : EnterRollback(t)
    <2>1. PICK t \in Threads : EnterRollback(t)
      BY <1>13
    <2> QED
      BY <2>1 DEF EnterRollback, ReturnTo, GotoStep, armVars
  <1>14. CASE \E t \in Threads : RollBackFollower(t)
    <2>1. PICK t \in Threads : RollBackFollower(t)
      BY <1>14
    <2>2. at[t] = "rbFollower" /\ at' = [at EXCEPT ![t] = "rbLeader"] /\ needs' = needs
      BY <2>1 DEF RollBackFollower, GotoStep, pairVars
    <2>3. /\ conn' = conn /\ changed' = changed /\ bilateral' = bilateral
          /\ live' => live
          /\ moving' => moving
          /\ Current("follower") => failed' \/ (~live' /\ ~moving')
      BY <2>1, FollowerLeg DEF RunTypes
    <2> QED
      BY <2>2, <2>3 DEF Current
  <1>15. CASE \E t \in Threads : RollBackLeader(t)
    <2>1. PICK t \in Threads : RollBackLeader(t)
      BY <1>15
    <2>2. /\ at[t] = "rbLeader" /\ at' = [at EXCEPT ![t] = ret[t]] /\ cleanup' = Unlocked
          /\ cancel' = cancel
      BY <2>1 DEF RollBackLeader, ReturnTo, GotoStep
    <2>3. /\ conn' = conn /\ changed' = changed /\ live' = live /\ moving' = moving
          /\ bilateral' => bilateral
          /\ needs \/ failed => needs'
          /\ Current("leader") => needs' \/ ~bilateral'
      BY <2>1, LeaderLeg
    <2>4. cleanup = t /\ \A u \in Threads : u # t => ~InRollback(u)
      BY <2>2
    <2> QED
      BY <2>2, <2>3, <2>4 DEF Current
  <1>16. CASE Disengage("stop")
    BY <1>16 DEF Disengage, GotoStep, armVars, pairVars
  <1>17. CASE \E t \in {"stop", "session"} : CancelThenRollBack(t)
    <2>1. PICK t \in {"stop", "session"} : CancelThenRollBack(t)
      BY <1>17
    <2> QED
      BY <2>1 DEF CancelThenRollBack, GotoStep, armVars
  <1>18. CASE CancelEngage
    BY <1>18 DEF CancelEngage, armVars, threadVars
  <1>19. CASE RejectGain
    BY <1>19 DEF RejectGain, Rollback, GotoStep, armVars, pairVars
  <1>20. CASE CloseSession
    BY <1>20 DEF CloseSession, Block, GotoStep, armVars
  <1>21. CASE ConnectSession
    BY <1>21 DEF ConnectSession, Block, GotoStep, armVars
  <1>22. CASE Drained
    BY <1>22 DEF Drained, GotoStep, armVars, pairVars
  <1>23. CASE CloseArms
    BY <1>23, ZenonT(60) DEF CloseArms, Closed, Idle, GotoStep, pairVars
  <1>24. CASE ConnectFollower
    <2> HIDE DEF UnsafeFollower, UnsafeLeader
    <2>1. /\ UnsafeFollower' => UnsafeFollower
          /\ UnsafeLeader' => UnsafeLeader
          /\ at["session"] \in {"connectFollower", "connectLeader"}
          /\ \E x \in {"pauseFollower", "connectLeader", "floatLeader", "finish",
                      "abort"} :
                at' = [at EXCEPT !["session"] = x]
      BY <1>24, ConnectSteps
    <2>2. needs' = needs /\ failed' = failed /\ cancel' = cancel
      BY <1>24 DEF ConnectFollower, pairVars
    <2> QED
      BY <2>1, <2>2
  <1>25. CASE PauseFollower
    BY <1>25 DEF PauseFollower, SetLive, GotoStep, pairVars
  <1>26. CASE ConnectLeader
    <2> HIDE DEF UnsafeFollower, UnsafeLeader
    <2>1. /\ UnsafeFollower' => UnsafeFollower
          /\ UnsafeLeader' => UnsafeLeader
          /\ at["session"] \in {"connectFollower", "connectLeader"}
          /\ \E x \in {"pauseFollower", "connectLeader", "floatLeader", "finish",
                      "abort"} :
                at' = [at EXCEPT !["session"] = x]
      BY <1>26, ConnectSteps
    <2>2. needs' = needs /\ failed' = failed /\ cancel' = cancel
      BY <1>26 DEF ConnectLeader, pairVars
    <2> QED
      BY <2>1, <2>2
  <1>27. CASE FloatLeader
    BY <1>27 DEF FloatLeader, SetBilateral, GotoStep, pairVars
  <1>28. CASE AllowEngagement
    BY <1>28 DEF AllowEngagement, GotoStep, armVars
  <1>29. CASE AbortConnect
    BY <1>29 DEF AbortConnect, Closed, Idle, GotoStep, pairVars
  <1>30. CASE \E a \in Arms : LoseArm(a)
    <2>1. PICK a \in Arms : LoseArm(a)
      BY <1>30
    <2> QED
      BY <2>1 DEF LoseArm, Idle, armVars, pairVars, threadVars
  <1>31. CASE UNCHANGED teleopVars
    BY <1>31 DEF teleopVars, armVars, pairVars, threadVars
  <1> QED
    BY <1>1, <1>2, <1>3, <1>4, <1>5, <1>6, <1>7, <1>8, <1>9, <1>10, <1>11,
       <1>12, <1>13, <1>14, <1>15, <1>16, <1>17, <1>18, <1>19, <1>20, <1>21,
       <1>22, <1>23, <1>24, <1>25, <1>26, <1>27, <1>28, <1>29, <1>30, <1>31
    DEF TeleopNext, EngageStep, StopStep, SessionStep, RollbackStep, Threads

(***************************************************************************)
(* A step while engagement is blocked and drained starts nothing.          *)
(***************************************************************************)
LEMMA BlockedStep ==
    ASSUME GateInv, [TeleopNext]_teleopVars
    PROVE  BlockedMeansBlocked
  <1> USE DEF GateInv, Types, ArmTypes, BlockInv, ArmsLocked,
              BlockedMeansBlocked
  <1>1. CASE BeginEngage
    BY <1>1 DEF BeginEngage
  <1>2. CASE RefuseEngage
    BY <1>2 DEF RefuseEngage, armVars
  <1>3. CASE Cancelled
    BY <1>3 DEF Cancelled, armVars
  <1>4. CASE PauseToAlign
    BY <1>4, PauseEffect DEF PauseToAlign
  <1>5. CASE FloatToAlign
    BY <1>5, FloatEffect DEF FloatToAlign
  <1>6. CASE Align
    BY <1>6 DEF Align, armVars, pairVars
  <1>7. CASE CommandFollower
    BY <1>7 DEF CommandFollower, pairVars
  <1>8. CASE Enable
    BY <1>8 DEF Enable, armVars, pairVars
  <1>9. CASE EnableFeedback
    BY <1>9 DEF EnableFeedback, SetBilateral, pairVars
  <1>10. CASE ResumeLive
    BY <1>10 DEF ResumeLive, SetLive, pairVars
  <1>11. CASE MarkEngaged
    BY <1>11 DEF MarkEngaged, armVars
  <1>12. CASE FinishEngage
    BY <1>12 DEF FinishEngage, armVars
  <1>13. CASE \E t \in Threads : EnterRollback(t)
    BY <1>13 DEF EnterRollback, armVars
  <1>14. CASE \E t \in Threads : RollBackFollower(t)
    BY <1>14, FollowerLeg DEF RunTypes
  <1>15. CASE \E t \in Threads : RollBackLeader(t)
    BY <1>15, LeaderLeg
  <1>16. CASE Disengage("stop")
    BY <1>16 DEF Disengage, armVars, pairVars
  <1>17. CASE \E t \in {"stop", "session"} : CancelThenRollBack(t)
    BY <1>17 DEF CancelThenRollBack, armVars
  <1>18. CASE CancelEngage
    BY <1>18 DEF CancelEngage, armVars, threadVars
  <1>19. CASE RejectGain
    BY <1>19 DEF RejectGain, armVars, pairVars
  <1>20. CASE CloseSession
    BY <1>20 DEF CloseSession, armVars
  <1>21. CASE ConnectSession
    BY <1>21 DEF ConnectSession, armVars
  <1>22. CASE Drained
    BY <1>22 DEF Drained, armVars, pairVars
  <1>23. CASE CloseArms
    BY <1>23 DEF CloseArms, Closed, Idle, pairVars
  <1>24. CASE ConnectFollower
    BY <1>24 DEF ConnectFollower, ConnectArm, Idle, pairVars
  <1>25. CASE PauseFollower
    BY <1>25, PauseEffect DEF PauseFollower
  <1>26. CASE ConnectLeader
    BY <1>26 DEF ConnectLeader, ConnectArm, Idle, pairVars
  <1>27. CASE FloatLeader
    BY <1>27, FloatEffect DEF FloatLeader
  <1>28. CASE AllowEngagement
    BY <1>28 DEF AllowEngagement, armVars
  <1>29. CASE AbortConnect
    BY <1>29 DEF AbortConnect, Closed, Idle, pairVars
  <1>30. CASE \E a \in Arms : LoseArm(a)
    BY <1>30 DEF LoseArm, Idle, pairVars, threadVars
  <1>31. CASE UNCHANGED teleopVars
    BY <1>31 DEF teleopVars, armVars, pairVars, threadVars
  <1> QED
    BY <1>1, <1>2, <1>3, <1>4, <1>5, <1>6, <1>7, <1>8, <1>9, <1>10, <1>11,
       <1>12, <1>13, <1>14, <1>15, <1>16, <1>17, <1>18, <1>19, <1>20, <1>21,
       <1>22, <1>23, <1>24, <1>25, <1>26, <1>27, <1>28, <1>29, <1>30, <1>31
    DEF TeleopNext, EngageStep, StopStep, SessionStep, RollbackStep, Threads

(***************************************************************************)
(* The first part of the invariant holds initially.                        *)
(***************************************************************************)
LEMMA GateInit == TeleopInit => GateInv
  <1> SUFFICES ASSUME TeleopInit PROVE GateInv
    OBVIOUS
  <1>1. ArmTypes /\ PairTypes
    BY DEF TeleopInit, ArmTypes, PairTypes
  <1>2. ThreadTypes
    BY Labels DEF TeleopInit, ThreadTypes
  <1>3. RunTypes
    <2>1. AlignSteps \in Nat
      BY AlignAssumption
    <2>2. failed \in BOOLEAN /\ overtaken \in BOOLEAN
      BY Zenon DEF TeleopInit
    <2> QED
      BY <2>1, <2>2 DEF TeleopInit, RunTypes
  <1>4. ControlInv /\ LockInv /\ BlockInv
    BY DEF TeleopInit, ControlInv, LockInv, BlockInv, InRollback, ArmsLocked,
           Threads, Unlocked
  <1> QED
    BY <1>1, <1>2, <1>3, <1>4 DEF GateInv, Types

(***************************************************************************)
(* The first part of the invariant is inductive.                           *)
(***************************************************************************)
LEMMA GateNext == GateInv /\ [TeleopNext]_teleopVars => GateInv'
  <1> SUFFICES ASSUME GateInv, [TeleopNext]_teleopVars PROVE GateInv'
    OBVIOUS
  <1>1. ArmTypes /\ PairTypes /\ ThreadTypes /\ RunTypes /\ ControlInv /\ LockInv /\ BlockInv
    BY DEF GateInv, Types
  <1>2. ArmTypes' /\ PairTypes'
    BY <1>1, ArmTypesKept, PairTypesKept
  <1>3. ThreadTypes' /\ RunTypes'
    BY <1>1, ThreadTypesKept, RunTypesKept
  <1>4. ControlInv' /\ LockInv' /\ BlockInv'
    BY <1>1, ControlKept, LockKept, BlockKept
  <1> QED
    BY <1>2, <1>3, <1>4 DEF GateInv, Types

(***************************************************************************)
(* The first part of the invariant holds in every behaviour.               *)
(***************************************************************************)
LEMMA GateAlways == TeleopSpec => []GateInv
  BY GateInit, GateNext, PTL DEF TeleopSpec

(***************************************************************************)
(* The parts of the types make up the type invariant.                      *)
(***************************************************************************)
LEMMA GateTypes == GateInv => TeleopTypeOK
  BY DEF GateInv, Types, ArmTypes, PairTypes, ThreadTypes, RunTypes,
         TeleopTypeOK

(***************************************************************************)
(* The whole invariant holds initially.                                    *)
(***************************************************************************)
LEMMA PairInit == TeleopInit => PairInv
  <1> SUFFICES ASSUME TeleopInit PROVE PairInv
    OBVIOUS
  <1>1. OrderedRollbacks /\ EngagementInv /\ OwnedEngagement
    BY DEF TeleopInit, OrderedRollbacks, EngagementInv, OwnedEngagement, Admitted,
           ArmsLocked, Threads
  <1>2. Recorded /\ Attended
    BY DEF TeleopInit, Recorded, Attended, UnsafeFollower, UnsafeLeader, Arms
  <1> QED
    BY <1>1, <1>2, GateInit DEF PairInv

(***************************************************************************)
(* The whole invariant is inductive.                                       *)
(***************************************************************************)
LEMMA PairNext == PairInv /\ [TeleopNext]_teleopVars => PairInv'
  <1> SUFFICES ASSUME PairInv, [TeleopNext]_teleopVars PROVE PairInv'
    OBVIOUS
  <1>1. /\ GateInv /\ OrderedRollbacks /\ EngagementInv /\ Recorded
        /\ Types /\ ThreadTypes /\ ControlInv /\ LockInv
        /\ overtaken \/ (OwnedEngagement /\ Attended)
    BY DEF PairInv, GateInv, Types
  <1>2. GateInv' /\ OrderedRollbacks' /\ EngagementInv' /\ Recorded'
    BY <1>1, GateNext, OrderKept, EngagementKept, RecordedKept
  <1>3. overtaken' \/ (OwnedEngagement' /\ Attended')
    <2>1. CASE BeginEngage
      BY <2>1
      DEF BeginEngage, GotoStep, ThreadTypes, OwnedEngagement, Attended,
          ArmsLocked, Threads
    <2>2. CASE overtaken /\ ~BeginEngage
      BY <2>2, OvertakenKept
    <2>3. CASE OwnedEngagement /\ Attended
      BY <1>1, <2>3, OwnedKept, AttendedKept
    <2> QED
      BY <1>1, <2>1, <2>2, <2>3
  <1> QED
    BY <1>2, <1>3 DEF PairInv

(***************************************************************************)
(* What the pair promises of a state.                                      *)
(***************************************************************************)
PairState == TeleopTypeOK /\ (overtaken \/ (DisengagedIsSafe /\ EngagedCanRollBack))

(***************************************************************************)
(* The invariant implies what the pair promises of a state.                *)
(***************************************************************************)
LEMMA PairIsSafeState == PairInv => PairState
  <1> SUFFICES ASSUME PairInv PROVE PairState
    OBVIOUS
  <1>1. TeleopTypeOK
    BY GateTypes DEF PairInv
  <1>2. ASSUME ~overtaken PROVE EngagedCanRollBack
    BY <1>2 DEF PairInv, OwnedEngagement, EngagedCanRollBack
  <1>3. ASSUME ~overtaken PROVE DisengagedIsSafe
    <2>1. ASSUME ~inProgress, ~needs, cleanup = Unlocked
          PROVE  ~UnsafeFollower /\ ~UnsafeLeader
      <3>1. \A t \in Threads : ~InRollback(t)
        BY <2>1 DEF PairInv, GateInv, LockInv, Threads, Unlocked
      <3>2. ~Admitted
        BY <2>1 DEF PairInv, EngagementInv
      <3> QED
        BY <1>3, <2>1, <3>1, <3>2 DEF PairInv, Attended, InRollback, Admitted
    <2> QED
      BY <2>1 DEF DisengagedIsSafe, UnsafeFollower, UnsafeLeader, Current
  <1> QED
    BY <1>1, <1>2, <1>3 DEF PairState

(***************************************************************************)
(* All variables of the pair and the session keep their types, for every   *)
(* length of the alignment.                                                *)
(***************************************************************************)
THEOREM TeleopTypes == TeleopSpec => []TeleopTypeOK
  BY GateAlways, GateTypes, PTL

(***************************************************************************)
(* _block_engagement() keeps its promise, with or without the race of a    *)
(* rejected gain: once a closing or reconnecting session has waited for    *)
(* the transition under way, no thread starts the stream or the force      *)
(* feedback.                                                               *)
(***************************************************************************)
THEOREM BlockedStaysBlocked == TeleopSpec => [][BlockedMeansBlocked]_teleopVars
  <1>1. GateInv /\ [TeleopNext]_teleopVars => [BlockedMeansBlocked]_teleopVars
    BY BlockedStep
  <1> QED
    BY <1>1, GateAlways, PTL DEF TeleopSpec

(***************************************************************************)
(* TeleopPair is safe whenever it is not engaged and nothing is left to    *)
(* clean up, an engaged pair can be rolled back, and a blocked pair stays  *)
(* as it is, for every interleaving of engage(), disengage(), a rejected   *)
(* gain and the session with arms that fail.  The one exception is the     *)
(* engagement whose alignment met the late rollback of a rejected gain     *)
(* (overtaken): no other order of the calls breaks the promise, and the    *)
(* next engagement restores it.                                            *)
(***************************************************************************)
THEOREM SafePair == TeleopSpec => PairIsSafe
  <1>1. PairInv /\ [TeleopNext]_teleopVars => [BlockedMeansBlocked /\ PairState']_teleopVars
    <2> SUFFICES ASSUME PairInv, [TeleopNext]_teleopVars
                 PROVE  BlockedMeansBlocked /\ PairState'
      OBVIOUS
    <2>1. BlockedMeansBlocked
      BY BlockedStep DEF PairInv
    <2>2. PairInv'
      BY PairNext
    <2>3. PairState'
      BY <2>2, PairIsSafeState, PTL
    <2> QED
      BY <2>1, <2>3
  <1>2. TeleopSpec => [][BlockedMeansBlocked /\ PairState']_teleopVars
    BY <1>1, PairInit, PairNext, PTL DEF TeleopSpec
  <1>3. (BlockedMeansBlocked /\ PairState') =>
            /\ BlockedMeansBlocked
            /\ (TeleopTypeOK /\ (overtaken \/ (DisengagedIsSafe /\ EngagedCanRollBack)))'
    BY DEF PairState
  <1> QED
    BY <1>2, <1>3, PTL DEF PairIsSafe

=============================================================================
