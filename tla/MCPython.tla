------------------------------ MODULE MCPython ------------------------------
(***************************************************************************)
(* Small instances of the Python side: an arm's backend, used by one       *)
(* thread of the application and one that engages and disengages the pair, *)
(* with one reconnection, two requests beside close() and topics that hold *)
(* one message; and a pair of arms, with one alignment step, where         *)
(* engagements, connections and failures are unbounded.  A behaviour is    *)
(* about one of them; the other keeps its first state.                     *)
(***************************************************************************)
EXTENDS Client, Teleop

CONSTANT Units  \* the parts to check, of "arm" and "pair"

VARIABLE unit

MCInit ==
    /\ unit \in Units
    /\ unit = "pair" => role = "follower"
    /\ Init /\ TeleopInit

MCVars == <<vars, teleopVars, unit>>
ArmTurn == unit = "arm" /\ Next /\ UNCHANGED <<teleopVars, unit>>
PairTurn == unit = "pair" /\ TeleopNext /\ UNCHANGED <<vars, unit>>

\* The fairness of the two specifications.
MCFairness ==
    /\ \A u \in Users : WF_vars(unit = "arm" /\ CallStep(u))
    /\ WF_vars(unit = "arm" /\ ReaderStep)
    /\ WF_teleopVars(unit = "pair" /\ EngageStep)
    /\ WF_teleopVars(unit = "pair" /\ StopStep)
    /\ SF_teleopVars(unit = "pair" /\ SessionStep)
MCSpec == MCInit /\ [][ArmTurn \/ PairTurn]_MCVars /\ MCFairness

(***************************************************************************)
(* Every call ends.  A call on an arm ends by success or by an exception,  *)
(* also when the node never answers, dies, or READY_NOW was published      *)
(* before the subscriber joined, close() in particular.  A session's       *)
(* connect() and close() end, so that a teardown reaches the arms: an      *)
(* alignment, an engagement being enabled, another thread's rollback and   *)
(* failing arms do not keep the cleanup lock or the arms' locks from it    *)
(* for ever (close(): "Teardown must always reach arm.close()").           *)
(***************************************************************************)
Busy(u) == pc[u] # "idle" \/ (u \in Callers /\ at["session"] # "idle")
CallsEnd == \A u \in Users : Busy(u) ~> ~Busy(u)
=============================================================================
