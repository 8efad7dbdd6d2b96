-------------------------- MODULE ConnectorContract --------------------------
(* What the gateway relies on in every field connector (connectors/connector.py *)
(* and the way novena_gateway.py and rpc_handler.py use it): it is opened once, *)
(* hands each reading to storage at most once and none after its threads have   *)
(* ended, returns from every call to server_side_rpc_handler, and ends when it  *)
(* is closed.  The connectors' modules implement this specification.            *)
EXTENDS Naturals

CONSTANTS Readings, Calls

VARIABLES life,  \* "new", "running", "stopping" (close was called), "closed"
          fate,  \* of each reading: "unread", "held" by the connector, "stored", "lost"
          call   \* of each RPC: "none", "open", "answered"

contractVars == <<life, fate, call>>

ContractInit ==
    /\ life = "new"
    /\ fate = [r \in Readings |-> "unread"]
    /\ call = [c \in Calls |-> "none"]

Open == life = "new" /\ life' = "running" /\ UNCHANGED <<fate, call>>

Close == life = "running" /\ life' = "stopping" /\ UNCHANGED <<fate, call>>

(* The threads end; a reading still held is lost with them.                    *)
ThreadsEnd == life = "stopping" /\ life' = "closed" /\ UNCHANGED <<fate, call>>

Alive == life \in {"running", "stopping"}

\* One step may settle several readings, some stored and some lost.
Settle ==
    /\ Alive /\ fate' # fate
    /\ \A r \in Readings :
         fate'[r] = fate[r] \/ (fate[r] = "held" /\ fate'[r] \in {"stored", "lost"})
    /\ fate' \in [Readings -> {"unread", "held", "stored", "lost"}]
    /\ UNCHANGED <<life, call>>

Take(r) == Alive /\ fate[r] = "unread" /\ fate' = [fate EXCEPT ![r] = "held"]
                 /\ UNCHANGED <<life, call>>

Ask(c) == life # "new" /\ call[c] = "none" /\ call' = [call EXCEPT ![c] = "open"]
                       /\ UNCHANGED <<life, fate>>

Answer(c) == call[c] = "open" /\ call' = [call EXCEPT ![c] = "answered"]
                              /\ UNCHANGED <<life, fate>>

ContractNext ==
    \/ Open \/ Close \/ ThreadsEnd \/ Settle
    \/ \E r \in Readings : Take(r)
    \/ \E c \in Calls : Ask(c) \/ Answer(c)

CallsEnd == \A c \in Calls : call[c] = "open" ~> call[c] = "answered"
CloseEnds == life = "stopping" ~> life = "closed"

ContractSpec == ContractInit /\ [][ContractNext]_contractVars /\ CallsEnd /\ CloseEnds

=============================================================================
