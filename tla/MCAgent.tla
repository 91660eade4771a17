------------------------------ MODULE MCAgent ------------------------------
(* The agent process on a small instance: the streams of one run, and the     *)
(* model client of one stream.  They share no state as modelled and are       *)
(* explored apart; the fairness is that of the streams.                       *)
EXTENDS AgentRuntime, LlmFailover
CONSTANTS s1, s2, s3, s4

VARIABLE part
agentVars == <<vars, failoverVars, part>>

RuntimePath == <<"briefing", "critic", "memo_gate">>
FourKeys == <<"gemini", "gemini", "openai", "grok">>

AgentInit ==
    /\ Init /\ FailoverInit /\ part \in {"runtime", "failover"}
    /\ part = "runtime" => broke = {} /\ unusable = {}

AgentNext ==
    \/ part = "runtime" /\ Next /\ UNCHANGED <<failoverVars, part>>
    \/ part = "failover" /\ FailoverNext /\ UNCHANGED <<vars, part>>

\* Boot stays possible where only the model client is explored, so fairness is
\* asked of the streams' part alone.
AgentSpec ==
    /\ AgentInit /\ [][AgentNext]_agentVars
    /\ WF_vars(part = "runtime" /\ Boot)
    /\ \A s \in Streams : WF_vars(part = "runtime" /\ Serve(s))
=============================================================================
