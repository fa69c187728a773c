---------------------------- MODULE ModelProvider ----------------------------
(***************************************************************************)
(* AnthropicProvider and CostCalculator: what one answer of the API means   *)
(* to the rest of DevMind, and what it costs.                              *)
(*                                                                         *)
(* An answer is a record: `stop`, the stop_reason as the API sent it;      *)
(* `blocks`, the content in order, each [type, call, decodes] where only   *)
(* a tool_use block has a call and may fail to decode; `usage`, the token  *)
(* counts the API reported, some of which may be missing.                  *)
(***************************************************************************)
EXTENDS Integers, Sequences

CONSTANTS
    Pricing,        \* model -> [input, output], the price of one token
    AgentModel      \* Settings.agent_model

ASSUME PricingAssumption ==
    /\ AgentModel \in DOMAIN Pricing
    /\ \A m \in DOMAIN Pricing : Pricing[m] \in [input : Nat, output : Nat]

StopReasons == {"end_turn", "tool_use", "max_tokens", "pause_turn", "refusal",
                "stop_sequence"}

\* A stop_reason the client does not know ends the turn.
StopReason(reply) == IF reply.stop \in StopReasons THEN reply.stop ELSE "end_turn"

\* A tool_use block without an id, a name or an object for its arguments makes
\* the whole answer unusable: LLMProviderError.
Malformed(reply) ==
    \E i \in DOMAIN reply.blocks :
        reply.blocks[i].type = "tool_use" /\ ~reply.blocks[i].decodes

\* The calls of an answer in their order; the number of its block stands for the id of
\* a call, which is what its result is known by.
ToolCalls(reply) ==
    LET uses == {i \in DOMAIN reply.blocks : reply.blocks[i].type = "tool_use"}
    IN  [i \in uses |-> reply.blocks[i].call]

\* A count the API left out is nought.
Count(reply, key) == IF key \in DOMAIN reply.usage THEN reply.usage[key] ELSE 0

\* Cache reads are billed at a tenth of the input price, cache writes at five
\* quarters of it.
CostFor(reply) ==
    LET price == Pricing[AgentModel]
    IN  Count(reply, "input") * price.input
        + Count(reply, "cache_read") * (price.input \div 10)
        + Count(reply, "cache_creation") * ((5 * price.input) \div 4)
        + Count(reply, "output") * price.output
=============================================================================
