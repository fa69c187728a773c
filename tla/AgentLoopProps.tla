---------------------------- MODULE AgentLoopProps ----------------------------
(* What the plan and the agent's phases must keep true.                    *)
EXTENDS AgentLoop

\* The types of the session's columns and of the loop's locals.
TypeOK ==
    /\ halted \in BOOLEAN
    /\ spent \in Nat
    /\ plan \in Seq({"step", "label", "blank"}) /\ planText \in Seq({"step"})
    /\ tree \in [Files -> Nat]
    /\ k \in 0..Len(Phases)
    /\ pc \in {"planning", "replanning", "idle", "model", "tools", "done"}
    /\ steps \in 0..(StepBudget - 1)
    /\ DOMAIN blocks = DOMAIN calls /\ waiting \subseteq DOMAIN calls
    /\ \A j \in DOMAIN messages :
          messages[j].role \in {"instruction", "assistant", "user", "anchor"}
    /\ outcome \in {"none", "completed", "finished", "failed", "cancelled", "no_plan",
                    "budget_exhausted", "over_ceiling", "provider_error"}
    /\ (pc = "done") <=> (outcome # "none")

\* Whatever the model asked for, whatever became of it, and wherever the context
\* was compacted: in what is sent to the model every turn with calls is followed
\* by one message with one result for each of them, and no result stands
\* anywhere else (AgentContext.extend; the API refuses anything else).
PairedResults ==
    pc = "model" =>
        \A j \in DOMAIN messages :
            /\ messages[j].role = "assistant" =>
                  /\ j + 1 \in DOMAIN messages /\ messages[j + 1].role = "user"
                  /\ DOMAIN messages[j + 1].results = DOMAIN messages[j].calls
            /\ messages[j].role = "user" =>
                  j > 1 /\ messages[j - 1].role = "assistant"

\* The ceiling is looked at before a call whose price is known only after it: a
\* session, over all its phases, has less than the ceiling and the price of one
\* call on its books (AgentLoop._check_cost_ceiling).
OvershootIsOneCall ==
    spent < CostCeiling \/ \E last \in Replies : spent < CostCeiling + CostFor(last)

\* The loop keeps within its limits: steps, plan items and, but for one call, cost.
WithinLimits == TypeOK /\ OvershootIsOneCall

\* After a compaction the transcript no longer shows a file as it was before an
\* edit that a tool made later (AgentContext.drop_superseded_reads).
StaleReadsGo ==
    (pc = "model" /\ messages[Len(messages)].role = "anchor") =>
        \A j, l \in DOMAIN messages :
            (j < l /\ messages[j].role = "user" /\ messages[l].role = "user") =>
                \A r \in DOMAIN messages[j].results, w \in DOMAIN messages[l].results :
                    LET read  == messages[j - 1].calls[r]
                        write == messages[l - 1].calls[w]
                    IN  (/\ read.tool = "read_file" /\ messages[j].results[r].ok
                         /\ write.tool \in Writers /\ messages[l].results[w].ok
                         /\ read.path = write.path)
                        => messages[j].results[r].dropped

\* Every phase that was entered ends: completed, out of steps, over its ceiling,
\* cancelled or failed.
PhaseEnds == [](pc = "model" => <>(pc = "done"))

\* "The plan and diff above are current" (agent_context.py:107): the plan that a
\* compaction repeats is the plan the session has.
AnchorIsCurrent ==
    (pc = "model" /\ messages[Len(messages)].role = "anchor") =>
        messages[Len(messages)].plan = plan
=============================================================================
