------------------------------ MODULE AgentLoop ------------------------------
(***************************************************************************)
(* What the language model does in a session: PlannerService.create_plan(), *)
(* then the phases, AgentLoop.run() with its AgentContext,                  *)
(* ContextCompactor and ToolExecutor.  SessionLifecycle has each of these   *)
(* as a single await; here they are conversations.                         *)
(*                                                                         *)
(* A call is [tool, path, fate, items]: the tool's name, the file it is     *)
(* about, what becomes of it (its arguments are "invalid", the tool "fails" *)
(* with an error of its own, or it "works"), and the items of a todo_write: *)
(* each an actionable "step", a terse "label" or a "blank".  A file is the  *)
(* number of times it was changed.                                         *)
(***************************************************************************)
EXTENDS ModelProvider, SequencesExt

CONSTANTS
    Files,          \* the files of the workspace
    Replies,        \* the answers the model may give
    Phases,         \* the phases of the run, in order
    StepBudget,     \* AGENT_STEP_BUDGET
    CostCeiling,    \* Settings.session_cost_ceiling_usd, in units of Pricing
    TriggerTokens,  \* ContextCompactor.trigger_tokens, in units of Weight
    MinItems,       \* PLANNER_MIN_ITEMS
    MaxItems        \* PLANNER_MAX_ITEMS

ASSUME LoopAssumption ==
    /\ StepBudget \in Nat \ {0} /\ CostCeiling \in Nat \ {0} /\ TriggerTokens \in Nat
    /\ MinItems \in Nat \ {0} /\ MaxItems \in Nat
    /\ Phases \in Seq({"investigation", "editing"}) /\ Phases # <<>>

\* What the client's types promise of an answer.
ASSUME RepliesAssumption ==
    \A reply \in Replies :
        /\ Len(reply.blocks) \in Nat /\ DOMAIN reply.blocks = 1..Len(reply.blocks)
        /\ \A i \in DOMAIN ToolCalls(reply) :
              ToolCalls(reply)[i].items \in Seq({"step", "label", "blank"})
        /\ \A key \in DOMAIN reply.usage : reply.usage[key] \in Nat

VARIABLES
    halted,     \* somebody cancelled the session
    spent,      \* sessions.estimated_cost_usd
    tree,       \* the workspace: file -> number of changes
    plan,       \* the rows of todo_items
    planText,   \* the plan as _format_plan() rendered it for every phase
    k,          \* the current phase; 0 while the plan is made
    pc,         \* "planning", "replanning", "idle", "model" (awaits an answer),
                \* "tools" (awaits calls) or "done"
    steps,      \* ctx.steps_used
    messages,   \* ctx._messages
    diff,       \* ctx.diff_text
    calls,      \* the calls of the answer that is being executed
    blocks,     \* their results
    waiting,    \* those that have not returned yet
    outcome     \* LoopOutcome.status, or the error that left create_plan() or run()

context == <<steps, messages, diff, calls, blocks, waiting>>
vars == <<halted, spent, tree, plan, planText, k, pc, context, outcome>>

ReadOnlyTools == {"list_dir", "read_file", "search_code", "find_symbol",
                  "git_diff", "todo_write", "finish"}
EditTools == ReadOnlyTools \cup {"write_file", "apply_patch", "run_command", "run_tests"}
ToolsByPhase == [investigation |-> ReadOnlyTools, editing |-> EditTools]
Writers == {"write_file", "apply_patch"}

\* The tools that await a process; all others run to their end at once.
Slow == {"search_code", "git_diff", "run_command", "run_tests"}

Nothing == <<>>
Result(ok, saw) == [ok |-> ok, saw |-> saw, dropped |-> FALSE]

\* AgentContext.allowed_tool_names: the registry's subset for the phase.
Allowed == ToolsByPhase[Phases[k]]

-----------------------------------------------------------------------------
(* Planning: the first todo_write of the answer is the plan, whatever comes *)
(* after it.                                                               *)

\* _reject_reason() finds nothing.
Actionable(items) ==
    /\ MinItems <= Len(items) /\ Len(items) <= MaxItems
    /\ \A i \in DOMAIN items : items[i] = "step"

\* _read_plan(): the plan of an answer, or nothing.
Drafted(reply) ==
    LET cs    == ToolCalls(reply)
        todo  == {i \in DOMAIN cs : cs[i].tool = "todo_write"}
        first == cs[Min(todo)]
    IN  IF todo # {} /\ first.fate # "invalid" /\ Actionable(first.items)
        THEN first.items ELSE Nothing

-----------------------------------------------------------------------------
(* The tools.                                                              *)

\* What a call that worked shows the model of tree t: a git_diff may be limited
\* to a path.
Shown(c, t) ==
    CASE c.tool = "read_file" \/ (c.tool = "git_diff" /\ c.path \in Files) ->
            [f \in {c.path} |-> t[f]]
      [] c.tool = "git_diff" /\ c.path \notin Files -> t
      [] OTHER -> Nothing

Returned(c, t) ==
    IF c.fate = "works" THEN Result(TRUE, Shown(c, t)) ELSE Result(FALSE, Nothing)

\* _dispatch_one() and ToolExecutor.execute(): a tool outside the phase's set, or
\* arguments that do not validate, are answered with an error.
Offered(c) == c.tool \in Allowed
Valid(c) == c.fate # "invalid"

\* The calls that are started: those that run to their end at once, in their order, and
\* those that run up to an await.
AtOnce(cs) == {i \in DOMAIN cs : Offered(cs[i]) /\ Valid(cs[i]) /\ cs[i].tool \notin Slow}
Awaiting(cs) == {i \in DOMAIN cs : Offered(cs[i]) /\ Valid(cs[i]) /\ cs[i].tool \in Slow}

\* write_file and apply_patch change one file: the tree after the calls of cs in done.
Written(cs, done) ==
    LET by(f) == {i \in done : cs[i].tool \in Writers /\ cs[i].fate = "works" /\ cs[i].path = f}
    IN  [f \in Files |-> tree[f] + Cardinality(by(f))]

\* todo_write replaces the plan; the last one stands.
Replanned(cs) ==
    LET todo == {i \in AtOnce(cs) : cs[i].tool = "todo_write"}
    IN  IF todo = {} THEN plan ELSE cs[Max(todo)].items

\* The results there are when every call has been started.
StartCalls(cs) ==
    [i \in DOMAIN cs |->
        IF i \in AtOnce(cs)
        THEN Returned(cs[i], Written(cs, {j \in AtOnce(cs) : j < i}))
        ELSE Result(FALSE, Nothing)]

-----------------------------------------------------------------------------
(* The context.  A message is the phase's instruction, an assistant turn    *)
(* with its calls, a user turn with their results, or a re-anchor.         *)

Instruction == [role |-> "instruction"]
Assistant(cs) == [role |-> "assistant", calls |-> cs]
User(bs) == [role |-> "user", results |-> bs]
Anchor(p, d) == [role |-> "anchor", plan |-> p, diff |-> d]

\* A dropped read and an error are short.
Weight(m) ==
    IF m.role = "user"
    THEN Cardinality({i \in DOMAIN m.results : m.results[i].ok /\ ~m.results[i].dropped})
    ELSE 1

EstimatedTokens(msgs) == FoldLeft(LAMBDA n, m : n + Weight(m), 0, msgs)

\* _capture_diff(): the last git_diff of the turn that worked.
CaptureDiff(cs, bs) ==
    LET seen == {i \in DOMAIN cs : cs[i].tool = "git_diff" /\ bs[i].ok}
    IN  IF seen = {} THEN diff ELSE bs[CHOOSE i \in seen : \A j \in seen : j <= i].saw

\* The calls of a transcript.
Asked(msgs) ==
    UNION {Range(msgs[j].calls) : j \in {i \in DOMAIN msgs : msgs[i].role = "assistant"}}

\* Mistake: a file that was written as a whole does not count.
OnlyPatched(msgs) == {c.path : c \in {w \in Asked(msgs) : w.tool = "apply_patch"}}

\* The paths that any call of the transcript asked to write, whenever it did
\* and whether it worked or not.
Edited(msgs) == {c.path : c \in {w \in Asked(msgs) : w.tool \in Writers}}

Blank(r) == [ok |-> r.ok, saw |-> Nothing, dropped |-> TRUE]

\* Blanks every result of a read of one of them, on whichever side of the edit
\* the read was.
DropSupersededReads(msgs) ==
    LET Superseded(j, i) == /\ msgs[j - 1].calls[i].tool = "read_file"
                            /\ msgs[j - 1].calls[i].path \in Edited(msgs)
        Blanked(j) == [i \in DOMAIN msgs[j].results |->
                        IF Superseded(j, i) THEN Blank(msgs[j].results[i])
                                            ELSE msgs[j].results[i]]
    IN  [j \in DOMAIN msgs |-> IF msgs[j].role = "user" THEN User(Blanked(j)) ELSE msgs[j]]

\* Mistake: a message whose results were all blanked is left out.
StaleMessagesDropped(msgs, d) ==
    IF EstimatedTokens(msgs) < TriggerTokens THEN msgs
    ELSE Append(SelectSeq(DropSupersededReads(msgs),
                    LAMBDA m : m.role = "user" => \E i \in DOMAIN m.results : ~m.results[i].dropped),
                Anchor(planText, d))

\* compact_if_needed().
Compacted(msgs, d) ==
    IF EstimatedTokens(msgs) < TriggerTokens THEN msgs
    ELSE Append(DropSupersededReads(msgs), Anchor(planText, d))

-----------------------------------------------------------------------------
(* create_plan() and AgentLoop.run().                                      *)

\* create_plan() or run() returns, or raises: the context goes with it.
End(o) ==
    /\ pc' = "done"
    /\ outcome' = o
    /\ steps' = 0 /\ messages' = <<>> /\ diff' = Nothing
    /\ calls' = <<>> /\ blocks' = <<>> /\ waiting' = {}

\* Mistake: the ceiling itself may still be spent.
CeilingPassed == spent > CostCeiling

\* _check_cost_ceiling() raises.
CeilingReached == spent >= CostCeiling

BudgetExhausted(n) == n >= StepBudget

\* The top of the loop, after n steps.
Top(msgs, d, n) ==
    \/ /\ BudgetExhausted(n)
       /\ End("budget_exhausted")
    \/ /\ ~BudgetExhausted(n) /\ halted
       /\ End("cancelled")
    \/ /\ ~BudgetExhausted(n) /\ ~halted
       /\ CeilingReached
       /\ End("over_ceiling")
    \/ /\ ~BudgetExhausted(n) /\ ~halted
       /\ ~CeilingReached
       /\ pc' = "model"
       /\ steps' = n
       /\ messages' = Compacted(msgs, d)
       /\ diff' = d
       /\ calls' = <<>> /\ blocks' = <<>> /\ waiting' = {}
       /\ UNCHANGED outcome

\* A plan that can be used replaces whatever plan there was.  No planner call is
\* entered in the session's costs.
PlanReturns(reply) ==
    /\ pc \in {"planning", "replanning"}
    /\ ~Malformed(reply) /\ Drafted(reply) # Nothing
    /\ plan' = Drafted(reply)
    /\ planText' = Drafted(reply)
    /\ End("completed")
    /\ UNCHANGED <<halted, spent, tree, k>>

\* Any other answer is asked for once more, then PlanningError.
PlanRejected(reply) ==
    /\ ~Malformed(reply) /\ Drafted(reply) = Nothing
    /\ \/ /\ pc = "planning"
          /\ pc' = "replanning"
          /\ UNCHANGED <<context, outcome>>
       \/ /\ pc = "replanning"
          /\ End("no_plan")
    /\ UNCHANGED <<halted, spent, tree, plan, planText, k>>

\* The orchestrator goes on to the next phase unless its transition is refused.
NextPhase ==
    /\ pc = "done" /\ outcome \in {"completed", "finished"}
    /\ k < Len(Phases) /\ ~halted
    /\ k' = k + 1
    /\ pc' = "idle"
    /\ outcome' = "none"
    /\ UNCHANGED <<halted, spent, tree, plan, planText, context>>

\* _run_phase(): each phase has a context of its own.
EnterPhase ==
    /\ pc = "idle"
    /\ Top(<<Instruction>>, Nothing, 0)
    /\ UNCHANGED <<halted, spent, tree, plan, planText, k>>

\* The answer is paid for before it is looked at.
Answered(reply) ==
    /\ pc = "model"
    /\ ~Malformed(reply)
    /\ spent' = spent + CostFor(reply)
    /\ UNCHANGED <<halted, planText, k>>

\* A refusal; an end_turn, whose calls are dropped; an answer without calls,
\* whatever its stop_reason.
TurnEnds(reply) ==
    /\ Answered(reply)
    /\ \/ /\ StopReason(reply) = "refusal"
          /\ End("failed")
       \/ /\ StopReason(reply) # "refusal"
          /\ StopReason(reply) = "end_turn" \/ ToolCalls(reply) = <<>>
          /\ End("completed")
    /\ UNCHANGED <<tree, plan>>

\* The calls of an answer are started together, in their order.
CallsTools(reply) ==
    /\ Answered(reply)
    /\ StopReason(reply) \notin {"refusal", "end_turn"} /\ ToolCalls(reply) # <<>>
    /\ pc' = "tools"
    /\ calls' = ToolCalls(reply)
    /\ blocks' = StartCalls(calls') /\ waiting' = Awaiting(calls')
    /\ tree' = Written(calls', AtOnce(calls')) /\ plan' = Replanned(calls')
    /\ UNCHANGED <<steps, messages, diff, outcome>>

\* complete() raises: the API failed, or its answer cannot be read.  Such an
\* answer costs the session nothing.
ModelFails ==
    /\ pc \in {"planning", "replanning", "model"}
    /\ End("provider_error")
    /\ UNCHANGED <<halted, spent, tree, plan, planText, k>>

\* Mistake: a cancellation drops the results of what is still running.
ReturnsUnlessHalted(i) == i \in waiting /\ ~halted

\* A call that awaits a process returns.
Returns(i) == i \in waiting

\* A command ends.  One that is no git or search may have changed a file.
ToolReturns(i) ==
    /\ Returns(i)
    /\ waiting' = waiting \ {i}
    /\ blocks' = [blocks EXCEPT ![i] = Returned(calls[i], tree)]
    /\ \/ UNCHANGED tree
       \/ /\ calls[i].tool \in {"run_command", "run_tests"}
          /\ \E f \in Files : tree' = [tree EXCEPT ![f] = @ + 1]
    /\ UNCHANGED <<halted, spent, plan, planText, k, pc, steps, messages, diff, calls, outcome>>

\* _finish_signal(): a finish that worked.
Finishes(cs, bs) == \E i \in DOMAIN cs : cs[i].tool = "finish" /\ bs[i].ok

\* The batch is complete: the turn and ALL its results go into the transcript,
\* then a finish that worked ends the phase, or the loop goes on.
BatchReturns ==
    /\ pc = "tools" /\ waiting = {}
    /\ IF Finishes(calls, blocks)
       THEN End("finished")
       ELSE Top(messages \o <<Assistant(calls), User(blocks)>>, CaptureDiff(calls, blocks),
                steps + 1)
    /\ UNCHANGED <<halted, spent, tree, plan, planText, k>>

\* Somebody posts a cancellation while something is awaited.
Cancel ==
    /\ ~halted /\ pc \in {"planning", "replanning", "model", "tools"}
    /\ halted' = TRUE
    /\ UNCHANGED <<spent, tree, plan, planText, k, pc, context, outcome>>

Init ==
    /\ halted = FALSE
    /\ spent = 0
    /\ tree = [f \in Files |-> 0]
    /\ plan = <<>> /\ planText = <<>>
    /\ k = 0
    /\ pc = "planning"
    /\ steps = 0 /\ messages = <<>> /\ diff = Nothing
    /\ calls = <<>> /\ blocks = <<>> /\ waiting = {}
    /\ outcome = "none"

Next ==
    \/ \E reply \in Replies : PlanReturns(reply) \/ PlanRejected(reply)
    \/ NextPhase \/ EnterPhase
    \/ \E reply \in Replies : TurnEnds(reply) \/ CallsTools(reply)
    \/ ModelFails
    \/ \E i \in waiting : ToolReturns(i)
    \/ BatchReturns
    \/ Cancel

\* Every model call and every command has a timeout.
Fairness ==
    /\ WF_vars(EnterPhase) /\ WF_vars(BatchReturns)
    /\ WF_vars(ModelFails \/ \E reply \in Replies : TurnEnds(reply) \/ CallsTools(reply))
    /\ WF_vars(\E i \in waiting : ToolReturns(i))

Spec == Init /\ [][Next]_vars /\ Fairness
=============================================================================
