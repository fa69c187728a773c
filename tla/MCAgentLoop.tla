----------------------------- MODULE MCAgentLoop -----------------------------
(***************************************************************************)
(* Two files, three steps a phase, and a transcript that is compacted from *)
(* its second turn on.  An answer has one call or two and one of two prices:*)
(* a cheap and a dear one together cost the ceiling to the last unit.       *)
(***************************************************************************)
EXTENDS AgentLoopProps

Call(t, p, f) == [tool |-> t, path |-> p, fate |-> f, items |-> <<>>]
Todo(items) == [Call("todo_write", "none", "works") EXCEPT !.items = items]
ReadA  == Call("read_file", "a", "works")
WriteA == Call("write_file", "a", "works")
PatchA == Call("apply_patch", "a", "fails")
WriteB == Call("write_file", "b", "works")
RunCmd == Call("run_command", "none", "works")
Diff   == Call("git_diff", "none", "works")
DiffA  == Call("git_diff", "a", "works")
Finish == Call("finish", "none", "works")
Ending == Call("finish", "none", "invalid")
Plan   == Todo(<<"step", "step">>)
Terse  == Todo(<<"step", "label">>)
Long   == Todo(<<"step", "step", "step">>)

Use(c) == [type |-> "tool_use", call |-> c, decodes |-> TRUE]
Garbled == [type |-> "tool_use", call |-> Ending, decodes |-> FALSE]
Text == [type |-> "text"]

Cheap == [input |-> 1, cache_read |-> 1]
Dear  == [input |-> 1, output |-> 1, cache_creation |-> 1]

Reply(stop, content, usage) == [stop |-> stop, blocks |-> content, usage |-> usage]

Batches == {<<Use(ReadA)>>, <<Use(PatchA)>>, <<Text, Use(Ending)>>,
            <<Use(ReadA), Use(WriteA)>>, <<Use(WriteA), Use(ReadA)>>,
            <<Use(Diff), Use(WriteB)>>, <<Use(RunCmd), Use(DiffA)>>,
            <<Use(Plan), Use(Finish)>>, <<Use(Terse), Use(ReadA)>>, <<Use(Long)>>}

MCReplies ==
    {Reply("tool_use", b, Cheap) : b \in Batches}
    \cup {Reply("tool_use", <<Use(ReadA)>>, Dear),
          Reply("max_tokens", <<Use(WriteA)>>, Cheap),
          Reply("max_tokens", <<Text>>, Dear),
          Reply("refusal", <<Text>>, Cheap),
          Reply("a_new_reason", <<Text, Use(WriteA)>>, Dear),
          Reply("tool_use", <<Garbled>>, Cheap)}

MCFiles == {"a", "b"}
MCPhases == <<"investigation", "editing">>
MCPricing == [opus |-> [input |-> 20, output |-> 100]]
=============================================================================
