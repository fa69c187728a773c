----------------------------- MODULE MCWorkspace -----------------------------
(***************************************************************************)
(* Every repository that is left of one small tree when one of its paths is  *)
(* missing, under each of eight .gitignores, across up to two edits.  Beside plain *)
(* lines there are one that ends in \r, one with a \r in it, one with a form feed  *)
(* and one that is not UTF-8.                                                     *)
(***************************************************************************)
EXTENDS WorkspaceProps

MCNames == <<"a", "b.png", "m.py", "n:.py", "venv", "w.js">>
MCLines == {"def f", "class f", "pass", "((", "", "pass CR", "pass CR def f", "FF def f", "pass # bad",
            "pass # replaced"}
MCDecoded == [l \in MCLines |->
                CASE l = "pass CR" -> <<"pass">>
                  [] l = "pass CR def f" -> <<"pass", "def f">>
                  [] l = "pass # bad" -> <<"pass # replaced">>
                  [] OTHER -> <<l>>]
MCPieces == [l \in MCLines |-> IF l = "FF def f" THEN <<"", "def f">> ELSE <<l>>]
MCSymbols == [l \in {"def f", "FF def f", "class f"} |->
                [name |-> "f", kind |-> IF l = "class f" THEN "class" ELSE "function"]]

Dirs == {<<"a">>, <<"a", "a">>, <<"venv">>}
Files == {<<"a", "a", "m.py">>, <<"a", "m.py">>, <<"b.png">>, <<"m.py">>, <<"n:.py">>,
          <<"venv", "m.py">>, <<"w.js">>}
Contents == {<<"def f", "pass", "def f">>, <<"pass", "pass", "pass", "class f">>, <<"((", "def f">>,
             <<"pass CR def f", "FF def f", "class f">>, <<"pass # bad", "def f", "pass CR">>}

Left(missing) == {p \in Dirs \cup Files : Prefixes(p) \cap missing = {}}
MCClones ==
    {[fs |-> [p \in Left(x) |-> IF p \in Dirs THEN "dir" ELSE "file"],
      text |-> [p \in Left(x) \ Dirs |-> c]] :
        x \in {y \in SUBSET (Dirs \cup Files) : Cardinality(y) <= 1}, c \in Contents}

P(body, anchored, dirOnly, negated) ==
    [body |-> body, anchored |-> anchored, dirOnly |-> dirOnly, negated |-> negated]
MCIgnores ==
    {{}, {P(<<"a">>, FALSE, FALSE, FALSE)}, {P(<<"a">>, FALSE, TRUE, FALSE)},
     {P(<<"a">>, TRUE, TRUE, FALSE)}, {P(<<"a", "m.py">>, FALSE, FALSE, FALSE)},
     {P(<<"m.py">>, TRUE, FALSE, FALSE)},
     {P(<<"m.py">>, FALSE, FALSE, FALSE), P(<<"a", "m.py">>, FALSE, FALSE, TRUE)},
     {P(<<"a">>, FALSE, FALSE, FALSE), P(<<"a", "a">>, FALSE, TRUE, TRUE)}}

MCWrites == {<<p, <<"def f">>>> : p \in {<<"a", "m.py">>, <<"m.py", "m.py">>, <<"venv">>}}
MCPatches == {<<p, old, new>> : p \in {<<"m.py">>, <<"a", "m.py">>},
                                old \in {<<"def f">>, <<"pass">>, <<"pass", "pass">>},
                                new \in {<<>>, <<"class f", "pass">>}}
=============================================================================
