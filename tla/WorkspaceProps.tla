---------------------------- MODULE WorkspaceProps ----------------------------
(* What the agent is shown of a workspace, against definitions without a walk, *)
(* a scan or a cursor.                                                     *)
EXTENDS Workspace

Rank(n) == CHOOSE i \in DOMAIN Names : Names[i] = n

\* The order of a walk: a directory before its contents, siblings by name.
Before(p, q) ==
    \/ IsStrictPrefix(p, q)
    \/ \E i \in DOMAIN p \cap DOMAIN q :
        /\ SubSeq(p, 1, i - 1) = SubSeq(q, 1, i - 1)
        /\ Rank(p[i]) < Rank(q[i])

Visible(top, depth, binaryToo) ==
    {p \in DOMAIN fs :
        /\ IsStrictPrefix(top, p) /\ Len(p) <= Len(top) + depth
        /\ \A q \in Prefixes(p) : Len(q) > Len(top) => ~Skipped(q, binaryToo)}

FirstOf(paths, limit) ==
    LET nth == [i \in 1..Cardinality(paths) |->
                  CHOOSE p \in {r \in paths : Cardinality({q \in paths : Before(q, r)}) = i - 1} : TRUE]
    IN  SubSeq(nth, 1, Min({limit, Cardinality(paths)}))

IsListing(result, paths, limit) ==
    /\ result.out = FirstOf(paths, limit)
    /\ result.refused <=> Cardinality(paths) > limit

\* However the recursion shares its budget, the file tree and every list_dir
\* answer are the first entries of the visible part of the workspace, and say
\* truncated exactly when there are more (CodeIndexService, ListDirTool).  The
\* brief shows the first lines of what the tree has at its depth.
ListingsAreExact ==
    /\ IsListing(BuildTree, Visible(Root, TreeDepth, TRUE), TreeEntries)
    /\ \A p \in DOMAIN fs \cup {Root}, depth \in 1..TreeDepth :
        IsDir(p) => IsListing(ListDir(p, depth), Visible(p, depth, FALSE), ListEntries)
    /\ BriefTree = FirstOf({p \in ToSet(BuildTree.out) : Len(p) <= BriefDepth}, BriefLines)

\* The first i lines of a file are as many to read_text(), and to splitlines().
Single(lines, i) == \A k \in 1..i : Len(Decoded[lines[k]]) = 1
Unsplit(lines, i) == \A k \in 1..i : Pieces[lines[k]] = <<lines[k]>>

\* Whatever an index or a search names, the agent can read where it says: the
\* path is one the guard accepts, and that line is the definition or the match, as
\* long as no line up to there has a break in it that only read_file sees.  (A
\* definition that no parser places, as in JavaScript, is where read_file has it in any
\* case.)  Every source file that the tree shows is indexed.
FoundIsReadable ==
    /\ \A d \in DOMAIN Symbols :
        \A hit \in FindSymbol(Symbols[d].name, {Symbols[d].kind}) :
            LET read == ReadFile(hit[1], hit[2], hit[2])
            IN  (Last(hit[1]) \in Python => Unsplit(Read(text[hit[1]]), hit[2])) =>
                    Len(read) = 1 /\ read[1] \in DOMAIN Symbols /\ Symbols[read[1]] = Symbols[d]
    /\ \A d \in Lines, hasRg \in BOOLEAN : \A hit \in Search(d, hasRg) :
        (/\ Last(hit[1]) \notin Binary
         /\ Single(text[hit[1]], hit[2]) /\ Unsplit(Read(text[hit[1]]), hit[2])) =>
            ReadFile(hit[1], hit[2], hit[2]) = Decoded[d]
    /\ \A p \in ToSet(BuildTree.out) :
        (IsFile(p) /\ Last(p) \in Python \cup Other) =>
            p \in Index.skipped \/ \A i \in Defined(p) : <<p, i, Symbols[Numbered(p)[i]]>> \in Index.modules

\* What the agent is shown of the workspace is what is there.
ShownIsThere == ListingsAreExact /\ FoundIsReadable

\* Lines that are read as they are stored.
Plain(lines) == \A i \in DOMAIN lines : Decoded[lines[i]] = <<lines[i]>>

At(lines, old) == {i \in 1..Len(lines) : Occurs(lines, old, i)}

\* What a patch leaves is the file as read_text() decodes it, with one occurrence of
\* old_string replaced, and only if every other occurrence overlaps with that one;
\* if it is refused there was none, or there are two apart (ApplyPatchTool).  In a
\* file with no \r and no bad byte that is all that changes; in any other the
\* conversion of every other line is written back with it (apply_patch_tool.py:62).
PatchIsLocal ==
    \A x \in Patches : x[1] \in DOMAIN text =>
        LET lines == IF Plain(text[x[1]]) THEN text[x[1]] ELSE Read(text[x[1]])
            old == x[2]  after == Patched(Read(text[x[1]]), old, x[3])
            at == At(lines, old)
        IN  IF after.ok
            THEN \E i \in at :
                    /\ after.lines = SubSeq(lines, 1, i - 1) \o x[3]
                                       \o SubSeq(lines, i + Len(old), Len(lines))
                    /\ \A j \in at : j < i + Len(old) /\ i < j + Len(old)
            ELSE at = {} \/ \E i, j \in at : i + Len(old) <= j

\* `old_string` "must appear exactly once" (apply_patch_tool.py:23).
PatchIsUnambiguous ==
    \A x \in Patches :
        (x[1] \in DOMAIN text /\ Patched(Read(text[x[1]]), x[2], x[3]).ok) =>
            Cardinality(At(Read(text[x[1]]), x[2])) = 1

\* "Replace an exact block of text in a workspace file" (apply_patch_tool.py:22): the
\* patched file has the lines it had before and after that block.
PatchKeepsTheRest ==
    \A x \in Patches : x[1] \in DOMAIN text =>
        LET stored == text[x[1]]  after == Patched(Read(stored), x[2], x[3])
        IN  after.ok => \E i \in At(stored, x[2]) :
                after.lines = SubSeq(stored, 1, i - 1) \o x[3]
                                \o SubSeq(stored, i + Len(x[2]), Len(stored))

\* "It skips [...] anything .gitignore excludes" (code_index_service.py:5), which
\* the symbol index is there to keep to as well (gitignore_filter.py:3): what is
\* below an excluded directory is not indexed.
IndexIsVisible ==
    \A p \in Source : \A q \in Prefixes(p) : q # Root => ~Ignored(q, IsDir(q))
=============================================================================
