------------------------------ MODULE Workspace ------------------------------
(***************************************************************************)
(* The files of one session's workspace, what the index and the read-only   *)
(* tools make of them, and the two tools that edit them.                   *)
(*                                                                         *)
(* A path is the sequence of its parts.  `fs` says what is at each path,     *)
(* `text` gives the lines of each file as they are stored, from one \n to the  *)
(* next; what is read of them is another matter.  A pattern of .gitignore is a  *)
(* record [body, anchored, dirOnly, negated], its body without wildcards.      *)
(***************************************************************************)
EXTENDS Naturals, Sequences, SequencesExt, FiniteSetsExt

CONSTANTS
    Names,          \* the names in use, in the order of sorted()
    Lines,          \* the lines a file may have
    Decoded,        \* a stored line -> the lines that read_text() makes of it
    Pieces,         \* a decoded line -> what splitlines() makes of it
    Undecodable,    \* the stored lines that are not UTF-8
    IgnoreDirs,     \* INDEX_IGNORE_DIRS
    Binary,         \* names with one of BINARY_FILE_EXTENSIONS
    Python, Other,  \* names that end in .py, or in one of REGEX_SYMBOL_EXTENSIONS
    Colon,          \* names with a colon in them
    Symbols,        \* a line that defines something -> its [name, kind]
    Unparsable,     \* the lines that ast.parse() does not accept
    TreeDepth, TreeEntries,     \* REPO_TREE_MAX_DEPTH, REPO_TREE_MAX_ENTRIES
    ListEntries,                \* LIST_DIR_MAX_ENTRIES
    BriefDepth, BriefLines,     \* REPO_BRIEF_TREE_DEPTH, REPO_BRIEF_MAX_TREE_LINES
    ReadLines,                  \* MAX_FILE_READ_LINES
    Clones, Ignores,            \* the trees and the .gitignores of the run
    Writes, Patches,            \* the edits of the run: <<path, lines>>, <<path, old, new>>
    MaxEdits                    \* how many changes of the tree are followed

Root == <<>>
Paths == Seq(ToSet(Names)) \ {Root}

\* What is where, and the lines of each file: whatever is at a path is in a directory.
IsClone(files, lines) ==
    /\ DOMAIN files \subseteq Paths /\ IsFiniteSet(DOMAIN files)
    /\ \A p \in DOMAIN files :
        /\ files[p] \in {"dir", "file", "link"}
        /\ Front(p) = Root \/ (Front(p) \in DOMAIN files /\ files[Front(p)] = "dir")
    /\ DOMAIN lines = {p \in DOMAIN files : files[p] = "file"}
    /\ \A p \in DOMAIN lines : lines[p] \in Seq(Lines)

ASSUME WorkspaceAssumption ==
    /\ ListEntries \in Nat \ {0} /\ TreeEntries \in Nat \ {0} /\ ReadLines \in Nat \ {0}
    /\ TreeDepth \in Nat /\ BriefDepth \in 1..TreeDepth /\ BriefLines \in Nat /\ MaxEdits \in Nat
    /\ Names \in Seq(ToSet(Names)) /\ ".." \notin ToSet(Names)
    /\ \A i, j \in DOMAIN Names : Names[i] = Names[j] => i = j
    /\ Decoded \in [Lines -> Seq(Lines) \ {<<>>}] /\ Pieces \in [Lines -> Seq(Lines)]
    /\ \A l \in Lines : \A m \in ToSet(Decoded[l]) : Decoded[m] = <<m>> /\ m \notin Undecodable
    /\ \A l \in DOMAIN Symbols : Symbols[l] = [name |-> Symbols[l].name, kind |-> Symbols[l].kind]
    /\ \A clone \in Clones : IsClone(clone.fs, clone.text)
    /\ \A x \in Writes : x[1] \in Paths /\ x[2] \in Seq(Lines)
    /\ \A x \in Patches : x[1] \in Paths /\ x[2] \in Seq(Lines) \ {<<>>} /\ x[3] \in Seq(Lines)

VARIABLES fs, text, ignored, edits
workspaceVars == <<fs, text, ignored, edits>>

IsDir(p) == p = Root \/ (p \in DOMAIN fs /\ fs[p] = "dir")
IsFile(p) == p \in DOMAIN fs /\ fs[p] = "file"
IsLink(p) == p \in DOMAIN fs /\ fs[p] = "link"

\* sorted(path.iterdir()) is what is there of these, in the order of Names.
Entry(p, i) == Append(p, Names[i])

-----------------------------------------------------------------------------
(* GitignoreFilter.                                                        *)

Matches(pattern, p, isDir) ==
    /\ pattern.dirOnly => isDir
    /\ CASE pattern.anchored -> p = pattern.body
         [] ~pattern.anchored /\ Len(pattern.body) > 1 -> IsSuffix(pattern.body, p)
         [] ~pattern.anchored /\ Len(pattern.body) = 1 -> pattern.body[1] \in ToSet(p)

\* A negation wins wherever it stands in the file.
Ignored(p, isDir) ==
    \/ ToSet(p) \cap IgnoreDirs # {}
    \/ /\ \E x \in ignored : ~x.negated /\ Matches(x, p, isDir)
       /\ \A x \in ignored : x.negated => ~Matches(x, p, isDir)

-----------------------------------------------------------------------------
(* The walks of CodeIndexService and ListDirTool, with what they share: the   *)
(* entries emitted so far, and whether one more was refused.                *)

\* Mistake: the cap is looked at after the entry was taken.
TakeLate(acc, limit, p) ==
    IF Len(acc.out) > limit THEN [acc EXCEPT !.refused = TRUE]
                            ELSE [acc EXCEPT !.out = Append(@, p)]

Take(acc, limit, p) ==
    IF Len(acc.out) >= limit THEN [acc EXCEPT !.refused = TRUE]
                             ELSE [acc EXCEPT !.out = Append(@, p)]

Skipped(p, binaryToo) ==
    \/ IsLink(p)
    \/ Ignored(p, IsDir(p))
    \/ binaryToo /\ IsFile(p) /\ Last(p) \in Binary

\* A directory's entries one after another, each with all that is below it before the
\* next; below walks a directory among them.
Visit(p, limit, binaryToo, acc, below) ==
    LET after[i \in 0..Len(Names)] ==
            IF i = 0 THEN acc
            ELSE LET q == Entry(p, i)
                     taken == Take(after[i - 1], limit, q)
                 IN  IF q \notin DOMAIN fs \/ Skipped(q, binaryToo) THEN after[i - 1]
                     ELSE IF IsDir(q) /\ ~taken.refused THEN below[q][taken]
                     ELSE taken
    IN  after[Len(Names)]

Answers == [out : Seq(DOMAIN fs), refused : BOOLEAN]

Walk(top, depth, limit, binaryToo) ==
    LET into[d \in 0..depth] ==
            [p \in {Root} \cup DOMAIN fs |-> [acc \in Answers |->
                IF d = 0 THEN acc ELSE Visit(p, limit, binaryToo, acc, into[d - 1])]]
    IN  into[depth][top][[out |-> <<>>, refused |-> FALSE]]

BuildTree == Walk(Root, TreeDepth, TreeEntries, TRUE)
ListDir(p, depth) == Walk(p, depth, ListEntries, FALSE)

\* A node's children one after another; below is the preview of one that is shown in full.
Children(tree, p, lines, deeper, below) ==
    LET after[i \in 0..Len(tree)] ==
            IF i = 0 THEN lines
            ELSE LET q == tree[i]
                     shown == Append(after[i - 1], q)
                 IN  IF Len(q) # Len(p) + 1 \/ ~IsPrefix(p, q) THEN after[i - 1]
                     ELSE IF IsDir(q) /\ deeper THEN below[q][shown]
                     ELSE shown
    IN  after[Len(tree)]

\* _tree_preview(): the cap is only looked at on entering a directory.
Preview(tree) ==
    LET into[d \in 0..BriefDepth] ==
            [p \in {Root} \cup DOMAIN fs |-> [lines \in Seq(DOMAIN fs) |->
                IF d = 0 \/ Len(lines) >= BriefLines THEN lines
                ELSE Children(tree, p, lines, d > 1, into[d - 1])]]
    IN  into[BriefDepth][Root][<<>>]

\* render() cuts what is over.
BriefTree == LET lines == Preview(BuildTree.out)
             IN  SubSeq(lines, 1, Min({Len(lines), BriefLines}))

-----------------------------------------------------------------------------
(* SymbolIndexer and the tools that read.                                  *)

\* read_text(errors="replace"): every \r\n and \r is a \n, every bad byte is U+FFFD.
Read(lines) == FlattenSeq([i \in DOMAIN lines |-> Decoded[lines[i]]])

\* splitlines(), which ends a line at a form feed or a U+2028 as well.
Split(lines) == LET read == Read(lines) IN FlattenSeq([i \in DOMAIN read |-> Pieces[read[i]]])

\* rglob("*") follows no link to a directory.
Found == {p \in DOMAIN fs : IsFile(p) /\ \A q \in Prefixes(p) : ~IsLink(q)}
Source == {p \in Found : ~Ignored(p, FALSE) /\ Last(p) \in (Python \cup Other) \ Binary}

\* The lines that ast, or a regular expression, numbers.
Numbered(p) == IF Last(p) \in Python THEN Read(text[p]) ELSE Split(text[p])

Broken(p) ==
    \/ ToSet(text[p]) \cap Undecodable # {}
    \/ Last(p) \in Python /\ ToSet(Numbered(p)) \cap Unparsable # {}
Defined(p) == LET lines == Numbered(p) IN {i \in DOMAIN lines : lines[i] \in DOMAIN Symbols}

Index == [modules |-> UNION {{<<p, i, Symbols[Numbered(p)[i]]>> : i \in Defined(p)} :
                               p \in {q \in Source : ~Broken(q)}},
          skipped |-> {p \in Source : Broken(p)}]

FindSymbol(name, kinds) ==
    {<<m[1], m[2]>> : m \in {s \in Index.modules : s[3].name = name /\ s[3].kind \in kinds}}

\* _parse_grep_line() splits at the first two colons, and drops what then has no
\* line number.
GrepReads(p) == ToSet(p) \cap Colon = {}

\* What rg, or grep where there is no rg, finds: stored lines.
Search(line, hasRg) ==
    UNION {{<<p, i>> : i \in {j \in DOMAIN text[p] : text[p][j] = line}} :
            p \in {q \in Found : hasRg \/ GrepReads(q)}}

\* WorkspacePathGuard.resolve() does not raise.
Accepts(candidate) ==
    /\ ~candidate.absolute
    /\ ".." \notin ToSet(candidate.parts)
    /\ \A q \in Prefixes(candidate.parts) : ~IsLink(q)

Relative(p) == [absolute |-> FALSE, parts |-> p]

\* read_file: the lines start..end, at most ReadLines of them.
ReadFile(p, start, end) ==
    IF ~Accepts(Relative(p)) \/ ~IsFile(p) \/ Last(p) \in Binary \/ end < start THEN <<"error">>
    ELSE LET lines == Split(text[p])
         IN  SubSeq(lines, start, Min({end, Len(lines), start + ReadLines - 1}))

-----------------------------------------------------------------------------
(* The edits.                                                              *)

Occurs(lines, old, i) ==
    i + Len(old) - 1 <= Len(lines) /\ SubSeq(lines, i, i + Len(old) - 1) = old

\* str.count(): the scan goes on behind each match.
Occurrences(lines, old) ==
    LET scan[i \in 0..Len(lines)] ==
            IF i = 0 THEN [count |-> 0, next |-> 1]
            ELSE LET before == scan[i - 1]
                 IN  IF before.next <= i /\ Occurs(lines, old, i)
                     THEN [count |-> before.count + 1, next |-> i + Len(old)]
                     ELSE before
    IN  scan[Len(lines)].count

\* Mistake: the first of several matches is replaced.
PatchedFirst(lines, old, new) ==
    IF Occurrences(lines, old) = 0 THEN [ok |-> FALSE, lines |-> lines]
    ELSE [ok |-> TRUE, lines |-> ReplaceFirstSubSeq(new, old, lines)]

Patched(lines, old, new) ==
    IF Occurrences(lines, old) # 1 THEN [ok |-> FALSE, lines |-> lines]
    ELSE [ok |-> TRUE, lines |-> ReplaceFirstSubSeq(new, old, lines)]

Edited == edits < MaxEdits /\ edits' = edits + 1 /\ UNCHANGED ignored

\* The whole file is written back, as it was decoded.
ApplyPatch(p, old, new) ==
    /\ Accepts(Relative(p)) /\ IsFile(p)
    /\ Patched(Read(text[p]), old, new).ok
    /\ text' = [text EXCEPT ![p] = Patched(Read(text[p]), old, new).lines]
    /\ UNCHANGED fs /\ Edited

\* Missing parents are made; one that is a file is an error.
WriteFile(p, lines) ==
    /\ Accepts(Relative(p)) /\ ~IsDir(p)
    /\ \A q \in Prefixes(Front(p)) : ~IsFile(q)
    /\ fs' = [q \in DOMAIN fs \cup (Prefixes(p) \ {Root}) |->
                IF q = p THEN "file" ELSE IF q \in DOMAIN fs THEN fs[q] ELSE "dir"]
    /\ text' = [q \in DOMAIN text \cup {p} |-> IF q = p THEN lines ELSE text[q]]
    /\ Edited

\* A command of the repository removes what is at a path, or puts a link there.
Under(p) == {q \in DOMAIN fs : IsPrefix(p, q)}
CommandRuns(p, linked) ==
    /\ p \in DOMAIN fs
    /\ fs' = [q \in (DOMAIN fs \ Under(p)) \cup (IF linked THEN {p} ELSE {}) |->
                IF q = p THEN "link" ELSE fs[q]]
    /\ text' = [q \in DOMAIN text \ Under(p) |-> text[q]]
    /\ Edited

WorkspaceInit ==
    /\ \E clone \in Clones : fs = clone.fs /\ text = clone.text
    /\ ignored \in Ignores
    /\ edits = 0

WorkspaceNext ==
    \/ \E x \in Patches : ApplyPatch(x[1], x[2], x[3])
    \/ \E x \in Writes : WriteFile(x[1], x[2])
    \/ \E p \in DOMAIN fs, linked \in BOOLEAN : CommandRuns(p, linked)

WorkspaceSpec == WorkspaceInit /\ [][WorkspaceNext]_workspaceVars
=============================================================================
