------------------------- MODULE PytestOutputParser -------------------------
(***************************************************************************)
(* From what a pytest process prints to a TestFailureReport: the sandbox   *)
(* keeps the head and the tail of the output (OutputTruncator), and        *)
(* PytestOutputParser reads sections, blocks, summary rows and counts from *)
(* the lines that are left.                                                *)
(*                                                                         *)
(* A line is a pair: what its pattern matches, and what the match yields.  *)
(* Reports are compared by their failures: pairs of a node id and the      *)
(* exception type that was read.                                           *)
(***************************************************************************)
EXTENDS Naturals, FiniteSets, Sequences, SequencesExt

CONSTANTS
  Tests,         \* node ids, numbered in the order pytest reports them
  Name,          \* what follows the last "::" of each node id
  Title,         \* what pytest writes over a failure's block: for a method, Class.name
  Exceptions,    \* how a test may fail
  Untyped,       \* those that pytest prints without a type: a bare assert
  MaxLines,      \* what the sandbox's OutputTruncator keeps, in lines
  MaxItems       \* TEST_FAILURE_MAX_ITEMS

\* The title of the block of a module that does not import; no test's block has it.
Collecting == "ERROR collecting"

ASSUME ConstantsAssumption ==
  /\ Tests \in SUBSET Nat
  /\ IsFiniteSet(Tests)
  /\ DOMAIN Name = Tests /\ DOMAIN Title = Tests
  /\ Untyped \subseteq Exceptions
  /\ MaxLines \in Nat \ {0}
  /\ MaxItems \in Nat \ {0}
  /\ {"absent", "pass", "None"} \cap Exceptions = {}
  /\ \A n \in Tests : Title[n] # Collecting

Node(f)  == f[1]
Nodes(F) == {Node(f) : f \in F}

\* A finite set of numbers, the smallest first.
Ascending(S) == [i \in 1..Cardinality(S) |-> CHOOSE n \in S : Cardinality({m \in S : m < n}) = i - 1]

-----------------------------------------------------------------------------
\* What pytest prints with -q --tb=short (external)

Section(title) == <<"section", title>>
Block(title)   == <<"block", title>>
Exc(exception) == <<"exc", exception>>
Failed(n)      == <<"failed", n>>
Counts(failed) == <<"counts", failed>>
BareError      == <<"error", "module">>    \* an ERROR row without "::"
Interrupted    == <<"interrupted", "">>
NoTests        == <<"notests", "">>
Other          == <<"other", "">>

Printed(lines) == [timedOut |-> FALSE, lines |-> lines]
Killed         == [timedOut |-> TRUE, lines |-> <<>>]

\* `broken`: the tests that fail, and how; with each its block, then its summary row.
SuiteOutput(broken) ==
  LET order == Ascending(DOMAIN broken)
      exc(n) == IF broken[n] \in Untyped THEN Other ELSE Exc(broken[n])
      details == [i \in 1..2 * Len(order) |->
                    LET n == order[(i + 1) \div 2]
                    IN  IF i % 2 = 1 THEN Block(Title[n]) ELSE exc(n)]
      rows == [i \in DOMAIN order |-> Failed(order[i])]
  IN  IF order = <<>> THEN <<Other, Counts(0)>>
      ELSE <<Other, Section("FAILURES")>> \o details
             \o <<Section("summary")>> \o rows \o <<Counts(Len(order))>>

CollectionOutput ==
  <<Section("ERRORS"), Block(Collecting), Exc("ImportError"),
    Section("summary"), BareError, Interrupted, Counts(0)>>

-----------------------------------------------------------------------------
\* OutputTruncator.truncate()
Truncate(lines) ==
  LET head == MaxLines \div 2
      tail == MaxLines - head
  IN  IF Len(lines) <= MaxLines THEN lines
      ELSE SubSeq(lines, 1, head) \o <<Other>> \o SubSeq(lines, Len(lines) - tail + 1, Len(lines))

-----------------------------------------------------------------------------
\* PytestOutputParser

\* The places of the lines of that kind.
At(lines, kinds) == {i \in DOMAIN lines : lines[i][1] \in kinds}

\* The last header above line i; 0 if there is none.
Above(lines, kinds, i) ==
  LET over == {j \in At(lines, kinds) : j < i} IN
    IF over = {} THEN 0 ELSE CHOOSE j \in over : \A k \in over : k <= j

InSection(lines, i, titles) ==
  LET j == Above(lines, {"section"}, i) IN j # 0 /\ lines[j][2] \in titles

\* _parse_counts(): from the bottom; no tests at all is a summary as well.
CountLine(lines) == Above(lines, {"counts", "notests"}, Len(lines) + 1)

\* _section_body(): up to the next section or a line of exclamation marks.
SummaryBody(lines) ==
  {i \in DOMAIN lines :
     /\ InSection(lines, i, {"summary"})
     /\ ~\E j \in At(lines, {"interrupted"}) : Above(lines, {"section"}, i) < j /\ j <= i}

\* _summary_info_rows(), in the order of the lines
SummaryRows(lines) ==
  LET places == Ascending(SummaryBody(lines) \cap At(lines, {"failed", "error"}))
  IN  [i \in DOMAIN places |-> lines[places[i]]]

\* _detail_blocks(): a block's body ends at the next block or section; of two blocks with
\* the same title the later one stays.
DetailTitles(lines) ==
  {lines[i][2] : i \in {j \in At(lines, {"block"}) : InSection(lines, j, {"FAILURES", "ERRORS"})}}

DetailBody(lines, title) ==
  LET heads == {i \in At(lines, {"block"}) :
                  lines[i][2] = title /\ InSection(lines, i, {"FAILURES", "ERRORS"})}
      last == CHOOSE i \in heads : \A j \in heads : j <= i
  IN  {lines[i] : i \in {j \in DOMAIN lines : Above(lines, {"block", "section"}, j) = last}}

\* _collection_error()
CollectionError(lines) ==
  \/ At(lines, {"interrupted"}) # {}
  \/ \E i \in DOMAIN SummaryRows(lines) : SummaryRows(lines)[i] = BareError
  \/ Collecting \in DetailTitles(lines)

\* _block_for(): the block whose title is the last part of the node id.
BlockFor(lines, n) ==
  IF Name[n] \in DetailTitles(lines) THEN DetailBody(lines, Name[n]) ELSE {}

\* _exception_type()
ExceptionType(lines, n) ==
  LET read == {l[2] : l \in {b \in BlockFor(lines, n) : b[1] = "exc"}}
  IN  IF read = {} THEN "None" ELSE CHOOSE e \in read : TRUE

\* _build_failures(), in the order of the rows
BuildFailures(lines) ==
  LET rows == SummaryRows(lines)
  IN  [i \in DOMAIN rows |-> <<rows[i][2], ExceptionType(lines, rows[i][2])>>]

\* signature_for(): node ids with their exception types; mode_signature(): only the mode.
SignatureFor(F)     == [mode |-> "ran", failures |-> F]
ModeSignature(mode) == [mode |-> mode, failures |-> {}]

Without(mode, failed) ==
  [mode |-> mode, failed |-> failed, failures |-> {}, signature |-> ModeSignature(mode)]

\* parse(): the count and the signature see every failure that is left, the list only the
\* first TEST_FAILURE_MAX_ITEMS.
Parse(result) ==
  LET lines == Truncate(result.lines)
      count == CountLine(lines)
      failures == BuildFailures(lines)
  IN  IF result.timedOut THEN Without("timeout", 0)
      ELSE IF count = 0 THEN Without("unparseable", 0)
      ELSE IF CollectionError(lines) THEN Without("collection", 0)
      ELSE [mode      |-> "ran",
            failed    |-> IF lines[count][1] = "notests" THEN 0 ELSE lines[count][2],
            failures  |-> {failures[i] : i \in {j \in DOMAIN failures : j <= MaxItems}},
            signature |-> SignatureFor(ToSet(failures))]
=============================================================================
