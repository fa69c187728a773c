--------------------------- MODULE AgentLoop_proofs ---------------------------
(***************************************************************************)
(* Theorems about AgentLoop for any phases, any answers of the model and   *)
(* any limits.                                                             *)
(*                                                                         *)
(* A transcript is paired at every moment, not only when it is sent        *)
(* (TranscriptInv), because a turn and its results are appended together   *)
(* and a compaction blanks results in place.  An answer is awaited below   *)
(* the ceiling only (CeilingInv), and what a compaction leaves has no read *)
(* of a file that any call of it asked to write (StaleInv).                *)
(***************************************************************************)
EXTENDS AgentLoopProps, SequenceTheorems, FiniteSetTheorems, WellFoundedInduction, TLAPS

IsTranscript(m) == m \in Seq({m[j] : j \in DOMAIN m})

Roles == {"instruction", "assistant", "user", "anchor"}

Known(m) == \A j \in DOMAIN m : m[j].role \in Roles

\* PairedResults, of any transcript.
Paired(m) ==
  \A j \in DOMAIN m :
    /\ m[j].role = "assistant" =>
         /\ j + 1 \in DOMAIN m /\ m[j + 1].role = "user"
         /\ DOMAIN m[j + 1].results = DOMAIN m[j].calls
    /\ m[j].role = "user" => j > 1 /\ m[j - 1].role = "assistant"

\* No result shows a file that some call of the transcript asked to write.
StaleFree(m) ==
  \A j \in DOMAIN m : m[j].role = "user" =>
    \A r \in DOMAIN m[j].results :
      (m[j - 1].calls[r].tool = "read_file" /\ m[j - 1].calls[r].path \in Edited(m))
        => m[j].results[r].dropped

TranscriptInv == IsTranscript(messages) /\ Paired(messages)

\* _check_cost_ceiling() stands before every call that is paid for.
CeilingInv == pc = "model" => spent < CostCeiling

StaleInv ==
  pc = "model" /\ messages[Len(messages)].role = "anchor" => StaleFree(messages)

IInv == TypeOK /\ TranscriptInv /\ CeilingInv /\ OvershootIsOneCall /\ StaleInv

-----------------------------------------------------------------------------
\* A set of natural numbers that is not empty has a least one.
LEMMA LeastIsThere ==
  ASSUME NEW S \in SUBSET Nat, S # {}
  PROVE  \E n \in S : \A m \in S : n <= m
  <1> DEFINE below == {pair \in Nat \X Nat : pair[1] < pair[2]}
  <1>1. IsWellFoundedOn(below, Nat)
    BY NatLessThanWellFounded DEF OpToRel
  <1>2. \A m, n \in Nat : <<m, n>> \notin below => n <= m
    OBVIOUS
  <1> HIDE DEF below
  <1>3. PICK n \in S : \A m \in S : <<m, n>> \notin below
    BY <1>1, WFMin
  <1> QED
    BY <1>2, <1>3

\* ... which is its minimum.
LEMMA MinIsThere ==
  ASSUME NEW S \in SUBSET Nat, S # {}
  PROVE  Min(S) \in S
  BY LeastIsThere DEF Min

\* A set that has a bound has its maximum.
LEMMA MaxIsThere ==
  ASSUME NEW n \in Nat, NEW S \in SUBSET (1..n), S # {}
  PROVE  Max(S) \in S
  <1> DEFINE T == {n - i : i \in S}
  <1>1. \A i \in S : n - i \in Nat
    OBVIOUS
  <1>2. T \in SUBSET Nat /\ T # {}
    BY <1>1
  <1>3. PICK least \in T : \A t \in T : least <= t
    BY <1>2, LeastIsThere
  <1>4. PICK i \in S : least = n - i
    BY <1>3
  <1>5. \A j \in S : i >= j
    <2> TAKE j \in S
    <2>1. n - i <= n - j
      BY <1>3, <1>4
    <2> QED
      BY <2>1
  <1> QED
    BY <1>5 DEF Max

-----------------------------------------------------------------------------
\* An answer has a price, a natural number.
LEMMA CostIsNat ==
  ASSUME NEW reply \in Replies
  PROVE  CostFor(reply) \in Nat
  <1> DEFINE price == Pricing[AgentModel]
  <1>1. price.input \in Nat /\ price.output \in Nat
    BY PricingAssumption
  <1>2. \A key \in {"input", "cache_read", "cache_creation", "output"} : Count(reply, key) \in Nat
    BY RepliesAssumption DEF Count
  <1>3. price.input \div 10 \in Nat /\ (5 * price.input) \div 4 \in Nat
    BY <1>1
  <1>4. \A m, n \in Nat : m * n \in Nat
    OBVIOUS
  <1> HIDE DEF price
  <1>5. /\ Count(reply, "input") * price.input \in Nat
        /\ Count(reply, "cache_read") * (price.input \div 10) \in Nat
        /\ Count(reply, "cache_creation") * ((5 * price.input) \div 4) \in Nat
        /\ Count(reply, "output") * price.output \in Nat
    BY <1>1, <1>2, <1>3, <1>4
  <1>6. CostFor(reply) = Count(reply, "input") * price.input
          + Count(reply, "cache_read") * (price.input \div 10)
          + Count(reply, "cache_creation") * ((5 * price.input) \div 4)
          + Count(reply, "output") * price.output
    BY DEF CostFor, price
  <1> QED
    BY <1>5, <1>6

\* The calls of an answer are known by numbers of blocks.
LEMMA CallsTyped ==
  ASSUME NEW reply \in Replies
  PROVE  /\ Len(reply.blocks) \in Nat
         /\ DOMAIN ToolCalls(reply) \subseteq 1..Len(reply.blocks)
         /\ IsFiniteSet(DOMAIN ToolCalls(reply))
         /\ \A i \in DOMAIN ToolCalls(reply) :
               ToolCalls(reply)[i].items \in Seq({"step", "label", "blank"})
  <1>1. Len(reply.blocks) \in Nat /\ DOMAIN reply.blocks = 1..Len(reply.blocks)
    BY RepliesAssumption
  <1>2. DOMAIN ToolCalls(reply) \subseteq 1..Len(reply.blocks)
    BY <1>1 DEF ToolCalls
  <1>3. IsFiniteSet(1..Len(reply.blocks))
    BY <1>1, FS_Interval
  <1> QED
    BY <1>1, <1>2, <1>3, FS_Subset, RepliesAssumption

\* What is a plan has steps only.
LEMMA DraftTyped ==
  ASSUME NEW reply \in Replies
  PROVE  /\ Drafted(reply) \in Seq({"step"})
         /\ Drafted(reply) \in Seq({"step", "label", "blank"})
  <1> DEFINE cs == ToolCalls(reply)
             todo == {i \in DOMAIN cs : cs[i].tool = "todo_write"}
             first == cs[Min(todo)]
  <1>1. CASE todo # {} /\ first.fate # "invalid" /\ Actionable(first.items)
    <2>1. todo \in SUBSET Nat
      BY CallsTyped
    <2>2. Min(todo) \in todo
      BY <1>1, <2>1, MinIsThere
    <2>3. first.items \in Seq({"step", "label", "blank"})
      BY <2>2, CallsTyped
    <2>4. \A i \in 1..Len(first.items) : first.items[i] = "step"
      BY <1>1, <2>3 DEF Actionable
    <2>5. Drafted(reply) = first.items
      BY <1>1 DEF Drafted
    <2> HIDE DEF first
    <2>6. first.items \in Seq({"step"})
      BY <2>3, <2>4
    <2> QED
      BY <2>3, <2>5, <2>6
  <1>2. CASE ~(todo # {} /\ first.fate # "invalid" /\ Actionable(first.items))
    <2>1. Drafted(reply) = <<>>
      BY <1>2 DEF Drafted, Nothing
    <2> QED
      BY <2>1, EmptySeq
  <1> QED
    BY <1>1, <1>2

\* The tree and the plan after the calls that ran at once.
LEMMA WrittenTyped ==
  ASSUME TypeOK, NEW reply \in Replies
  PROVE  /\ Written(ToolCalls(reply), AtOnce(ToolCalls(reply))) \in [Files -> Nat]
         /\ Replanned(ToolCalls(reply)) \in Seq({"step", "label", "blank"})
  <1> DEFINE cs == ToolCalls(reply)
             by(f) == {i \in AtOnce(cs) : cs[i].tool \in Writers /\ cs[i].fate = "works"
                                          /\ cs[i].path = f}
             todo == {i \in AtOnce(cs) : cs[i].tool = "todo_write"}
  <1>1. AtOnce(cs) \subseteq DOMAIN cs
    BY DEF AtOnce
  <1>2. \A f \in Files : Cardinality(by(f)) \in Nat
    <2> TAKE f \in Files
    <2>1. by(f) \subseteq DOMAIN cs
      BY <1>1
    <2>2. IsFiniteSet(by(f))
      BY <2>1, CallsTyped, FS_Subset
    <2> QED
      BY <2>2, FS_CardinalityType
  <1>3. Written(cs, AtOnce(cs)) = [f \in Files |-> tree[f] + Cardinality(by(f))]
    BY DEF Written
  <1>4. Written(cs, AtOnce(cs)) \in [Files -> Nat]
    <2>1. \A f \in Files : tree[f] \in Nat
      BY DEF TypeOK
    <2> HIDE DEF by
    <2>2. \A f \in Files : tree[f] + Cardinality(by(f)) \in Nat
      BY <1>2, <2>1
    <2> QED
      BY <1>3, <2>2
  <1>5. Replanned(cs) \in Seq({"step", "label", "blank"})
    <2>1. CASE todo = {}
      BY <2>1 DEF Replanned, TypeOK
    <2>2. CASE todo # {}
      <3>1. todo \in SUBSET (1..Len(reply.blocks)) /\ Len(reply.blocks) \in Nat
        BY <1>1, CallsTyped
      <3>2. Max(todo) \in todo
        BY <2>2, <3>1, MaxIsThere
      <3>3. cs[Max(todo)].items \in Seq({"step", "label", "blank"})
        BY <1>1, <3>2, CallsTyped
      <3> QED
        BY <2>2, <3>3 DEF Replanned
    <2> QED
      BY <2>1, <2>2
  <1> QED
    BY <1>4, <1>5

-----------------------------------------------------------------------------
\* What is appended to a transcript leaves a transcript.
LEMMA Appending ==
  ASSUME NEW m, IsTranscript(m), NEW e
  PROVE  /\ Len(m) \in Nat /\ DOMAIN m = 1..Len(m)
         /\ IsTranscript(Append(m, e))
         /\ Len(Append(m, e)) = Len(m) + 1
         /\ DOMAIN Append(m, e) = 1..(Len(m) + 1)
         /\ \A j \in 1..Len(m) : Append(m, e)[j] = m[j]
         /\ Append(m, e)[Len(m) + 1] = e
  <1> DEFINE R == {m[j] : j \in DOMAIN m} \cup {e}
  <1>1. /\ m \in Seq({m[j] : j \in DOMAIN m})
        /\ Len(m) \in Nat /\ DOMAIN m = 1..Len(m)
    BY DEF IsTranscript
  <1>2. m \in Seq(R) /\ e \in R
    BY <1>1
  <1> HIDE DEF R
  <1>3. /\ Append(m, e) \in Seq(R)
        /\ Len(Append(m, e)) = Len(m) + 1
        /\ \A j \in 1..Len(m) : Append(m, e)[j] = m[j]
        /\ Append(m, e)[Len(m) + 1] = e
    BY <1>1, <1>2, AppendProperties
  <1>4. DOMAIN Append(m, e) = 1..(Len(m) + 1)
    BY <1>3
  <1>5. IsTranscript(Append(m, e))
    BY <1>3 DEF IsTranscript
  <1> QED
    BY <1>1, <1>3, <1>4, <1>5

\* A turn goes in with one result for each of its calls.
LEMMA TurnKeepsPairs ==
  ASSUME NEW m, IsTranscript(m), Known(m), Paired(m), NEW cs, NEW bs, DOMAIN bs = DOMAIN cs
  PROVE  LET n == m \o <<Assistant(cs), User(bs)>>
         IN  /\ IsTranscript(n) /\ Known(n) /\ Paired(n)
             /\ Len(n) \in Nat \ {0} /\ n[Len(n)].role = "user"
  <1> DEFINE a == Append(m, Assistant(cs))
             n == Append(a, User(bs))
             l == Len(m)
  <1>0. m \o <<Assistant(cs), User(bs)>> = n
    BY DEF IsTranscript
  <1>1. /\ l \in Nat /\ DOMAIN m = 1..l /\ IsTranscript(a) /\ Len(a) = l + 1
        /\ \A j \in 1..l : a[j] = m[j]
        /\ a[l + 1] = Assistant(cs)
    BY Appending
  <1> HIDE DEF a
  <1>2. /\ IsTranscript(n) /\ Len(n) = l + 2 /\ DOMAIN n = 1..(l + 2)
        /\ \A j \in 1..l : n[j] = m[j]
        /\ n[l + 1] = Assistant(cs) /\ n[l + 2] = User(bs)
    <2>1. /\ IsTranscript(n) /\ Len(n) = Len(a) + 1 /\ DOMAIN n = 1..(Len(a) + 1)
          /\ \A j \in 1..Len(a) : n[j] = a[j]
          /\ n[Len(a) + 1] = User(bs)
      BY <1>1, Appending
    <2> HIDE DEF n
    <2> QED
      BY <1>1, <2>1
  <1> HIDE DEF n, l
  <1>3. Known(n)
    BY <1>1, <1>2 DEF Known, Roles, Assistant, User
  <1>4. Paired(n)
    <2> SUFFICES ASSUME NEW j \in 1..(l + 2)
                 PROVE  /\ n[j].role = "assistant" =>
                             /\ j + 1 \in 1..(l + 2) /\ n[j + 1].role = "user"
                             /\ DOMAIN n[j + 1].results = DOMAIN n[j].calls
                        /\ n[j].role = "user" => j > 1 /\ n[j - 1].role = "assistant"
      BY <1>2 DEF Paired
    <2>1. CASE j \in 1..l
      <3>1. n[j] = m[j]
        BY <1>2, <2>1
      <3>2. m[j].role = "assistant" =>
              /\ j + 1 \in 1..l /\ m[j + 1].role = "user"
              /\ DOMAIN m[j + 1].results = DOMAIN m[j].calls
        BY <1>1, <2>1 DEF Paired
      <3>3. m[j].role = "user" => j > 1 /\ m[j - 1].role = "assistant"
        BY <1>1, <2>1 DEF Paired
      <3>4. j > 1 => j - 1 \in 1..l
        BY <1>1, <2>1
      <3> QED
        BY <1>1, <1>2, <2>1, <3>1, <3>2, <3>3, <3>4
    <2>2. CASE j = l + 1
      <3>1. n[j] = Assistant(cs) /\ n[j + 1] = User(bs) /\ j + 1 \in 1..(l + 2)
        BY <1>1, <1>2, <2>2
      <3> QED
        BY <3>1 DEF Assistant, User
    <2>3. CASE j = l + 2
      <3>1. n[j] = User(bs) /\ n[j - 1] = Assistant(cs) /\ j > 1
        BY <1>1, <1>2, <2>3
      <3> QED
        BY <3>1 DEF Assistant, User
    <2> QED
      BY <1>1, <2>1, <2>2, <2>3
  <1>5. Len(n) \in Nat \ {0} /\ n[Len(n)].role = "user"
    BY <1>1, <1>2 DEF User
  <1> QED
    BY <1>0, <1>2, <1>3, <1>4, <1>5

\* A compaction's drop leaves every message where it was, with as many results.
LEMMA DropFacts ==
  ASSUME NEW m, IsTranscript(m), Known(m), Paired(m)
  PROVE  LET d == DropSupersededReads(m)
         IN  /\ IsTranscript(d) /\ Len(d) = Len(m) /\ DOMAIN d = DOMAIN m
             /\ \A j \in DOMAIN m :
                  /\ m[j].role # "user" => d[j] = m[j]
                  /\ m[j].role = "user" =>
                       /\ d[j].role = "user" /\ DOMAIN d[j].results = DOMAIN m[j].results
                       /\ \A r \in DOMAIN m[j].results :
                            /\ m[j - 1].calls[r].tool = "read_file"
                            /\ m[j - 1].calls[r].path \in Edited(m)
                            => d[j].results[r].dropped
  <1> DEFINE d == DropSupersededReads(m)
             l == Len(m)
             R == {d[j] : j \in DOMAIN d}
             Superseded(j, i) == /\ m[j - 1].calls[i].tool = "read_file"
                                 /\ m[j - 1].calls[i].path \in Edited(m)
             Blanked(j) == [i \in DOMAIN m[j].results |->
                              IF Superseded(j, i) THEN Blank(m[j].results[i])
                                                  ELSE m[j].results[i]]
  <1>1. d = [j \in DOMAIN m |-> IF m[j].role = "user" THEN User(Blanked(j)) ELSE m[j]]
    BY DEF DropSupersededReads
  <1>2. l \in Nat /\ DOMAIN m = 1..l
    BY DEF IsTranscript
  <1>3. \A j \in DOMAIN m : d[j] = IF m[j].role = "user" THEN User(Blanked(j)) ELSE m[j]
    BY <1>1
  <1>4. DOMAIN d = 1..l
    BY <1>1, <1>2
  <1>5. IsTranscript(d) /\ Len(d) = l
    <2> HIDE DEF d
    <2>1. d \in [1..l -> R]
      <3>1. d = [j \in DOMAIN d |-> d[j]]
        BY <1>1
      <3> QED
        BY <1>4, <3>1
    <2>2. d \in Seq(R)
      BY <1>2, <2>1, SeqDef
    <2>3. Len(d) \in Nat /\ DOMAIN d = 1..Len(d)
      BY <2>2, LenProperties
    <2>4. Len(d) = l
      BY <1>2, <1>4, <2>3
    <2> QED
      BY <2>2, <2>4 DEF IsTranscript
  <1>6. ASSUME NEW j \in DOMAIN m, m[j].role = "user"
        PROVE  /\ d[j].role = "user" /\ DOMAIN d[j].results = DOMAIN m[j].results
               /\ \A r \in DOMAIN m[j].results : Superseded(j, r) => d[j].results[r].dropped
    <2>1. d[j] = User(Blanked(j))
      BY <1>3, <1>6
    <2> HIDE DEF d
    <2>2. d[j].role = "user" /\ d[j].results = Blanked(j)
      BY <2>1 DEF User
    <2>3. \A r \in DOMAIN m[j].results :
            Superseded(j, r) => Blanked(j)[r] = Blank(m[j].results[r])
      OBVIOUS
    <2>4. ASSUME NEW r \in DOMAIN m[j].results, Superseded(j, r)
          PROVE  d[j].results[r].dropped
      <3> HIDE DEF Superseded, Blanked
      <3>1. d[j].results[r] = Blank(m[j].results[r])
        BY <2>2, <2>3, <2>4
      <3> QED
        BY <3>1 DEF Blank
    <2>5. DOMAIN Blanked(j) = DOMAIN m[j].results
      OBVIOUS
    <2> QED
      BY <2>2, <2>4, <2>5
  <1>7. \A j \in DOMAIN m : m[j].role # "user" => d[j] = m[j]
    BY <1>3
  <1> HIDE DEF d
  <1> QED
    BY <1>2, <1>4, <1>5, <1>6, <1>7 DEF d

\* What is edited is what the assistant's turns say.
LEMMA EditedOf ==
  ASSUME NEW m, NEW n,
         \A j \in DOMAIN n : n[j].role = "assistant" => j \in DOMAIN m /\ m[j] = n[j]
  PROVE  Edited(n) \subseteq Edited(m)
  <1>1. Asked(n) \subseteq Asked(m)
    BY DEF Asked
  <1> QED
    BY <1>1 DEF Edited

\* What is sent to the model is a transcript, and shows no stale read when it was compacted.
LEMMA CompactedFacts ==
  ASSUME NEW m, IsTranscript(m), Known(m), Paired(m), m[Len(m)].role # "anchor", NEW d
  PROVE  LET c == Compacted(m, d)
         IN  /\ IsTranscript(c) /\ Known(c) /\ Paired(c)
             /\ c[Len(c)].role = "anchor" => StaleFree(c)
  <1> DEFINE dropped == DropSupersededReads(m)
             l == Len(m)
             c == Append(dropped, Anchor(planText, d))
  <1>1. CASE EstimatedTokens(m) < TriggerTokens
    BY <1>1 DEF Compacted
  <1>2. CASE ~(EstimatedTokens(m) < TriggerTokens)
    <2>1. Compacted(m, d) = c
      BY <1>2 DEF Compacted
    <2>2. /\ IsTranscript(dropped) /\ Len(dropped) = l /\ DOMAIN dropped = DOMAIN m
          /\ \A j \in DOMAIN m :
               /\ m[j].role # "user" => dropped[j] = m[j]
               /\ m[j].role = "user" =>
                    /\ dropped[j].role = "user" /\ DOMAIN dropped[j].results = DOMAIN m[j].results
                    /\ \A r \in DOMAIN m[j].results :
                         /\ m[j - 1].calls[r].tool = "read_file"
                         /\ m[j - 1].calls[r].path \in Edited(m)
                         => dropped[j].results[r].dropped
      BY DropFacts
    <2>3. l \in Nat /\ DOMAIN m = 1..l
      BY DEF IsTranscript
    <2> HIDE DEF dropped
    <2>4. /\ IsTranscript(c) /\ Len(c) = l + 1 /\ DOMAIN c = 1..(l + 1)
          /\ \A j \in 1..l : c[j] = dropped[j]
          /\ c[l + 1] = Anchor(planText, d)
      BY <2>2, Appending
    <2>5. c[l + 1].role = "anchor"
      BY <2>4 DEF Anchor
    <2> HIDE DEF c, l
    <2>6. \A j \in 1..l : c[j].role = m[j].role
      BY <2>2, <2>3, <2>4
    <2>7. Known(c)
      BY <2>3, <2>4, <2>5, <2>6 DEF Known, Roles
    <2>8. \A j \in 1..l : m[j].role = "assistant" =>
            /\ j + 1 \in 1..l /\ m[j + 1].role = "user"
            /\ DOMAIN m[j + 1].results = DOMAIN m[j].calls
            /\ c[j] = m[j] /\ DOMAIN c[j + 1].results = DOMAIN m[j + 1].results
      BY <2>2, <2>3, <2>4 DEF Paired
    <2>9. \A j \in 1..l : m[j].role = "user" =>
            j > 1 /\ j - 1 \in 1..l /\ m[j - 1].role = "assistant" /\ c[j - 1] = m[j - 1]
      BY <2>2, <2>3, <2>4 DEF Paired
    <2>10. Paired(c)
      <3> SUFFICES ASSUME NEW j \in 1..(l + 1)
                   PROVE  /\ c[j].role = "assistant" =>
                               /\ j + 1 \in 1..(l + 1) /\ c[j + 1].role = "user"
                               /\ DOMAIN c[j + 1].results = DOMAIN c[j].calls
                          /\ c[j].role = "user" => j > 1 /\ c[j - 1].role = "assistant"
        BY <2>4 DEF Paired
      <3>1. CASE j \in 1..l
        <4>1. c[j].role = "assistant" =>
                /\ j + 1 \in 1..(l + 1) /\ c[j + 1].role = "user"
                /\ DOMAIN c[j + 1].results = DOMAIN c[j].calls
          BY <2>3, <2>6, <2>8, <3>1
        <4>2. c[j].role = "user" => j > 1 /\ c[j - 1].role = "assistant"
          BY <2>6, <2>9, <3>1
        <4> QED
          BY <4>1, <4>2
      <3>2. CASE j = l + 1
        BY <2>5, <3>2
      <3> QED
        BY <2>3, <3>1, <3>2
    <2>11. StaleFree(c)
      <3>1. Edited(c) \subseteq Edited(m)
        <4>1. \A j \in DOMAIN c : c[j].role = "assistant" => j \in DOMAIN m /\ m[j] = c[j]
          BY <2>3, <2>4, <2>5, <2>6, <2>8
        <4> QED
          BY <4>1, EditedOf
      <3> SUFFICES ASSUME NEW j \in 1..(l + 1), c[j].role = "user", NEW r \in DOMAIN c[j].results,
                          c[j - 1].calls[r].tool = "read_file",
                          c[j - 1].calls[r].path \in Edited(c)
                   PROVE  c[j].results[r].dropped
        BY <2>4 DEF StaleFree
      <3>2. j \in 1..l
        BY <2>3, <2>5
      <3>3. m[j].role = "user" /\ c[j - 1] = m[j - 1] /\ c[j] = dropped[j]
        BY <2>4, <2>6, <2>9, <3>2
      <3>4. r \in DOMAIN m[j].results
        BY <2>2, <2>3, <3>2, <3>3
      <3> QED
        BY <2>2, <2>3, <3>1, <3>2, <3>3, <3>4
    <2> QED
      BY <2>1, <2>4, <2>7, <2>10, <2>11
  <1> QED
    BY <1>1, <1>2

-----------------------------------------------------------------------------
Outcomes == {"completed", "finished", "failed", "cancelled", "no_plan",
             "budget_exhausted", "over_ceiling", "provider_error"}

\* What a step leaves of the session's columns and the workspace.
SessionTyped ==
  /\ halted \in BOOLEAN /\ spent \in Nat
  /\ plan \in Seq({"step", "label", "blank"}) /\ planText \in Seq({"step"})
  /\ tree \in [Files -> Nat] /\ k \in 0..Len(Phases)

\* When create_plan() or run() is over, its context is gone.
LEMMA EndKeeps ==
  ASSUME NEW o \in Outcomes, End(o), SessionTyped', OvershootIsOneCall'
  PROVE  IInv'
  <1>1. /\ pc' = "done" /\ outcome' = o /\ steps' = 0 /\ messages' = <<>>
        /\ calls' = <<>> /\ blocks' = <<>> /\ waiting' = {}
    BY DEF End
  <1>2. messages' \in Seq({messages'[j] : j \in DOMAIN messages'}) /\ DOMAIN messages' = {}
    BY <1>1, EmptySeq
  <1>3. TypeOK'
    <2>1. steps' \in 0..(StepBudget - 1)
      BY <1>1, LoopAssumption
    <2>2. /\ pc' \in {"planning", "replanning", "idle", "model", "tools", "done"}
          /\ outcome' \in {"none", "completed", "finished", "failed", "cancelled", "no_plan",
                           "budget_exhausted", "over_ceiling", "provider_error"}
          /\ (pc' = "done") <=> (outcome' # "none")
      BY <1>1 DEF Outcomes
    <2>3. DOMAIN blocks' = DOMAIN calls' /\ waiting' \subseteq DOMAIN calls'
      BY <1>1
    <2> QED
      BY <1>2, <2>1, <2>2, <2>3 DEF SessionTyped, TypeOK
  <1>4. TranscriptInv'
    BY <1>2 DEF TranscriptInv, IsTranscript, Paired
  <1>5. CeilingInv' /\ StaleInv'
    BY <1>1 DEF CeilingInv, StaleInv
  <1> QED
    BY <1>3, <1>4, <1>5 DEF IInv

\* The top of the loop: with a step of the budget and money left the transcript is
\* compacted and sent.
LEMMA TopKeeps ==
  ASSUME IInv, NEW m, IsTranscript(m), Known(m), Paired(m), m[Len(m)].role # "anchor",
         NEW d, NEW n \in Nat, Top(m, d, n), pc # "done",
         UNCHANGED <<halted, spent, tree, plan, planText, k>>
  PROVE  IInv'
  <1>1. SessionTyped' /\ OvershootIsOneCall'
    BY DEF IInv, TypeOK, SessionTyped, OvershootIsOneCall
  <1>2. ASSUME NEW o \in {"budget_exhausted", "cancelled", "over_ceiling"}, End(o)
        PROVE  IInv'
    BY <1>1, <1>2, EndKeeps DEF Outcomes
  <1>3. CASE /\ ~BudgetExhausted(n) /\ ~CeilingReached
             /\ pc' = "model" /\ steps' = n /\ messages' = Compacted(m, d) /\ diff' = d
             /\ calls' = <<>> /\ blocks' = <<>> /\ waiting' = {} /\ UNCHANGED outcome
    <2>1. /\ IsTranscript(messages') /\ Known(messages') /\ Paired(messages')
          /\ messages'[Len(messages')].role = "anchor" => StaleFree(messages')
      BY <1>3, CompactedFacts
    <2>2. TypeOK'
      <3>1. steps' \in 0..(StepBudget - 1)
        BY <1>3, LoopAssumption DEF BudgetExhausted
      <3>2. pc' = "model" /\ outcome' = "none"
        BY <1>3 DEF IInv, TypeOK
      <3>3. DOMAIN blocks' = DOMAIN calls' /\ waiting' \subseteq DOMAIN calls'
        BY <1>3
      <3>4. \A j \in DOMAIN messages' :
              messages'[j].role \in {"instruction", "assistant", "user", "anchor"}
        BY <2>1 DEF Known, Roles
      <3> QED
        BY <1>1, <3>1, <3>2, <3>3, <3>4 DEF SessionTyped, TypeOK
    <2>3. TranscriptInv' /\ StaleInv'
      BY <2>1 DEF TranscriptInv, StaleInv, IsTranscript, Paired, StaleFree, Edited, Asked
    <2>4. CeilingInv'
      BY <1>3, LoopAssumption DEF CeilingReached, CeilingInv, IInv, TypeOK
    <2> QED
      BY <1>1, <2>2, <2>3, <2>4 DEF IInv
  <1> QED
    BY <1>2, <1>3 DEF Top

-----------------------------------------------------------------------------
\* The inductive invariant types what a step of the session reads.
LEMMA IsTyped == IInv => SessionTyped
  BY DEF IInv, TypeOK, SessionTyped

\* A step of create_plan(): a plan, a second question, or PlanningError.
LEMMA PlanningKeeps ==
  ASSUME IInv, NEW reply \in Replies, PlanReturns(reply) \/ PlanRejected(reply)
  PROVE  IInv'
  <1>1. UNCHANGED <<halted, spent, tree, k>> /\ OvershootIsOneCall'
    BY DEF PlanReturns, PlanRejected, IInv, OvershootIsOneCall
  <1>2. CASE PlanReturns(reply)
    <2>1. SessionTyped'
      BY <1>1, <1>2, DraftTyped, IsTyped DEF PlanReturns, SessionTyped
    <2>2. End("completed")
      BY <1>2 DEF PlanReturns
    <2> QED
      BY <1>1, <2>1, <2>2, EndKeeps DEF Outcomes
  <1>3. CASE End("no_plan") /\ UNCHANGED <<plan, planText>>
    <2>1. SessionTyped'
      BY <1>1, <1>3, IsTyped DEF SessionTyped
    <2> QED
      BY <1>1, <1>3, <2>1, EndKeeps DEF Outcomes
  <1>4. CASE /\ pc = "planning" /\ pc' = "replanning"
             /\ UNCHANGED <<plan, planText, context, outcome>>
    <2>1. UNCHANGED <<steps, messages, diff, calls, blocks, waiting>>
      BY <1>4 DEF context
    <2>2. TypeOK'
      BY <1>1, <1>4, <2>1 DEF IInv, TypeOK
    <2>3. TranscriptInv' /\ CeilingInv' /\ StaleInv'
      BY <1>4, <2>1 DEF IInv, TranscriptInv, CeilingInv, StaleInv
    <2> QED
      BY <1>1, <2>2, <2>3 DEF IInv
  <1> QED
    BY <1>2, <1>3, <1>4 DEF PlanRejected

\* The orchestrator goes on, and a phase begins with its instruction.
LEMMA PhasesKeep ==
  ASSUME IInv, NextPhase \/ EnterPhase
  PROVE  IInv'
  <1>1. CASE NextPhase
    <2>1. /\ UNCHANGED <<halted, spent, tree, plan, planText, steps, messages, diff, calls, blocks,
                         waiting>>
          /\ k' = k + 1 /\ k < Len(Phases) /\ pc' = "idle" /\ outcome' = "none"
      BY <1>1 DEF NextPhase, context
    <2>2. k' \in 0..Len(Phases)
      BY <2>1 DEF IInv, TypeOK
    <2>3. TypeOK'
      BY <2>1, <2>2 DEF IInv, TypeOK
    <2>4. TranscriptInv' /\ CeilingInv' /\ OvershootIsOneCall' /\ StaleInv'
      BY <2>1 DEF IInv, TranscriptInv, CeilingInv, OvershootIsOneCall, StaleInv
    <2> QED
      BY <2>3, <2>4 DEF IInv
  <1>2. CASE EnterPhase
    <2>1. /\ Top(<<Instruction>>, Nothing, 0) /\ pc # "done"
          /\ UNCHANGED <<halted, spent, tree, plan, planText, k>>
      BY <1>2 DEF EnterPhase
    <2> DEFINE m == <<Instruction>>
    <2>2. m \in Seq({Instruction}) /\ DOMAIN m = 1..1 /\ m[1] = Instruction /\ Len(m) = 1
      OBVIOUS
    <2>3. \A j \in DOMAIN m : m[j].role = "instruction"
      BY <2>2 DEF Instruction
    <2>4. IsTranscript(m)
      BY <2>2 DEF IsTranscript
    <2>5. Known(m) /\ Paired(m) /\ m[Len(m)].role # "anchor"
      BY <2>2, <2>3 DEF Known, Roles, Paired
    <2> HIDE DEF m
    <2> QED
      BY <2>1, <2>4, <2>5, TopKeeps DEF m
  <1> QED
    BY <1>1, <1>2

\* An answer is paid for below the ceiling.
LEMMA AnsweredKeeps ==
  ASSUME IInv, NEW reply \in Replies, Answered(reply)
  PROVE  /\ spent' \in Nat /\ OvershootIsOneCall' /\ UNCHANGED <<halted, planText, k>>
         /\ pc = "model"
  <1>1. /\ spent' = spent + CostFor(reply) /\ UNCHANGED <<halted, planText, k>> /\ pc = "model"
    BY DEF Answered
  <1>2. spent \in Nat /\ spent < CostCeiling /\ CostFor(reply) \in Nat /\ CostCeiling \in Nat
    BY <1>1, CostIsNat, LoopAssumption DEF IInv, TypeOK, CeilingInv
  <1>3. spent' \in Nat /\ spent' < CostCeiling + CostFor(reply)
    BY <1>1, <1>2
  <1>4. OvershootIsOneCall'
    BY <1>3 DEF OvershootIsOneCall, CostFor, Count
  <1> QED
    BY <1>1, <1>3, <1>4

\* An answer that ends the turn, and one that calls tools.
LEMMA TurnsKeep ==
  ASSUME IInv, NEW reply \in Replies, TurnEnds(reply) \/ CallsTools(reply)
  PROVE  IInv'
  <1>1. /\ spent' \in Nat /\ OvershootIsOneCall' /\ UNCHANGED <<halted, planText, k>>
        /\ pc = "model"
    BY AnsweredKeeps DEF TurnEnds, CallsTools
  <1>2. CASE TurnEnds(reply)
    <2>1. SessionTyped'
      BY <1>1, <1>2, IsTyped DEF TurnEnds, SessionTyped
    <2>2. End("failed") \/ End("completed")
      BY <1>2 DEF TurnEnds
    <2> QED
      BY <1>1, <2>1, <2>2, EndKeeps DEF Outcomes
  <1>3. CASE CallsTools(reply)
    <2> DEFINE cs == ToolCalls(reply)
    <2>1. /\ pc' = "tools" /\ calls' = cs /\ blocks' = StartCalls(cs) /\ waiting' = Awaiting(cs)
          /\ tree' = Written(cs, AtOnce(cs)) /\ plan' = Replanned(cs)
          /\ UNCHANGED <<steps, messages, diff, outcome>>
      BY <1>3 DEF CallsTools
    <2>2. tree' \in [Files -> Nat] /\ plan' \in Seq({"step", "label", "blank"})
      BY <2>1, WrittenTyped DEF IInv
    <2>3. DOMAIN blocks' = DOMAIN calls' /\ waiting' \subseteq DOMAIN calls'
      BY <2>1 DEF StartCalls, Awaiting
    <2>4. TypeOK'
      BY <1>1, <2>1, <2>2, <2>3 DEF IInv, TypeOK
    <2>5. TranscriptInv' /\ CeilingInv' /\ StaleInv'
      BY <2>1 DEF IInv, TranscriptInv, CeilingInv, StaleInv
    <2> QED
      BY <1>1, <2>4, <2>5 DEF IInv
  <1> QED
    BY <1>2, <1>3

\* The model fails, a command ends, or somebody cancels.
LEMMA OutsideKeeps ==
  ASSUME IInv, ModelFails \/ Cancel \/ \E i \in waiting : ToolReturns(i)
  PROVE  IInv'
  <1>1. CASE ModelFails
    <2>1. /\ End("provider_error")
          /\ UNCHANGED <<halted, spent, tree, plan, planText, k>>
      BY <1>1 DEF ModelFails
    <2>2. SessionTyped' /\ OvershootIsOneCall'
      BY <2>1, IsTyped DEF SessionTyped, IInv, OvershootIsOneCall
    <2> QED
      BY <2>1, <2>2, EndKeeps DEF Outcomes
  <1>2. CASE Cancel
    <2>1. /\ halted' = TRUE
          /\ UNCHANGED <<spent, tree, plan, planText, k, pc, steps, messages, diff, calls, blocks,
                         waiting, outcome>>
      BY <1>2 DEF Cancel, context
    <2>2. TypeOK'
      BY <2>1 DEF IInv, TypeOK
    <2>3. TranscriptInv' /\ CeilingInv' /\ OvershootIsOneCall' /\ StaleInv'
      BY <2>1 DEF IInv, TranscriptInv, CeilingInv, OvershootIsOneCall, StaleInv
    <2> QED
      BY <2>2, <2>3 DEF IInv
  <1>3. ASSUME NEW i \in waiting, ToolReturns(i)
        PROVE  IInv'
    <2>1. /\ waiting' = waiting \ {i}
          /\ blocks' = [blocks EXCEPT ![i] = Returned(calls[i], tree)]
          /\ UNCHANGED <<halted, spent, plan, planText, k, pc, steps, messages, diff, calls, outcome>>
          /\ tree' = tree \/ \E f \in Files : tree' = [tree EXCEPT ![f] = @ + 1]
      BY <1>3 DEF ToolReturns
    <2>2. tree' \in [Files -> Nat]
      <3>1. tree \in [Files -> Nat]
        BY DEF IInv, TypeOK
      <3>2. ASSUME NEW f \in Files, tree' = [tree EXCEPT ![f] = @ + 1]
            PROVE  tree' \in [Files -> Nat]
        BY <3>1, <3>2
      <3> QED
        BY <2>1, <3>1, <3>2
    <2>3. DOMAIN blocks' = DOMAIN calls' /\ waiting' \subseteq DOMAIN calls'
      BY <2>1 DEF IInv, TypeOK
    <2>4. TypeOK'
      BY <2>1, <2>2, <2>3 DEF IInv, TypeOK
    <2>5. TranscriptInv' /\ CeilingInv' /\ OvershootIsOneCall' /\ StaleInv'
      BY <2>1 DEF IInv, TranscriptInv, CeilingInv, OvershootIsOneCall, StaleInv
    <2> QED
      BY <2>4, <2>5 DEF IInv
  <1> QED
    BY <1>1, <1>2, <1>3

\* The turn goes into the transcript with all its results.
LEMMA BatchKeeps ==
  ASSUME IInv, BatchReturns
  PROVE  IInv'
  <1>1. UNCHANGED <<halted, spent, tree, plan, planText, k>> /\ pc = "tools"
    BY DEF BatchReturns
  <1>2. CASE End("finished")
    <2>1. SessionTyped' /\ OvershootIsOneCall'
      BY <1>1, IsTyped DEF SessionTyped, IInv, OvershootIsOneCall
    <2> QED
      BY <1>2, <2>1, EndKeeps DEF Outcomes
  <1>3. CASE Top(messages \o <<Assistant(calls), User(blocks)>>, CaptureDiff(calls, blocks),
                 steps + 1)
    <2> DEFINE m == messages \o <<Assistant(calls), User(blocks)>>
    <2>1. steps + 1 \in Nat
      BY LoopAssumption DEF IInv, TypeOK
    <2>2. /\ IsTranscript(m) /\ Known(m) /\ Paired(m) /\ m[Len(m)].role = "user"
      <3>1. /\ IsTranscript(messages) /\ Known(messages) /\ Paired(messages)
            /\ DOMAIN blocks = DOMAIN calls
        BY DEF IInv, TypeOK, TranscriptInv, Known, Roles
      <3> QED
        BY <3>1, TurnKeepsPairs
    <2> HIDE DEF m
    <2> QED
      BY <1>1, <1>3, <2>1, <2>2, TopKeeps DEF m
  <1> QED
    BY <1>2, <1>3 DEF BatchReturns

-----------------------------------------------------------------------------
\* No call was asked for yet.
LEMMA InitIInv == Init => IInv
  <1> SUFFICES ASSUME Init
               PROVE  IInv
    OBVIOUS
  <1>1. TypeOK
    <2>1. /\ plan \in Seq({"step", "label", "blank"}) /\ planText \in Seq({"step"})
      BY EmptySeq DEF Init
    <2>2. steps \in 0..(StepBudget - 1) /\ spent \in Nat /\ tree \in [Files -> Nat]
      BY LoopAssumption DEF Init
    <2>3. k \in 0..Len(Phases)
      <3>1. Len(Phases) \in Nat
        BY LoopAssumption
      <3> QED
        BY <3>1 DEF Init
    <2>4. DOMAIN blocks = DOMAIN calls /\ waiting \subseteq DOMAIN calls /\ DOMAIN messages = {}
      BY DEF Init
    <2>5. halted \in BOOLEAN
      BY DEF Init
    <2> QED
      BY <2>1, <2>2, <2>3, <2>4, <2>5 DEF Init, TypeOK
  <1>2. TranscriptInv
    <2>1. messages \in Seq({messages[j] : j \in DOMAIN messages}) /\ DOMAIN messages = {}
      BY EmptySeq DEF Init
    <2> QED
      BY <2>1 DEF TranscriptInv, IsTranscript, Paired
  <1>3. CeilingInv /\ StaleInv
    BY DEF Init, CeilingInv, StaleInv
  <1>4. OvershootIsOneCall
    BY LoopAssumption DEF Init, OvershootIsOneCall
  <1> QED
    BY <1>1, <1>2, <1>3, <1>4 DEF IInv

\* Every step keeps the invariant.
LEMMA NextKeepsIInv == IInv /\ [Next]_vars => IInv'
  <1> SUFFICES ASSUME IInv, [Next]_vars
               PROVE  IInv'
    OBVIOUS
  <1>1. CASE Next
    BY <1>1, PlanningKeeps, PhasesKeep, TurnsKeep, OutsideKeeps, BatchKeeps DEF Next
  <1>2. CASE UNCHANGED vars
    <2>1. UNCHANGED <<halted, spent, tree, plan, planText, k, pc, steps, messages, diff, calls,
                      blocks, waiting, outcome>>
      BY <1>2 DEF vars, context
    <2>2. TypeOK'
      BY <2>1 DEF IInv, TypeOK
    <2>3. TranscriptInv' /\ CeilingInv' /\ OvershootIsOneCall' /\ StaleInv'
      BY <2>1 DEF IInv, TranscriptInv, CeilingInv, OvershootIsOneCall, StaleInv
    <2> QED
      BY <2>2, <2>3 DEF IInv
  <1> QED
    BY <1>1, <1>2

\* The strengthening of the three theorems holds of every behaviour.
LEMMA Inductive == Spec => []IInv
  BY InitIInv, NextKeepsIInv, PTL DEF Spec

\* What the model is sent has one result for every call and none without (AgentContext.extend),
\* however many turns there were and wherever the transcript was compacted.
THEOREM EveryCallIsAnswered == Spec => []PairedResults
  <1>1. IInv => PairedResults
    BY DEF IInv, TranscriptInv, Paired, PairedResults
  <1> QED
    BY Inductive, <1>1, PTL

\* A phase keeps within its steps, a plan within its kind of items, and a session's books
\* within the ceiling and one call (AgentLoop._check_cost_ceiling).
THEOREM LimitsHold == Spec => []WithinLimits
  <1>1. IInv => WithinLimits
    BY DEF IInv, WithinLimits
  <1> QED
    BY Inductive, <1>1, PTL

\* A compacted transcript shows no file as it was before a later edit
\* (AgentContext.drop_superseded_reads).
THEOREM NoStaleRead == Spec => []StaleReadsGo
  <1>1. IInv => StaleReadsGo
    <2> SUFFICES ASSUME IInv, pc = "model", messages[Len(messages)].role = "anchor",
                        NEW j \in DOMAIN messages, NEW l \in DOMAIN messages,
                        messages[j].role = "user", messages[l].role = "user",
                        NEW r \in DOMAIN messages[j].results, NEW w \in DOMAIN messages[l].results,
                        messages[j - 1].calls[r].tool = "read_file",
                        messages[l - 1].calls[w].tool \in Writers,
                        messages[j - 1].calls[r].path = messages[l - 1].calls[w].path
                 PROVE  messages[j].results[r].dropped
      BY DEF StaleReadsGo
    <2>1. Len(messages) \in Nat /\ DOMAIN messages = 1..Len(messages)
      BY DEF IInv, TranscriptInv, IsTranscript
    <2>2. l > 1 /\ messages[l - 1].role = "assistant"
      BY DEF IInv, TranscriptInv, Paired
    <2>3. l - 1 \in DOMAIN messages /\ (l - 1) + 1 = l
      BY <2>1, <2>2
    <2>4. DOMAIN messages[l].results = DOMAIN messages[l - 1].calls
      BY <2>2, <2>3 DEF IInv, TranscriptInv, Paired
    <2>5. messages[l - 1].calls[w] \in Asked(messages)
      BY <2>2, <2>3, <2>4 DEF Asked, Range
    <2>6. messages[j - 1].calls[r].path \in Edited(messages)
      BY <2>5 DEF Edited
    <2>7. StaleFree(messages)
      BY DEF IInv, StaleInv
    <2> QED
      BY <2>6, <2>7 DEF StaleFree
  <1> QED
    BY Inductive, <1>1, PTL
=============================================================================
