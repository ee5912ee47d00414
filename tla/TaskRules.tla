----------------------------- MODULE TaskRules ------------------------------
(***************************************************************************)
(* The calculations of the tasks and of the index, each started on every   *)
(* input of a bounded set: what the worker computes from a request, and    *)
(* what the clients do with it.                                            *)
(***************************************************************************)
EXTENDS Redaction, Chunking, Ranking

CONSTANTS CardRuns,       \* runs of digits, as groups
          IbanRuns,       \* runs of letters and digits: [sizes, opens, valid]
          WordRuns,       \* [words, joiners, wanted, least]
          CandidateSets,  \* [length, spans] of a text
          Texts,          \* [text, chars, overlap]
          Sizes,          \* [sizes, most, bytes] of the texts to embed
          Shown,          \* [n, match, most] of a snippet
          None,
          Requests,       \* [query, texts, topK]
          Loads,          \* [total, batch]
          Scores,         \* [scores, topK]
          Vectors,        \* [words, whole, buckets]
          Answers         \* [status, progress]

(* What the programs know of their inputs.  A text has no more characters  *)
(* than bytes, and two that the worker accepts fit into one request.       *)
ASSUME InputAssumption ==
  /\ {MinDigits, MaxDigits, MaxField, MaxTotal, MaxTexts, RequestBytes} \subseteq Nat
  /\ MaxTexts >= 1 /\ 2 * MaxField <= MaxTotal
  /\ \A run \in CardRuns : run \in Seq(Seq(0 .. 9))
  /\ \A run \in IbanRuns : run.sizes \in Seq(Nat)
  /\ \A r \in WordRuns :
       /\ r.words \in Seq([start : Nat, end : Nat, prefix : {"B", "I", "O"}, label : STRING, score : Nat])
       /\ \A i \in DOMAIN r.words : r.words[i].start <= r.words[i].end
       /\ \A i \in 2 .. Len(r.words) : r.words[i - 1].end <= r.words[i].start
       /\ r.least \in Nat
  /\ \A c \in CandidateSets :
       /\ c.length \in Nat /\ IsFiniteSet(c.spans)
       /\ \A s \in c.spans :
            /\ s \in [start : Nat, end : Nat, priority : Nat, score : Nat, label : STRING]
            /\ s.start < s.end /\ s.end <= c.length /\ s.label # "none"
  /\ \A t \in Texts : t.text \in Seq({"s", "w"}) /\ t.chars \in Nat \ {0} /\ t.overlap \in Nat
  /\ \A s \in Sizes : s.sizes \in Seq(Nat) /\ s.most \in Nat \ {0} /\ s.bytes \in Nat
  /\ \A s \in Shown : s.most \in Nat /\ s.most >= 4 /\ s.n \in Nat /\ (s.match # None => s.match \in 0 .. s.n - 1)
  /\ \A r \in Requests :
       /\ r.texts \in Seq([chars : Nat, bytes : Nat, blank : BOOLEAN]) /\ r.topK \in Nat
       /\ \A t \in {r.query} \cup Range(r.texts) :
            /\ t \in [chars : Nat, bytes : Nat, blank : BOOLEAN] /\ t.chars <= t.bytes
            /\ t.chars <= MaxField => 2 * t.bytes < RequestBytes
  /\ \A l \in Loads : {l.total, l.batch} \subseteq Nat \ {0}
  /\ \A s \in Scores : s.scores \in Seq(Int) /\ s.topK \in 1 .. Len(s.scores)
  /\ \A v \in Vectors : v.whole \in v.buckets \X {1, -1} /\ v.words \in Seq(v.buckets \X {1, -1})
  /\ \A a \in Answers :
       /\ a.status \in {"queued", "running", "succeeded", "failed", "timed_out", "cancelled"}
       /\ \/ a.progress = <<>>
          \/ \E l \in Loads : \E c \in Range(Reports(l.total, l.batch)) :
               a.progress = <<[completed |-> c, total |-> l.total]>>

VARIABLES task, input, done, result
vars == <<task, input, done, result>>

Tasks == {"cards", "ibans", "entities", "redact", "chunk", "batch", "snippet", "submit", "keep",
          "progress", "rank", "embed", "answer"}
TypeOK == task \in Tasks /\ done \in BOOLEAN

Init ==
  /\ done = FALSE /\ result = {}
  /\ \/ task = "cards"    /\ input \in CardRuns
     \/ task = "ibans"    /\ input \in IbanRuns
     \/ task = "entities" /\ input \in WordRuns
     \/ task = "redact"   /\ input \in CandidateSets
     \/ task = "chunk"    /\ input \in Texts
     \/ task = "batch"    /\ input \in Sizes
     \/ task = "snippet"  /\ input \in Shown
     \/ task \in {"submit", "keep"} /\ input \in Requests
     \/ task = "progress" /\ input \in Loads
     \/ task = "rank"     /\ input \in Scores
     \/ task = "embed"    /\ input \in Vectors
     \/ task = "answer"   /\ input \in Answers

Runs(t, r) == task = t /\ ~done /\ done' = TRUE /\ result' = r /\ UNCHANGED <<task, input>>

FindCards    == Runs("cards", Cards(input))
FindIbans    == Runs("ibans", Ibans(input))
FindEntities == Runs("entities", Entities(input.words, input.joiners, input.wanted, input.least))
Redact       == Runs("redact", [spans |-> Merge(input.spans), text |-> Masked(input.length, Merge(input.spans))])
CutText      == Runs("chunk", ChunkText(input.text, input.chars, input.overlap))
CutBatches   == Runs("batch", Batches(input.sizes, input.most, input.bytes))
ShowSnippet  == Runs("snippet", Snippet(input.n, input.match, input.most, None))
Submit       == Runs("submit", [tool |-> ToolSubmits(input.query, input.texts, input.topK),
                                client |-> ClientSubmits(input.query, input.texts, input.topK)])
Keep         == Runs("keep", KeptCandidates(input.query, input.texts))
Report       == Runs("progress", Reports(input.total, input.batch))
Rank         == Runs("rank", Rankings(input.scores, input.topK))
Embed        == Runs("embed", HashingVector(input.words, input.whole, input.buckets))
AnswerJob    == Runs("answer", Answer(input.status, input.progress))

Next ==
  \/ FindCards \/ FindIbans \/ FindEntities \/ Redact
  \/ CutText \/ CutBatches \/ ShowSnippet
  \/ Submit \/ Keep \/ Report \/ Rank \/ Embed \/ AnswerJob

Spec == Init /\ [][Next]_vars
-----------------------------------------------------------------------------
Of(t) == done /\ task = t
Asked(topK, texts) == IF topK < Len(texts) THEN topK ELSE Len(texts)

(* Two programs check each other's data by rules written twice, and agree: *)
(* what the worker and the index builder produce is what the readers of    *)
(* both clients accept, and a request the tool submits, or reranks from an *)
(* index, is one the worker accepts; one of the PHP client too, if no text *)
(* of it is too long by itself.                                            *)
SpansFit    == Of("redact") => SpansAccepted(result.spans, input.length)
RankingsFit == Of("rank")   => RankingsAccepted(result, input.scores, input.topK)
VectorsFit  == Of("embed")  => ~Zero(result)
AnswersFit  == Of("answer") => JobAccepted(result)
SubmitsFit  ==
  Of("submit") =>
    /\ result.tool => Valid(input.query, input.texts, Asked(input.topK, input.texts))
    /\ result.client /\ (\A t \in {input.query} \cup Range(input.texts) : t.chars <= MaxField) =>
         Valid(input.query, input.texts, input.topK)
KeptFit     ==
  Of("keep") /\ input.topK >= 1 /\ TextValid(input.query) /\ input.texts # <<>> /\ (\A t \in Range(input.texts) : TextValid(t)) =>
    /\ Len(result) <= MaxTexts => Valid(input.query, result, Asked(input.topK, result))
    /\ input.query.bytes + BytesOf(result) + Len(result) <= RequestBytes
ChunksFit   ==
  Of("chunk")  =>
    \A i \in DOMAIN result : result[i].end <= Len(input.text) /\ result[i].end - result[i].start \in 1 .. input.chars
ResultsAccepted ==
  SpansFit /\ RankingsFit /\ VectorsFit /\ AnswersFit /\ SubmitsFit /\ KeptFit /\ ChunksFit

(* The two cuts of a text lose nothing of it: every character of every     *)
(* candidate is masked and every other one stays, in its place; an entity  *)
(* that is sure enough stays a candidate when its pieces are joined; each  *)
(* word of a file is in a chunk, each chunk in one embed job, and the      *)
(* chunks go on; the word that matched is shown; at most 65 reports of     *)
(* progress go from nothing to all; and cards do not overlap.              *)
Characters(S) == UNION {s.start .. s.end - 1 : s \in S}
Increases(seq) == \A i, j \in DOMAIN seq : i < j => seq[i] < seq[j]
AllMasked   ==
  Of("redact") =>
    LET text    == result.text
        visible == {i \in DOMAIN text : text[i].label = "none"}
    IN /\ {text[i].of : i \in visible} = (0 .. input.length - 1) \ Characters(input.spans)
       /\ \A i, j \in visible : i < j => text[i].of < text[j].of
NamesStay   ==
  Of("entities") =>
    \A p \in Range(Pieces(input.words)) : p.label \in input.wanted /\ Mean(p) >= input.least =>
      \E e \in result : e.label = p.label /\ e.start <= p.start /\ p.end <= e.end
WordsStay   ==
  Of("chunk") =>
    /\ \A i \in 0 .. Len(input.text) - 1 : ~Space(input.text, i) => i \in Characters(Range(result))
    /\ Increases([k \in DOMAIN result |-> result[k].start])
ChunksStay  ==
  Of("batch") =>
    /\ FlattenSeq(result) = [i \in DOMAIN input.sizes |-> i]
    /\ \A b \in Range(result) :
         Len(b) \in 1 .. input.most /\ (Len(b) = 1 \/ Total([i \in DOMAIN b |-> input.sizes[b[i]]]) <= input.bytes)
MatchShows  ==
  Of("snippet") =>
    /\ result.size <= input.most \/ result.size = input.n
    /\ input.match # None => input.match \in result.start .. result.end - 1
ReportsGoOn ==
  Of("progress") =>
    result[1] = 0 /\ Last(result) = input.total /\ Increases(result) /\ Len(result) <= 65
CardsApart  == Of("cards") => \A r, q \in result : r = q \/ r[2] < q[1] \/ q[2] < r[1]
IbansHold   ==
  Of("ibans") =>
    /\ result \subseteq input.valid
    /\ (\E j \in Taken(input, 1) : <<1, j>> \in input.valid) => \E r \in result : r[1] = 1
NothingLost ==
  AllMasked /\ NamesStay /\ WordsStay /\ ChunksStay /\ MatchShows /\ ReportsGoOn /\ CardsApart /\ IbansHold

(* What docs/protocol.md says of CARD: any window of a run of digits that  *)
(* passes Luhn is masked, the longest first; one that is not masked as     *)
(* such overlaps one that is.                                              *)
CardsMasked ==
  Of("cards") => \A r \in CardRanges(input) : \E q \in result : r[1] <= q[2] /\ q[1] <= r[2]
=============================================================================
