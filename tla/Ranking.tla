------------------------------ MODULE Ranking -------------------------------
(***************************************************************************)
(* The rerank and embed tasks of worker/ai_bridge/tasks.py around the      *)
(* model: what is accepted, what is reported, and what is returned.  A     *)
(* text is [chars, bytes, blank].                                          *)
(***************************************************************************)
EXTENDS Integers, Sequences, FiniteSets, SequencesExt

CONSTANTS MaxField, MaxTotal, MaxTexts,   \* MAX_FIELD_CHARACTERS, MAX_TOTAL_CHARACTERS, MAX_DOCUMENTS
          RequestBytes

Total(seq) == FoldLeft(LAMBDA a, b : a + b, 0, seq)
CharsOf(texts) == Total([i \in DOMAIN texts |-> texts[i].chars])
BytesOf(texts) == Total([i \in DOMAIN texts |-> texts[i].bytes])

(* validate() of the worker, for a rerank.                                 *)
TextValid(t) == ~t.blank /\ t.chars <= MaxField
Valid(query, texts, topK) ==
  /\ TextValid(query) /\ Len(texts) \in 1 .. MaxTexts /\ \A i \in DOMAIN texts : TextValid(texts[i])
  /\ query.chars + CharsOf(texts) <= MaxTotal
  /\ topK \in 1 .. Len(texts)

(* What the clients check before they submit: bridge_rerank, and           *)
(* submitRerank, which counts bytes and leaves the length of each text to  *)
(* the worker.                                                             *)
ToolSubmits(query, texts, topK) ==
  /\ topK >= 1
  /\ ~query.blank /\ query.chars <= MaxField
  /\ Len(texts) \in 1 .. MaxTexts /\ \A i \in DOMAIN texts : ~texts[i].blank /\ texts[i].chars <= MaxField
  /\ query.chars + CharsOf(texts) <= MaxTotal
ClientSubmits(query, texts, topK) ==
  /\ ~query.blank /\ Len(texts) \in 1 .. MaxTexts /\ \A i \in DOMAIN texts : ~texts[i].blank
  /\ query.bytes + BytesOf(texts) <= MaxTotal
  /\ topK \in 1 .. Len(texts)

(* bridge_search reranks as many candidates as fit, from the best.         *)
KeptCandidates(query, texts) ==
  LET fits(n) == LET some == SubSeq(texts, 1, n) IN
        query.chars + CharsOf(some) <= MaxTotal /\ query.bytes + BytesOf(some) + n <= RequestBytes
  IN SubSeq(texts, 1, CHOOSE n \in 0 .. Len(texts) : fits(n) /\ \A k \in n + 1 .. Len(texts) : ~fits(k))
-----------------------------------------------------------------------------
(* The progress of a rerank in batches: a report when a step of a 64th is  *)
(* passed, and at the end.                                                 *)
Step(total) == -((-total) \div 64)
Reports(total, batch) ==
  LET step == Step(total)
      due(sent, completed) ==
        completed = total \/ (IF sent = <<>> THEN TRUE ELSE completed \div step > Last(sent) \div step)
      report(sent, completed) == IF due(sent, completed) THEN Append(sent, completed) ELSE sent
      after(k) == IF k * batch < total THEN k * batch ELSE total
  IN FoldLeft(report, <<>>, <<0>> \o [k \in 1 .. -((-total) \div batch) |-> after(k)])

(* Mutant of InOrder: ties keep no order.                                  *)
InAnyOrder(scores, i, j) == scores[i] > scores[j] \/ (scores[i] = scores[j] /\ i > j)
InOrder(scores, i, j)    == scores[i] > scores[j] \/ (scores[i] = scores[j] /\ i < j)
Rankings(scores, topK) ==
  LET ranked == CHOOSE seq \in SetToSeqs(DOMAIN scores) : \A k, l \in DOMAIN seq : k < l => InOrder(scores, seq[k], seq[l])
  IN SubSeq(ranked, 1, topK)

(* RerankResult.php and _rankings of the tools: as many as asked for, each *)
(* document once, by score, then by index.                                 *)
RankingsAccepted(order, scores, topK) ==
  /\ Len(order) = topK
  /\ \A k \in DOMAIN order : order[k] \in DOMAIN scores /\ \A l \in 1 .. k - 1 :
       /\ order[l] # order[k] /\ scores[order[k]] <= scores[order[l]]
       /\ scores[order[k]] = scores[order[l]] => order[l] < order[k]
-----------------------------------------------------------------------------
(* The hashed vector of a text: each word adds 1 or -1 in its bucket; when *)
(* they cancel out, the text as one word.                                  *)
SignedCounts(words, buckets) ==
  [b \in buckets |-> Total([i \in DOMAIN words |-> IF words[i][1] = b THEN words[i][2] ELSE 0])]
Zero(vector) == \A b \in DOMAIN vector : vector[b] = 0
HashingVector(words, whole, buckets) ==
  LET vector == SignedCounts(IF words = <<>> THEN <<whole>> ELSE words, buckets) IN
  IF Zero(vector) THEN SignedCounts(<<whole>>, buckets) ELSE vector
-----------------------------------------------------------------------------
(* A job as GET /v1/jobs/{id} answers it (_accept, _drain_message, _finish *)
(* and _public in jobs.py), and what Job.php and _job of the Python client *)
(* make of it.                                                             *)
Answer(status, progress) ==
  [status |-> status, result |-> status = "succeeded", error |-> status \in {"failed", "timed_out"}, progress |-> progress]
JobAccepted(job) ==
  /\ job.status \in {"queued", "running", "succeeded", "failed", "timed_out", "cancelled"}
  /\ (job.status = "succeeded") = job.result
  /\ (job.status \in {"failed", "timed_out"}) = job.error
  /\ \A k \in DOMAIN job.progress :
       LET p == job.progress[k] IN 0 <= p.completed /\ p.completed <= p.total /\ p.total >= 1
=============================================================================
