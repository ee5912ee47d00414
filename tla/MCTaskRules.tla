---------------------------- MODULE MCTaskRules -----------------------------
(* The bounded inputs of TaskRules. *)
EXTENDS TaskRules

SeqsUpTo(S, n) == UNION {[1 .. k -> S] : k \in 0 .. n}
Upward(n)      == {r \in (1 .. n) \X (1 .. n) : r[1] <= r[2]}
Spans(n)       == {r \in (0 .. n) \X (0 .. n) : r[1] < r[2]}

(* Up to three groups of one or two digits; a card has two to four. *)
MCCardRuns == SeqsUpTo(SeqsUpTo({0, 1, 8}, 2) \ {<<>>}, 3) \ {<<>>}

(* Three groups of one or two characters; an IBAN has two to four. *)
MCIbanRuns == [sizes : [1 .. 3 -> 1 .. 2], opens : SUBSET (1 .. 3), valid : SUBSET Upward(3)]

(* Three words of one character, apart by nothing, a joiner or a blank. *)
Tags == {<<"O", "none", 1>>} \cup ({"B", "I"} \X {"PER", "LOC"} \X {1, 2})
WordRun(tags, gaps) ==
  LET at(i) == IF i = 1 THEN 0 ELSE IF i = 2 THEN 1 + (IF gaps[1] = "none" THEN 0 ELSE 1)
               ELSE 2 + (IF gaps[1] = "none" THEN 0 ELSE 1) + (IF gaps[2] = "none" THEN 0 ELSE 1)
  IN [words   |-> [i \in 1 .. 3 |-> [start |-> at(i), end |-> at(i) + 1, prefix |-> tags[i][1],
                                     label |-> tags[i][2], score |-> tags[i][3]]],
      joiners |-> {at(i) + 1 : i \in {k \in 1 .. 2 : gaps[k] = "joiner"}},
      wanted  |-> {"PER"}, least |-> 9]
MCWordRuns == {WordRun(t, g) : t \in [1 .. 3 -> Tags], g \in [1 .. 2 -> {"none", "joiner", "blank"}]}

(* Up to three candidates in a text of four characters. *)
Candidate(r, p, s) ==
  [start |-> r[1], end |-> r[2], priority |-> p, score |-> s, label |-> IF p = 0 THEN "CARD" ELSE "PER"]
Candidates == {Candidate(r, p, s) : r \in Spans(4), p \in 0 .. 1, s \in 1 .. 2}
MCCandidateSets == [length : {4}, spans : {{a, b, c} : a, b, c \in Candidates} \cup {{}}]

MCTexts   == {[text |-> t, chars |-> c, overlap |-> o] : t \in SeqsUpTo({"s", "w"}, 9), c \in {4, 5}, o \in 0 .. 1}
               \cup {[text |-> t, chars |-> 6, overlap |-> 2] : t \in SeqsUpTo({"s", "w"}, 9)}
MCSizes   == [sizes : SeqsUpTo(1 .. 3, 5) \ {<<>>}, most : {2, 3}, bytes : {4}]
MCShown   == {[n |-> n, match |-> m, most |-> 6] : n \in 1 .. 12, m \in 0 .. 11}
MCSnippets == {s \in MCShown : s.match < s.n} \cup {[n |-> n, match |-> None, most |-> 6] : n \in 1 .. 12}

(* Texts short, of wide characters, at the limit, beyond it, and blank. *)
Kinds == {[chars |-> 1, bytes |-> 1, blank |-> FALSE], [chars |-> 1, bytes |-> 3, blank |-> FALSE],
          [chars |-> 3, bytes |-> 3, blank |-> FALSE], [chars |-> 3, bytes |-> 9, blank |-> FALSE],
          [chars |-> 4, bytes |-> 4, blank |-> FALSE], [chars |-> 1, bytes |-> 1, blank |-> TRUE]}
MCRequests == [query : Kinds, texts : SeqsUpTo(Kinds, 3), topK : 0 .. 3]

MCLoads   == [total : 1 .. 200, batch : 1 .. 4]
MCScores  == {[scores |-> s, topK |-> k] : s \in SeqsUpTo(0 .. 2, 4) \ {<<>>}, k \in 1 .. 4}
MCRanked  == {s \in MCScores : s.topK <= Len(s.scores)}
Signed    == {1, 2} \X {1, -1}
MCVectors == [words : SeqsUpTo(Signed, 3), whole : Signed, buckets : {{1, 2}}]
MCAnswers == [status : {"queued", "running", "succeeded", "failed", "timed_out", "cancelled"},
              progress : {<<>>} \cup {<<[completed |-> c, total |-> 3]>> : c \in Range(Reports(3, 2))}]
=============================================================================
