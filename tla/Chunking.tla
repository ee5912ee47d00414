------------------------------ MODULE Chunking ------------------------------
(***************************************************************************)
(* How bridge_mcp/index.py cuts a text into chunks and the chunks into     *)
(* embed jobs, and how tools.py shows a piece of one.  A text is a         *)
(* sequence of "s" (whitespace) and "w"; offsets are 0-based.              *)
(***************************************************************************)
EXTENDS Integers, Sequences, FiniteSets, SequencesExt

Space(text, i) == text[i + 1] = "s"
Least(S)   == CHOOSE x \in S : \A y \in S : x <= y
Greatest(S) == CHOOSE x \in S : \A y \in S : x >= y

(* Before the text is its beginning.                                       *)
SkipSpace(text, i) == Least({j \in 0 .. Len(text) - 1 : i <= j /\ ~Space(text, j)} \cup {Len(text)})
LastSpace(text, low, high) == {j \in low .. high : j < Len(text) /\ Space(text, j)}

(* The first word start at or after i; inside a word, the next word's.     *)
NextWord(text, i) ==
  IF 0 < i /\ i < Len(text) /\ ~Space(text, i - 1) /\ ~Space(text, i)
  THEN SkipSpace(text, Least({j \in i .. Len(text) - 1 : Space(text, j)} \cup {Len(text)}))
  ELSE SkipSpace(text, i)

(* The end of the chunk that starts at start.                              *)
ChunkEnd(text, chars, start) ==
  LET limit == start + chars
      cuts  == LastSpace(text, start + chars \div 2, limit)
      end   == IF limit >= Len(text) THEN Len(text) ELSE IF cuts # {} THEN Greatest(cuts) ELSE limit
  IN Greatest({start} \cup {j \in start + 1 .. end : ~Space(text, j - 1)})

(* Where the next one starts.  Without a word in the overlap it starts in  *)
(* the middle of one.                                                      *)
HardStart(start, end, following, overlap) ==
  IF start < following /\ following <= end THEN following
  ELSE IF end - overlap > start THEN end - overlap ELSE end
Following(text, start, end, overlap) ==
  SkipSpace(text, HardStart(start, end, NextWord(text, end - overlap), overlap))

ChunkText(text, chars, overlap) ==
  LET from[start \in 0 .. Len(text)] ==
        IF start >= Len(text) THEN <<>>
        ELSE LET end == ChunkEnd(text, chars, start) IN
             <<[start |-> start, end |-> end]>>
               \o IF start + chars >= Len(text) THEN <<>> ELSE from[Following(text, start, end, overlap)]
  IN from[SkipSpace(text, 0)]
-----------------------------------------------------------------------------
(* The embed jobs of a build: a batch ends when it is full, or the next    *)
(* text would make it too large.                                           *)
Batches(sizes, most, bytes) ==
  LET step(acc, i) ==
        IF acc.batch # <<>> /\ (Len(acc.batch) = most \/ acc.size + sizes[i] > bytes)
        THEN [done |-> Append(acc.done, acc.batch), batch |-> <<i>>, size |-> sizes[i]]
        ELSE [acc EXCEPT !.batch = Append(@, i), !.size = @ + sizes[i]]
      end == FoldLeft(step, [done |-> <<>>, batch |-> <<>>, size |-> 0], [i \in DOMAIN sizes |-> i])
  IN IF end.batch = <<>> THEN end.done ELSE Append(end.done, end.batch)

(* What is shown of n characters, most of them at a time, around the first *)
(* query word, at match (None: there is none), and how long that is with   *)
(* the ellipses.                                                           *)
Snippet(n, match, most, None) ==
  IF n <= most THEN [start |-> 0, end |-> n, size |-> n]
  ELSE LET start  == IF match = None THEN 0
                     ELSE Greatest({0, Least({match - most \div 3, n - most + 1})})
           prefix == IF start > 0 THEN 1 ELSE 0
           window == most - prefix
       IN IF start + window >= n THEN [start |-> start, end |-> n, size |-> prefix + n - start]
          ELSE [start |-> start, end |-> start + window - 1, size |-> prefix + window]
=============================================================================
