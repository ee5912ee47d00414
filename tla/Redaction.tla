----------------------------- MODULE Redaction ------------------------------
(***************************************************************************)
(* The redact task of worker/ai_bridge/tasks.py: which card numbers are    *)
(* found in a run of digits, how the words a model labels become names,    *)
(* and how the candidates of all rules and readings become the spans and   *)
(* the masked text.  Offsets are 0-based, an end is exclusive.             *)
(***************************************************************************)
EXTENDS Integers, Sequences, FiniteSets, SequencesExt

CONSTANTS MinDigits, MaxDigits,   \* of a card number: 13 and 19
          MinIban, MaxIban        \* characters of an IBAN: 15 and 34

(* A run of digits, as its groups: the sequences of digits that single     *)
(* blanks or hyphens separate.                                             *)
Luhn(digits) ==
  LET value(i) == LET v == digits[i] IN
        IF (Len(digits) - i) % 2 = 0 THEN v ELSE IF v > 4 THEN 2 * v - 9 ELSE 2 * v
  IN FoldLeft(LAMBDA a, b : a + b, 0, [i \in DOMAIN digits |-> value(i)]) % 10 = 0

DigitsOf(groups, r) == FlattenSeq(SubSeq(groups, r[1], r[2]))

CardRanges(groups) ==
  {r \in (DOMAIN groups) \X (DOMAIN groups) :
     r[1] <= r[2] /\ LET d == DigitsOf(groups, r) IN Len(d) \in MinDigits .. MaxDigits /\ Luhn(d)}

(* Of the ranges from the cursor on, the longest, then the leftmost; the   *)
(* cursor moves past it.                                                   *)
BestRange(groups, S) ==
  CHOOSE r \in S : \A q \in S :
    LET size(x) == Len(DigitsOf(groups, x)) IN size(q) < size(r) \/ (size(q) = size(r) /\ r[1] <= q[1])
Cards(groups) ==
  LET from[cursor \in 1 .. Len(groups) + 1] ==
        LET S == {r \in CardRanges(groups) : r[1] >= cursor} IN
        IF S = {} THEN {} ELSE LET r == BestRange(groups, S) IN {r} \cup from[r[2] + 1]
  IN from[1]
-----------------------------------------------------------------------------
(* A run of letters and digits, as the sizes of the groups that single     *)
(* blanks separate, the groups that begin like an IBAN, and the ranges     *)
(* whose checksum holds.  The pattern takes as many groups as it may, and  *)
(* the search goes on behind them; of what it took, groups are given back  *)
(* until the checksum holds.                                               *)
SizeOf(run, i, j) == FoldLeft(LAMBDA a, b : a + b, 0, SubSeq(run.sizes, i, j))
Taken(run, i) ==
  IF i \in run.opens THEN {j \in i .. Len(run.sizes) : SizeOf(run, i, j) \in MinIban .. MaxIban} ELSE {}
Ibans(run) ==
  LET longest(S) == CHOOSE j \in S : \A k \in S : k <= j
      from[i \in 1 .. Len(run.sizes) + 1] ==
        IF i > Len(run.sizes) THEN {}
        ELSE IF Taken(run, i) = {} THEN from[i + 1]
        ELSE LET good == {j \in Taken(run, i) : <<i, j>> \in run.valid} IN
             (IF good = {} THEN {} ELSE {<<i, longest(good)>>}) \cup from[longest(Taken(run, i)) + 1]
  IN from[1]
-----------------------------------------------------------------------------
(* The words of a window as the model labels them, in text order.  A word  *)
(* that begins an entity, or continues none of its kind, opens a piece.    *)
Grown(piece, w) == [piece EXCEPT !.end = w.end, !.sum = @ + w.score, !.n = @ + 1]
Piece(acc, w) ==
  LET opens == w.prefix = "B" \/ ~acc.open \/ Last(acc.pieces).label # w.label IN
  CASE w.prefix = "O" -> [acc EXCEPT !.open = FALSE]
    [] w.prefix # "O" /\ opens ->
         [open |-> TRUE, pieces |-> Append(acc.pieces, [start |-> w.start, end |-> w.end, label |-> w.label,
                                                        sum |-> w.score, n |-> 1])]
    [] OTHER -> [acc EXCEPT !.pieces[Len(acc.pieces)] = Grown(@, w)]
Pieces(words) == FoldLeft(Piece, [open |-> FALSE, pieces |-> <<>>], words).pieces

(* The mean of a piece, in sixths, which is exact up to three words.       *)
Mean(piece) == (6 * piece.sum) \div piece.n

(* Pieces of one kind that touch, or meet at a joiner, are one name, as    *)
(* sure as its surest piece.                                               *)
Surest(a, b) == IF a > b THEN a ELSE b
Absorbed(name, p) == [name EXCEPT !.end = p.end, !.score = Surest(@, Mean(p))]
Joined(words, joiners) ==
  LET meets(a, b) == b.start = a.end \/ (b.start = a.end + 1 /\ a.end \in joiners)
      join(acc, p) ==
        IF acc # <<>> /\ Last(acc).label = p.label /\ meets(Last(acc), p)
        THEN [acc EXCEPT ![Len(acc)] = Absorbed(@, p)]
        ELSE Append(acc, [start |-> p.start, end |-> p.end, label |-> p.label, score |-> Mean(p)])
  IN FoldLeft(join, <<>>, Pieces(words))

(* The model's candidates, of less weight than any rule's.                 *)
Entities(words, joiners, wanted, least) ==
  {[start |-> p.start, end |-> p.end, label |-> p.label, score |-> p.score, priority |-> 1] :
     p \in {q \in Range(Joined(words, joiners)) : q.label \in wanted /\ q.score >= least}}
-----------------------------------------------------------------------------
(* Leftmost, then longest, then the stronger source, then the surer; equals *)
(* stand in either order.                                                  *)
Before(a, b) ==
  \/ a.start < b.start
  \/ a.start = b.start /\ a.end > b.end
  \/ a.start = b.start /\ a.end = b.end /\ a.priority < b.priority
  \/ a.start = b.start /\ a.end = b.end /\ a.priority = b.priority /\ a.score >= b.score
InTextOrder(candidates) ==
  CHOOSE seq \in SetToSeqs(candidates) : \A i, j \in DOMAIN seq : i < j => Before(seq[i], seq[j])

(* A candidate that overlaps the kept span extends it.  Mutant: it is      *)
(* dropped.                                                                *)
ExtendedNot(span, c) == span
Extended(span, c)    == [span EXCEPT !.end = IF c.end > @ THEN c.end ELSE @]
Merge(candidates) ==
  LET step(spans, c) ==
        IF spans # <<>> /\ c.start < Last(spans).end
        THEN [spans EXCEPT ![Len(spans)] = Extended(@, c)]
        ELSE Append(spans, c)
  IN FoldLeft(step, <<>>, InTextOrder(candidates))

(* The masked text of a text of n characters: each is its own offset, a    *)
(* label is a label.                                                       *)
Masked(n, spans) ==
  LET chars(a, b) == [i \in 1 .. b - a |-> [of |-> a + i - 1, label |-> "none"]]
      step(acc, s) == [text |-> acc.text \o chars(acc.cursor, s.start) \o <<[of |-> n, label |-> s.label]>>,
                       cursor |-> s.end]
      done == FoldLeft(step, [text |-> <<>>, cursor |-> 0], spans)
  IN done.text \o chars(done.cursor, n)

(* RedactResult.php and _spans of the tools: sorted, disjoint, inside.     *)
SpansAccepted(spans, n) ==
  \A i \in DOMAIN spans :
    (IF i = 1 THEN 0 ELSE spans[i - 1].end) <= spans[i].start /\ spans[i].start < spans[i].end /\ spans[i].end <= n
=============================================================================
