--------------------------- MODULE JobTableProofs ---------------------------
(***************************************************************************)
(* Proofs about JobTable.                                                  *)
(***************************************************************************)
EXTENDS JobTable, FiniteSetTheorems, TLAPS

(* What can carry a key in _keys.                                          *)
Named == Owners \X Keys

LEMMA Tagging ==
  ASSUME NEW o \in Owners, NEW k \in Keys \cup {NoKey}
  PROVE  /\ <<o, k>> \in Tags
         /\ <<o, k>> \in Named <=> k # NoKey
BY NameAssumption DEF Tags, Named

LEMMA CoreInit ==
  ASSUME Init
  PROVE  Core
<1>1. TypeOK
  BY ClockAssumption DEF Init, TypeOK
<1>2. Unborn /\ Dated /\ UniqueRows
  BY DEF Init, Unborn, Dated, UniqueRows, Fresh, Known, Terminal
<1>3. NamesAgree /\ RowsCoverMemory /\ (phase = "down" => Known = {})
  BY NameAssumption DEF Init, NamesAgree, RowsCoverMemory, Known
<1> QED
  BY <1>1, <1>2, <1>3 DEF Core

(* Taking away expired jobs, as every handler does first.                  *)
LEMMA ExpireCore ==
  ASSUME Core, NEW worked, Expire(worked)
  PROVE  Core'
<1> DEFINE X == Expired
           D == Deleted(X, worked)
<1>1. X \subseteq Known /\ D \subseteq X /\ (phase = "closed" => D = {})
  BY DEF Expired, Deleted
<1>2. /\ \A j \in Ids : status'[j] = IF j \in X THEN "none" ELSE status[j]
      /\ \A j \in Ids : finished'[j] = IF j \in X THEN NoTime ELSE finished[j]
      /\ \A j \in Ids : row'[j] = IF j \in D THEN "none" ELSE row[j]
      /\ \A j \in Ids : stamp'[j] = IF j \in D THEN NoTime ELSE stamp[j]
      /\ \A t \in Named : keys'[t] = IF \E j \in X : tag[j] = t THEN NoId ELSE keys[t]
      /\ DOMAIN keys' = Named
      /\ UNCHANGED <<phase, tag, now, skew, submitted, outcome, ended, missed>>
      /\ forgotten' \in {forgotten, forgotten \cup X}
  BY DEF Expire, Kept, KeysWithout, clock, Named
<1>3. TypeOK'
  <2>1. /\ status' = Kept(status, X, "none") /\ finished' = Kept(finished, X, NoTime)
        /\ row' = Kept(row, D, "none") /\ stamp' = Kept(stamp, D, NoTime) /\ keys' = KeysWithout(X)
    BY DEF Expire
  <2>2. keys' \in [Owners \X Keys -> Ids \cup {NoId}]
    BY <2>1 DEF KeysWithout, Core, TypeOK
  <2>3. status' \in [Ids -> {"none"} \cup Unfinished \cup Terminal] /\ finished' \in [Ids -> Int \cup {NoTime}]
    BY <2>1 DEF Kept, Core, TypeOK
  <2>4. row' \in [Ids -> {"none", "queued"} \cup Terminal] /\ stamp' \in [Ids -> Int \cup {NoTime}]
    BY <2>1 DEF Kept, Core, TypeOK
  <2> QED
    BY <1>1, <1>2, <2>2, <2>3, <2>4 DEF Core, TypeOK, Known
<1> HIDE DEF X, D
<1>4. Known' = Known \ X
  BY <1>1, <1>2 DEF Known
<1>5. Unborn'
  BY <1>1, <1>2 DEF Core, Unborn, Fresh, Known
<1>6. Dated'
  BY <1>1, <1>2, <1>4 DEF Core, Dated, Known, Terminal, Unfinished
<1>7. UniqueRows'
  BY <1>2 DEF Core, UniqueRows
<1>8. NamesAgree'
  <2> SUFFICES ASSUME NEW t \in Named, NEW j \in Ids
               PROVE  keys'[t] = j <=> j \in Known \ X /\ tag[j] = t
    BY <1>2, <1>4 DEF NamesAgree, Named
  <2>1. \A i \in Ids : keys[t] = i <=> i \in Known /\ tag[i] = t
    BY DEF Core, NamesAgree, Named
  <2>2. keys'[t] = IF \E i \in X : tag[i] = t THEN NoId ELSE keys[t]
    BY <1>2
  <2>3. X \subseteq Ids /\ X \subseteq Known
    BY <1>1 DEF Known
  <2> QED
    BY <2>1, <2>2, <2>3, NameAssumption
<1>9. RowsCoverMemory' /\ (phase = "down" => Known = {})'
  <2>1. \A j \in Known' : j \in Ids /\ j \in Known /\ status'[j] = status[j] /\ row'[j] = row[j]
    BY <1>1, <1>2, <1>4 DEF Known
  <2> QED
    BY <1>2, <1>4, <2>1 DEF Core, RowsCoverMemory
<1> QED
  BY <1>3, <1>5, <1>6, <1>7, <1>8, <1>9 DEF Core

(* A key that names no job, once the expired ones are gone, is nobody's.   *)
LEMMA KeyFree ==
  ASSUME Core, NEW j \in Ids, NEW o \in Owners, NEW k \in Keys, NEW worked, Submit(j, o, k, worked)
  PROVE  \A i \in Known \ Expired : tag[i] # <<o, k>>
<1> DEFINE X == Expired
           T == <<o, k>>
           W == KeysWithout(X)
<1>1. X \subseteq Known /\ X \subseteq Ids /\ Known \subseteq Ids
  BY DEF Expired, Known
<1>2. k # NoKey /\ T \in Named
  BY NameAssumption DEF Named
<1>3. W[T] = NoId
  BY <1>2 DEF Submit
<1>4. W[T] = IF \E i \in X : tag[i] = T THEN NoId ELSE keys[T]
  BY <1>2 DEF KeysWithout, Named
<1>5. \A i \in Ids : keys[T] = i <=> i \in Known /\ tag[i] = T
  BY <1>2 DEF Core, NamesAgree, Named
<1> HIDE DEF X, T, W
<1>6. ASSUME NEW i \in Known \ X, tag[i] = T
      PROVE  FALSE
  <2>1. keys[T] = i /\ i \in Ids
    BY <1>1, <1>5, <1>6
  <2>2. ASSUME NEW u \in X, tag[u] = T
        PROVE  FALSE
    <3>1. keys[T] = u
      BY <1>1, <1>5, <2>2
    <3> QED
      BY <2>1, <2>2, <3>1, <1>6
  <2> QED
    BY <1>3, <1>4, <2>1, <2>2, NameAssumption
<1> QED
  BY <1>6 DEF X, T

LEMMA SubmitCore ==
  ASSUME Core, NEW j \in Ids, NEW o \in Owners, NEW k \in Keys \cup {NoKey}, NEW worked, Submit(j, o, k, worked)
  PROVE  Core'
<1> DEFINE X == Expired
           R == Replaced(o, k)
           G == Deleted(X, worked) \cup R
           T == <<o, k>>
           W == KeysWithout(X)
<1>1. X \subseteq Known /\ X \subseteq Ids /\ G \subseteq X \cup R /\ R \subseteq Ids
  BY DEF Expired, Deleted, Replaced, Known
<1>2. j \in Fresh /\ phase = "up" /\ T \in Tags /\ (T \in Named <=> k # NoKey)
  BY Tagging DEF Submit
<1>3. status[j] = "none" /\ row[j] = "none" /\ j \notin X /\ j \notin R /\ j \notin Known /\ j \notin missed /\ outcome[j] = "none"
  BY <1>1, <1>2 DEF Core, Unborn, Known, Replaced
<1>4. \A i \in Ids : i \in R <=> row[i] # "none" /\ tag[i] = T /\ T \in Named
  BY <1>2 DEF Replaced
<1>5. \A t \in Named, i \in Ids : keys[t] = i <=> i \in Known /\ tag[i] = t
  BY DEF Core, NamesAgree, Named
<1>6. \A t \in Named : W[t] = IF \E i \in X : tag[i] = t THEN NoId ELSE keys[t]
  BY DEF KeysWithout, Named
<1>8. T \in Named => \A i \in Known \ X : tag[i] # T
  BY <1>2, KeyFree
<1>9. \A i \in Known \ X : i \notin R
  <2> SUFFICES ASSUME NEW i \in Known \ X, i \in R
               PROVE  FALSE
    OBVIOUS
  <2>1. i \in Ids
    BY DEF Known
  <2> HIDE DEF R, T, X
  <2> QED
    BY <1>4, <1>8, <2>1
<1>10. /\ \A i \in Ids : status'[i] = IF i = j THEN "queued" ELSE IF i \in X THEN "none" ELSE status[i]
       /\ \A i \in Ids : finished'[i] = IF i \in X THEN NoTime ELSE finished[i]
       /\ \A i \in Ids : row'[i] = IF i = j THEN "queued" ELSE IF i \in G THEN "none" ELSE row[i]
       /\ \A i \in Ids : stamp'[i] = IF i \in G THEN NoTime ELSE stamp[i]
       /\ \A i \in Ids : tag'[i] = IF i = j THEN T ELSE tag[i]
       /\ \A i \in Ids : submitted'[i] = IF i = j THEN now ELSE submitted[i]
       /\ \A t \in Named : keys'[t] = IF t = T THEN j ELSE W[t]
       /\ UNCHANGED <<phase, now, skew, outcome, ended, missed>>
       /\ forgotten' = forgotten \cup X
  BY DEF Submit, Kept, Core, TypeOK, clock, Named
<1>11. TypeOK'
  <2>1. /\ status' = [Kept(status, X, "none") EXCEPT ![j] = "queued"] /\ finished' = Kept(finished, X, NoTime)
        /\ row' = [Kept(row, G, "none") EXCEPT ![j] = "queued"] /\ stamp' = Kept(stamp, G, NoTime)
        /\ keys' = [t \in Owners \X Keys |-> IF t = T THEN j ELSE KeysWithout(X)[t]]
        /\ tag' = [tag EXCEPT ![j] = T] /\ submitted' = [submitted EXCEPT ![j] = now]
    BY DEF Submit
  <2>2. keys' \in [Owners \X Keys -> Ids \cup {NoId}]
    BY <2>1 DEF KeysWithout, Core, TypeOK
  <2>3. status' \in [Ids -> {"none"} \cup Unfinished \cup Terminal] /\ finished' \in [Ids -> Int \cup {NoTime}]
    BY <2>1 DEF Kept, Core, TypeOK, Unfinished
  <2>4. row' \in [Ids -> {"none", "queued"} \cup Terminal] /\ stamp' \in [Ids -> Int \cup {NoTime}]
    BY <2>1 DEF Kept, Core, TypeOK
  <2>5. tag' \in [Ids -> Tags \cup {NoKey}] /\ submitted' \in [Ids -> Nat \cup {NoTime}]
    BY <1>2, <2>1 DEF Core, TypeOK
  <2> QED
    BY <1>1, <1>10, <2>2, <2>3, <2>4, <2>5 DEF Core, TypeOK
<1> HIDE DEF X, R, G, T, W
<1>12. Known' = (Known \ X) \cup {j}
  BY <1>1, <1>10 DEF Known
<1>13. /\ submitted[j] = NoTime /\ now # NoTime
       /\ \A i \in Ids : i \in Fresh' <=> i \in Fresh /\ i # j
  BY <1>2, <1>10, ClockAssumption DEF Core, TypeOK, Fresh
<1>14. Unborn'
  <2>1. \A i \in Ids : i \in Fresh => i \notin X
    BY <1>1 DEF Core, Unborn, Known
  <2> QED
    BY <1>2, <1>10, <1>13, <2>1 DEF Core, Unborn
<1>15. Dated'
  <2>1. finished[j] = NoTime /\ stamp[j] = NoTime
    BY <1>3 DEF Core, Dated, Terminal
  <2> QED
    BY <1>3, <1>10, <1>12, <2>1 DEF Core, Dated, Terminal, Unfinished, Known
<1>16. UniqueRows'
  <2> SUFFICES ASSUME NEW a \in Ids, NEW b \in Ids, row'[a] # "none", row'[b] # "none", tag'[a] = tag'[b], tag'[a] \in Named
               PROVE  a = b
    BY DEF UniqueRows, Named
  <2>1. CASE a # j /\ b # j
    BY <1>10, <2>1 DEF Core, UniqueRows, Named
  <2>2. ASSUME NEW c \in Ids, c # j, row'[c] # "none", tag'[c] = T, T \in Named
        PROVE  FALSE
    <3>1. c \in R
      BY <1>4, <1>10, <2>2
    <3>2. c \in G
      BY <3>1 DEF G, R
    <3> QED
      BY <1>10, <2>2, <3>2
  <2> QED
    BY <1>10, <2>1, <2>2
<1>17. NamesAgree'
  <2> SUFFICES ASSUME NEW t \in Named, NEW i \in Ids
               PROVE  keys'[t] = i <=> i \in Known' /\ tag'[i] = t
    BY DEF NamesAgree, Named
  <2>1. CASE t = T
    BY <1>8, <1>10, <1>12, <2>1 DEF Known
  <2>2. CASE t # T
    <3>1. keys'[t] = IF \E u \in X : tag[u] = t THEN NoId ELSE keys[t]
      BY <1>6, <1>10, <2>2
    <3>2. keys'[t] = i <=> i \in Known \ X /\ tag[i] = t
      BY <1>1, <1>5, <3>1, NameAssumption
    <3> QED
      BY <1>3, <1>10, <1>12, <2>2, <3>2
  <2> QED
    BY <2>1, <2>2
<1>18. RowsCoverMemory'
  <2>1. \A i \in Known \ X : i \in Ids /\ i # j /\ i \notin G /\ row'[i] = row[i] /\ status'[i] = status[i]
    BY <1>1, <1>3, <1>9, <1>10 DEF Known
  <2> QED
    BY <1>10, <1>12, <2>1 DEF Core, RowsCoverMemory, Unfinished
<1> QED
  BY <1>2, <1>10, <1>11, <1>14, <1>15, <1>16, <1>17, <1>18 DEF Core

LEMMA StartCore ==
  ASSUME Core, NEW j \in Ids, Start(j)
  PROVE  Core'
<1>1. /\ status[j] = "queued" /\ phase = "up"
      /\ \A i \in Ids : status'[i] = IF i = j THEN "running" ELSE status[i]
      /\ UNCHANGED <<phase, tag, finished, keys, row, stamp, now, skew, submitted, outcome, ended, missed, forgotten>>
  BY DEF Start, Core, TypeOK, file, clock, seen
<1>2. status' \in [Ids -> {"none"} \cup Unfinished \cup Terminal]
  BY DEF Start, Core, TypeOK, Unfinished
<1>3. Known' = Known /\ j \in Known
  BY <1>1 DEF Known
<1>4. TypeOK'
  BY <1>1, <1>2 DEF Core, TypeOK
<1>5. Unborn'
  BY <1>1 DEF Core, Unborn, Fresh
<1>6. Dated'
  BY <1>1, <1>3 DEF Core, Dated, Terminal, Unfinished
<1>7. RowsCoverMemory'
  BY <1>1, <1>3 DEF Core, RowsCoverMemory, Terminal, Unfinished, Known
<1>8. NamesAgree' /\ UniqueRows' /\ (phase = "down" => Known = {})'
  BY <1>1, <1>3 DEF Core, NamesAgree, UniqueRows
<1> QED
  BY <1>4, <1>5, <1>6, <1>7, <1>8 DEF Core

LEMMA EndCore ==
  ASSUME Core, NEW j \in Ids, NEW X \in SUBSET Ids, NEW worked, NEW written \in BOOLEAN, End(j, X, worked, written)
  PROVE  Core'
<1> DEFINE D == Deleted(X, worked)
           U == {i \in {j} : written /\ row[i] # "none"}
           W == KeysWithout(X)
<1>1. X \subseteq Known /\ D \subseteq X /\ phase = "up"
  BY DEF Expired, Deleted, End
<1>2. status[j] \in Unfinished /\ j \in Known /\ j \notin X
  <2>1. status[j] \in Unfinished /\ X \in {Expired, {}}
    BY DEF End
  <2>2. finished[j] = NoTime
    BY <2>1 DEF Core, Dated, Unfinished, Terminal
  <2> QED
    BY <2>1, <2>2 DEF Expired, Known, Unfinished
<1>3. row[j] = "queued" /\ j \notin Fresh
  BY <1>2 DEF Core, RowsCoverMemory, Unborn, Unfinished, Terminal, Known
<1>4. U = IF written THEN {j} ELSE {}
  BY <1>3
<1>5. /\ \A i \in Ids : status'[i] = IF i = j THEN "ended" ELSE IF i \in X THEN "none" ELSE status[i]
      /\ \A i \in Ids : finished'[i] = IF i = j THEN now ELSE IF i \in X THEN NoTime ELSE finished[i]
      /\ \A i \in Ids : row'[i] = IF i \in U THEN "ended" ELSE IF i \in D THEN "none" ELSE row[i]
      /\ \A i \in Ids : stamp'[i] = IF i \in U THEN wall ELSE IF i \in D THEN NoTime ELSE stamp[i]
      /\ \A i \in Ids : outcome'[i] = IF i = j THEN "ended" ELSE outcome[i]
      /\ \A i \in Ids : ended'[i] = IF i = j THEN now ELSE ended[i]
      /\ keys' = W
      /\ UNCHANGED <<phase, tag, now, skew, submitted>>
      /\ missed' = IF written THEN missed ELSE missed \cup {j}
      /\ forgotten' = forgotten \cup X
  BY DEF End, Kept, Core, TypeOK, clock
<1>6. \A t \in Named : W[t] = IF \E i \in X : tag[i] = t THEN NoId ELSE keys[t]
  BY DEF KeysWithout, Named
<1>7. TypeOK'
  <2>1. wall \in Int /\ now \in Nat
    BY ClockAssumption DEF wall, Core, TypeOK
  <2>2. keys' \in [Owners \X Keys -> Ids \cup {NoId}]
    BY <1>5 DEF KeysWithout, Core, TypeOK
  <2>3. status' \in [Ids -> {"none"} \cup Unfinished \cup Terminal]
    <3>1. status' = [Kept(status, X, "none") EXCEPT ![j] = "ended"]
      BY DEF End
    <3> QED
      BY <3>1 DEF Kept, Core, TypeOK, Terminal
  <2>4. finished' \in [Ids -> Int \cup {NoTime}]
    <3>1. finished' = [Kept(finished, X, NoTime) EXCEPT ![j] = now]
      BY DEF End
    <3> QED
      BY <2>1, <3>1 DEF Kept, Core, TypeOK
  <2>5. row' \in [Ids -> {"none", "queued"} \cup Terminal]
    <3>1. row' = [i \in Ids |-> IF i \in U THEN "ended" ELSE Kept(row, D, "none")[i]]
      BY DEF End
    <3> QED
      BY <3>1 DEF Kept, Core, TypeOK, Terminal
  <2>6. stamp' \in [Ids -> Int \cup {NoTime}]
    <3>1. stamp' = [i \in Ids |-> IF i \in U THEN wall ELSE Kept(stamp, D, NoTime)[i]]
      BY DEF End
    <3> QED
      BY <2>1, <3>1 DEF Kept, Core, TypeOK
  <2>7. outcome' \in [Ids -> {"none"} \cup Terminal] /\ ended' \in [Ids -> Nat \cup {NoTime}]
    <3>1. outcome' = [outcome EXCEPT ![j] = "ended"] /\ ended' = [ended EXCEPT ![j] = now]
      BY DEF End
    <3> QED
      BY <2>1, <3>1 DEF Core, TypeOK, Terminal
  <2> QED
    BY <1>5, <2>2, <2>3, <2>4, <2>5, <2>6, <2>7 DEF Core, TypeOK
<1> HIDE DEF D, U, W
<1>8. Known' = Known \ X
  BY <1>1, <1>2, <1>5 DEF Known
<1>9. now # NoTime /\ wall # NoTime
  BY ClockAssumption DEF wall, Core, TypeOK
<1>10. Unborn'
  <2>1. \A i \in Ids : i \in Fresh => i \notin X /\ i # j /\ i \notin U /\ i \notin D
    BY <1>1, <1>3, <1>4 DEF Core, Unborn, Known
  <2>2. Fresh' = Fresh
    BY <1>5 DEF Fresh
  <2> QED
    BY <1>5, <2>1, <2>2 DEF Core, Unborn
<1>11. Dated'
  <2>1. D \subseteq X /\ j \notin D /\ \A i \in U : i = j
    BY <1>1, <1>2, <1>4
  <2> QED
    BY <1>2, <1>5, <1>8, <1>9, <2>1 DEF Core, Dated, Terminal, Unfinished
<1>12. UniqueRows'
  BY <1>3, <1>4, <1>5 DEF Core, UniqueRows
<1>13. NamesAgree'
  <2> SUFFICES ASSUME NEW t \in Named, NEW i \in Ids
               PROVE  W[t] = i <=> i \in Known \ X /\ tag[i] = t
    BY <1>5, <1>8 DEF NamesAgree, Named
  <2>1. \A u \in Ids : keys[t] = u <=> u \in Known /\ tag[u] = t
    BY DEF Core, NamesAgree, Named
  <2> QED
    BY <1>1, <1>6, <2>1, NameAssumption
<1>14. RowsCoverMemory'
  <2>1. \A i \in Known \ X : i \in Ids /\ i \notin D /\ (i # j => i \notin U)
    BY <1>1, <1>4 DEF Known
  <2> QED
    BY <1>3, <1>4, <1>5, <1>8, <2>1 DEF Core, RowsCoverMemory, Terminal, Unfinished
<1> QED
  BY <1>1, <1>5, <1>7, <1>10, <1>11, <1>12, <1>13, <1>14 DEF Core

LEMMA CloseCore ==
  ASSUME Core, Close
  PROVE  Core'
<1> DEFINE O == {j \in Ids : status[j] \in Unfinished}
<1>1. /\ phase = "up" /\ phase' = "closed"
      /\ status' = Kept(status, O, "cancelled") /\ finished' = Kept(finished, O, now)
      /\ outcome' = Kept(outcome, O, "cancelled") /\ ended' = Kept(ended, O, now)
      /\ UNCHANGED <<tag, keys, row, stamp, now, skew, submitted, missed, forgotten>>
  BY DEF Close, file, clock
<1>2. /\ \A i \in Ids : status'[i] = IF i \in O THEN "cancelled" ELSE status[i]
      /\ \A i \in Ids : finished'[i] = IF i \in O THEN now ELSE finished[i]
      /\ \A i \in Ids : outcome'[i] = IF i \in O THEN "cancelled" ELSE outcome[i]
      /\ \A i \in Ids : ended'[i] = IF i \in O THEN now ELSE ended[i]
  BY <1>1 DEF Kept
<1>3. TypeOK'
  BY <1>1 DEF Kept, Core, TypeOK, Terminal
<1>4. \A i \in O : i \in Known /\ i \notin Fresh /\ row[i] = "queued"
  BY DEF Core, Unborn, Known, Unfinished, RowsCoverMemory, Terminal
<1>5. Known' = Known /\ Fresh' = Fresh /\ now # NoTime
  BY <1>1, <1>2, <1>4, ClockAssumption DEF Known, Fresh, Core, TypeOK
<1>6. \A i \in Ids : i \in O <=> status[i] \in Unfinished
  OBVIOUS
<1> HIDE DEF O
<1>7. Unborn'
  BY <1>1, <1>2, <1>4, <1>5 DEF Core, Unborn
<1>8. Dated'
  BY <1>1, <1>2, <1>4, <1>5, <1>6 DEF Core, Dated, Terminal, Unfinished
<1>9. RowsCoverMemory'
  BY <1>1, <1>2, <1>4, <1>5 DEF Core, RowsCoverMemory, Terminal, Unfinished, Known
<1>10. NamesAgree' /\ UniqueRows' /\ (phase = "down" => Known = {})'
  BY <1>1, <1>5 DEF Core, NamesAgree, UniqueRows
<1> QED
  BY <1>3, <1>7, <1>8, <1>9, <1>10 DEF Core

LEMMA ExitCore ==
  ASSUME Core, Exit
  PROVE  Core'
<1>1. /\ phase' = "down"
      /\ status' = [j \in Ids |-> "none"] /\ finished' = [j \in Ids |-> NoTime]
      /\ keys' = [t \in Owners \X Keys |-> NoId]
      /\ UNCHANGED <<tag, row, stamp, now, skew, submitted, outcome, ended, missed, forgotten>>
  BY DEF Exit, file, clock, seen
<1>2. Known' = {} /\ Fresh' = Fresh
  BY <1>1 DEF Known, Fresh
<1>3. TypeOK'
  BY <1>1 DEF Core, TypeOK
<1>4. Unborn' /\ UniqueRows'
  BY <1>1, <1>2 DEF Core, Unborn, UniqueRows
<1>5. Dated'
  BY <1>1, <1>2 DEF Core, Dated, Terminal
<1>6. NamesAgree'
  BY <1>1, <1>2, NameAssumption DEF NamesAgree
<1> QED
  BY <1>2, <1>3, <1>4, <1>5, <1>6 DEF Core, RowsCoverMemory

(* Reading the file back: distinct rows have distinct keys, so _keys names *)
(* each of them.                                                           *)
LEMMA OpenCore ==
  ASSUME Core, Open
  PROVE  Core'
<1> DEFINE F == {j \in Cut : outcome[j] = "none"}
           Rows(t) == {j \in Ids : row'[j] # "none" /\ tag[j] = t}
<1>1. /\ phase' = "up"
      /\ row' = Kept(Kept(row, Cut, "service_restarted"), Old, "none")
      /\ stamp' = Kept(Stamped, Old, NoTime)
      /\ status' = row'
      /\ finished' = [j \in Ids |-> IF row'[j] = "none" THEN NoTime ELSE now - Age(Stamped[j])]
      /\ keys' \in [Owners \X Keys -> Ids \cup {NoId}]
      /\ \A t \in Named : IF Rows(t) = {} THEN keys'[t] = NoId ELSE keys'[t] \in Rows(t)
      /\ outcome' = Kept(outcome, F, "service_restarted") /\ ended' = Kept(ended, F, now)
      /\ UNCHANGED <<tag, now, skew, submitted, missed, forgotten>>
  BY DEF Open, clock, Named
<1>2. wall \in Int /\ wall # NoTime /\ now \in Nat /\ now # NoTime
  BY ClockAssumption DEF wall, Core, TypeOK
<1>3. Stamped = [i \in Ids |-> IF i \in Cut THEN wall ELSE stamp[i]]
  BY DEF Stamped, Kept
<1>4. \A i \in Ids : row'[i] = IF i \in Old THEN "none" ELSE IF i \in Cut THEN "service_restarted" ELSE row[i]
  BY <1>1 DEF Kept
<1>5. \A i \in Ids : stamp'[i] = IF i \in Old THEN NoTime ELSE Stamped[i]
  BY <1>1 DEF Kept
<1>6. \A i \in Ids : /\ outcome'[i] = IF i \in F THEN "service_restarted" ELSE outcome[i]
                     /\ ended'[i] = IF i \in F THEN now ELSE ended[i]
  BY <1>1 DEF Kept
<1>7. \A i \in Ids : i \in Cut <=> row[i] = "queued"
  BY DEF Cut, Unfinished, Core, TypeOK, Terminal
<1>8. \A i \in Ids : row[i] # "none" => Stamped[i] \in Int
  BY <1>2, <1>3, <1>7 DEF Core, TypeOK, Dated, Terminal
<1>9. \A i \in Ids : row[i] # "none" => now - Age(Stamped[i]) \in Int
  BY <1>2, <1>8 DEF Age
<1>10. Old \subseteq Ids /\ \A i \in Old : row[i] # "none"
  BY DEF Old
<1>11. \A i \in Ids : row'[i] # "none" => row[i] # "none" /\ row'[i] \in Terminal
  BY <1>4, <1>7 DEF Core, TypeOK, Terminal
<1>12. \A i \in F : i \in Ids /\ i \in Cut
  BY DEF Cut
<1>13. row' \in [Ids -> {"none", "queued"} \cup Terminal] /\ stamp' \in [Ids -> Int \cup {NoTime}]
  <2>1. row' \in [Ids -> {"none", "queued"} \cup Terminal]
    <3>1. row' = [i \in Ids |-> IF i \in Old THEN "none" ELSE Kept(row, Cut, "service_restarted")[i]]
      BY <1>1 DEF Kept
    <3>2. \A i \in Ids : row'[i] \in {"none", "queued"} \cup Terminal
      BY <1>11
    <3> QED
      BY <3>1, <3>2
  <2>2. stamp' \in [Ids -> Int \cup {NoTime}]
    <3>1. stamp' = [i \in Ids |-> IF i \in Old THEN NoTime ELSE Stamped[i]]
      BY <1>1 DEF Kept
    <3>2. \A i \in Ids : Stamped[i] \in Int \cup {NoTime}
      BY <1>2, <1>3 DEF Core, TypeOK
    <3> QED
      BY <3>1, <3>2
  <2> QED
    BY <2>1, <2>2
<1>14. finished' \in [Ids -> Int \cup {NoTime}]
  BY <1>1, <1>9, <1>11
<1>15. outcome' \in [Ids -> {"none"} \cup Terminal] /\ ended' \in [Ids -> Nat \cup {NoTime}]
  BY <1>1, <1>2 DEF Kept, Core, TypeOK, Terminal
<1>16. status' \in [Ids -> {"none"} \cup Unfinished \cup Terminal]
  BY <1>1, <1>11, <1>13
<1>17. TypeOK'
  BY <1>1, <1>13, <1>14, <1>15, <1>16 DEF Core, TypeOK
<1> HIDE DEF F
<1>18. \A i \in Ids : i \in Known' <=> row'[i] # "none"
  BY <1>1 DEF Known
<1>19. Unborn'
  <2>1. Fresh' = Fresh
    BY <1>1 DEF Fresh
  <2>2. \A i \in Ids : i \in Fresh => row'[i] = "none" /\ i \notin F
    BY <1>7, <1>11, <1>12 DEF Core, Unborn
  <2> QED
    BY <1>1, <1>6, <2>1, <2>2 DEF Core, Unborn
<1>20. Dated'
  <2> SUFFICES ASSUME NEW i \in Ids
               PROVE  /\ finished'[i] = NoTime <=> status'[i] \notin Terminal
                      /\ stamp'[i] = NoTime <=> row'[i] \notin Terminal
                      /\ ended'[i] = NoTime <=> outcome'[i] = "none"
                      /\ i \in Known' => (outcome'[i] = "none" <=> status'[i] \in Unfinished)
                      /\ row'[i] \in Terminal => outcome'[i] # "none"
    BY DEF Dated
  <2>1. finished'[i] = NoTime <=> status'[i] \notin Terminal
    BY <1>1, <1>9, <1>11, ClockAssumption DEF Terminal
  <2>2. stamp'[i] = NoTime <=> row'[i] \notin Terminal
    <3>1. row[i] = "none" => stamp[i] = NoTime /\ i \notin Cut
      BY <1>7 DEF Core, Dated, Terminal
    <3>2. Stamped[i] = IF i \in Cut THEN wall ELSE stamp[i]
      BY <1>3
    <3>3. row[i] # "none" => Stamped[i] # NoTime
      BY <1>8, ClockAssumption
    <3> QED
      BY <1>4, <1>5, <1>10, <1>11, <3>1, <3>2, <3>3 DEF Terminal
  <2>3. ended'[i] = NoTime <=> outcome'[i] = "none"
    BY <1>2, <1>6 DEF Core, Dated
  <2>4. row[i] \in Terminal => outcome[i] # "none"
    BY DEF Core, Dated
  <2>5. row'[i] # "none" => outcome'[i] # "none"
    BY <1>6, <1>7, <1>11, <2>4 DEF F, Terminal, Core, TypeOK
  <2>6. i \in Known' => status'[i] \notin Unfinished
    BY <1>1, <1>11, <1>18 DEF Terminal, Unfinished
  <2>7. i \in Known' => outcome'[i] # "none" /\ status'[i] \notin Unfinished
    BY <1>18, <2>5, <2>6
  <2> QED
    BY <2>1, <2>2, <2>3, <2>5, <2>7, <1>11 DEF Terminal
<1>21. UniqueRows'
  BY <1>1, <1>11 DEF Core, UniqueRows
<1>22. NamesAgree'
  <2> SUFFICES ASSUME NEW t \in Named, NEW i \in Ids
               PROVE  keys'[t] = i <=> row'[i] # "none" /\ tag[i] = t
    BY <1>1, <1>18 DEF NamesAgree, Named
  <2>1. \A u, v \in Rows(t) : u = v
    BY <1>11 DEF Core, UniqueRows, Named
  <2>2. i \in Rows(t) <=> row'[i] # "none" /\ tag[i] = t
    OBVIOUS
  <2>3. IF Rows(t) = {} THEN keys'[t] = NoId ELSE keys'[t] \in Rows(t)
    BY <1>1
  <2> HIDE DEF Rows
  <2> QED
    BY <2>1, <2>2, <2>3, NameAssumption
<1>23. RowsCoverMemory'
  BY <1>1, <1>11, <1>18 DEF RowsCoverMemory, Known
<1> QED
  BY <1>1, <1>17, <1>19, <1>20, <1>21, <1>22, <1>23 DEF Core

LEMMA ClockCore ==
  ASSUME Core, Tick \/ SetClock \/ UNCHANGED vars
  PROVE  Core'
<1>1. /\ UNCHANGED <<phase, tag, status, finished, keys, row, stamp, submitted, outcome, ended, missed, forgotten>>
      /\ now' \in Nat /\ skew' \in 0..MaxSkew
  BY DEF Tick, SetClock, vars, memory, file, clock, seen, Core, TypeOK
<1>2. Known' = Known /\ Fresh' = Fresh
  BY <1>1 DEF Known, Fresh
<1>3. TypeOK'
  BY <1>1 DEF Core, TypeOK
<1> QED
  BY <1>1, <1>2, <1>3 DEF Core, Unborn, Dated, UniqueRows, NamesAgree, RowsCoverMemory

LEMMA CoreStep ==
  ASSUME Core, [Next]_vars
  PROVE  Core'
<1>1. ASSUME NEW worked \in BOOLEAN, Operations(worked)
      PROVE  Core'
  BY <1>1, ExpireCore, SubmitCore, EndCore DEF Operations
<1> QED
  BY <1>1, StartCore, CloseCore, ExitCore, OpenCore, ClockCore DEF Next

-----------------------------------------------------------------------------
(* How the file and memory speak of ended jobs.                            *)
Truth == RowsTruthful /\ EndsAreKept

LEMMA TruthStep ==
  ASSUME Core, Truth, [Next]_vars
  PROVE  Truth'
<1>1. ASSUME NEW worked, Expire(worked)
      PROVE  Truth'
  <2>1. /\ \A i \in Ids : status'[i] \in {"none", status[i]} /\ row'[i] \in {"none", row[i]}
        /\ UNCHANGED <<outcome, missed>>
    BY <1>1 DEF Expire, Kept
  <2> QED
    BY <2>1 DEF Truth, RowsTruthful, EndsAreKept, Known, Terminal
<1>2. ASSUME NEW j \in Ids, NEW o \in Owners, NEW k \in Keys \cup {NoKey}, NEW worked, Submit(j, o, k, worked)
      PROVE  Truth'
  <2>1. /\ \A i \in Ids : i # j => status'[i] \in {"none", status[i]} /\ row'[i] \in {"none", row[i]}
        /\ status'[j] = "queued" /\ row'[j] = "queued" /\ j \in Fresh
        /\ UNCHANGED <<outcome, missed>>
    BY <1>2 DEF Submit, Kept
  <2>2. outcome[j] = "none"
    BY <2>1 DEF Core, Unborn
  <2> QED
    BY <2>1, <2>2 DEF Truth, RowsTruthful, EndsAreKept, Known, Terminal
<1>3. ASSUME NEW j \in Ids, Start(j)
      PROVE  Truth'
  <2>1. /\ \A i \in Ids : i # j => status'[i] = status[i]
        /\ status[j] = "queued" /\ UNCHANGED <<row, outcome, missed>>
    BY <1>3 DEF Start, file, seen, Core, TypeOK
  <2>2. outcome[j] = "none"
    BY <2>1 DEF Core, Dated, Known, Unfinished
  <2> QED
    BY <2>1, <2>2 DEF Truth, RowsTruthful, EndsAreKept, Known
<1>4. ASSUME NEW j \in Ids, NEW X \in SUBSET Ids, NEW worked, NEW written \in BOOLEAN, End(j, X, worked, written)
      PROVE  Truth'
  <2>1. /\ \A i \in Ids : i # j => /\ status'[i] \in {"none", status[i]} /\ row'[i] \in {"none", row[i]}
                                   /\ outcome'[i] = outcome[i]
        /\ status'[j] = "ended" /\ outcome'[j] = "ended"
        /\ missed' = IF written THEN missed ELSE missed \cup {j}
    BY <1>4 DEF End, Kept, Core, TypeOK
  <2>2. status[j] \in Unfinished /\ j \in Known
    BY <1>4 DEF End, Known, Unfinished
  <2>3. row[j] = "queued"
    BY <2>2 DEF Core, RowsCoverMemory, Terminal, Unfinished
  <2>4. written => row'[j] = "ended"
    BY <1>4, <2>3 DEF End
  <2>5. ~written => row'[j] \in {"none", "queued"} /\ j \in missed'
    BY <1>4, <2>1, <2>3 DEF End, Kept
  <2> QED
    BY <2>1, <2>4, <2>5 DEF Truth, RowsTruthful, EndsAreKept, Known, Terminal
<1>5. CASE Close
  <2>1. /\ \A i \in Ids : IF status[i] \in Unfinished
             THEN status'[i] = "cancelled" /\ outcome'[i] = "cancelled"
             ELSE status'[i] = status[i] /\ outcome'[i] = outcome[i]
        /\ UNCHANGED <<row, missed>>
    BY <1>5 DEF Close, Kept, file
  <2>2. \A i \in Ids : status[i] \in Unfinished => i \in Known /\ row[i] = "queued"
    BY DEF Core, RowsCoverMemory, Terminal, Unfinished, Known
  <2> QED
    BY <2>1, <2>2 DEF Truth, RowsTruthful, EndsAreKept, Known, Terminal, Unfinished
<1>6. CASE Exit
  <2>1. Known' = {} /\ UNCHANGED <<row, outcome, missed>>
    BY <1>6 DEF Exit, Known, file, seen
  <2> QED
    BY <2>1 DEF Truth, RowsTruthful, EndsAreKept
<1>7. CASE Open
  <2>1. /\ UNCHANGED missed /\ status' = row'
        /\ \A i \in Ids : row'[i] \in {"none", IF i \in Cut THEN "service_restarted" ELSE row[i]}
        /\ \A i \in Ids : outcome'[i] = IF i \in Cut /\ outcome[i] = "none" THEN "service_restarted" ELSE outcome[i]
    BY <1>7 DEF Open, Kept
  <2>2. \A i \in Ids : i \in Cut <=> row[i] = "queued"
    BY DEF Cut, Unfinished, Core, TypeOK, Terminal
  <2>3. \A i \in Ids : row'[i] \in {"none"} \cup Terminal
    BY <2>1, <2>2 DEF Core, TypeOK, Terminal
  <2>4. RowsTruthful'
    BY <2>1, <2>2, <2>3 DEF Truth, RowsTruthful, Terminal, Core, Dated
  <2>5. EndsAreKept'
    BY <2>1, <2>3, <2>4 DEF RowsTruthful, EndsAreKept, Known
  <2> QED
    BY <2>4, <2>5 DEF Truth
<1>8. CASE Tick \/ SetClock \/ UNCHANGED vars
  BY <1>8 DEF Tick, SetClock, vars, memory, file, seen, Truth, RowsTruthful, EndsAreKept, Known
<1>9. ASSUME NEW worked \in BOOLEAN, Operations(worked)
      PROVE  Truth'
  BY <1>1, <1>2, <1>4, <1>9 DEF Operations
<1> QED
  BY <1>3, <1>5, <1>6, <1>7, <1>8, <1>9 DEF Next

-----------------------------------------------------------------------------
(* The ages of jobs while the wall clock is not set.                       *)
LEMMA Times ==
  ASSUME Core, NEW j \in Ids
  PROVE  /\ finished[j] \in Int \cup {NoTime} /\ stamp[j] \in Int \cup {NoTime} /\ ended[j] \in Nat \cup {NoTime}
         /\ now \in Nat /\ Retention \in Nat \ {0} /\ NoTime \notin Int /\ NoTime # now
         /\ MaxSkew = 0 => wall = now
BY LimitsAssumption, ClockAssumption DEF Core, TypeOK, wall

(* An expired job has been over for its retention.                         *)
LEMMA ExpiredOver ==
  ASSUME Core, Steady, NEW j \in Expired
  PROVE  LongOver(j)
<1>1. j \in Ids /\ j \in Known /\ finished[j] # NoTime /\ now - finished[j] >= Retention
  BY DEF Expired, Known
<1>2. ended[j] # NoTime /\ ended[j] <= finished[j]
  BY <1>1 DEF Steady, Steadily, Core, Dated, Terminal, Unfinished
<1> QED
  BY <1>1, <1>2, Times DEF LongOver

(* Whatever leaves a job's times and clock alone, and takes it from memory *)
(* or file only when it has been over for long, keeps it steady.           *)
LEMMA StaysSteady ==
  ASSUME Core, NEW j \in Ids, Steadily(j),
         UNCHANGED <<now, submitted>>, phase' = phase, ended'[j] = ended[j], outcome'[j] = outcome[j],
         \/ finished'[j] = finished[j] /\ status'[j] = status[j]
         \/ finished'[j] = NoTime /\ status'[j] = "none" /\ LongOver(j)
         \/ finished'[j] = NoTime /\ status'[j] # "none",
         \/ stamp'[j] = stamp[j] /\ row'[j] = row[j]
         \/ stamp'[j] = NoTime /\ row'[j] = "none" /\ LongOver(j)
         \/ stamp'[j] = NoTime /\ row'[j] # "none"
  PROVE  Steadily(j)'
BY DEF Steadily, LongOver, Fresh, Known

LEMMA SteadyStep ==
  ASSUME MaxSkew = 0, Core, Truth, Steady, [Next]_vars
  PROVE  Steady'
<1>1. ASSUME NEW worked, Expire(worked)
      PROVE  Steady'
  <2> SUFFICES ASSUME NEW i \in Ids
               PROVE  Steadily(i)'
    BY DEF Steady
  <2>1. i \in Expired => LongOver(i)
    BY <1>1, ExpiredOver
  <2>2. /\ UNCHANGED <<phase, now, submitted, ended, outcome>>
        /\ finished'[i] = IF i \in Expired THEN NoTime ELSE finished[i]
        /\ status'[i] = IF i \in Expired THEN "none" ELSE status[i]
        /\ i \in Deleted(Expired, worked) => i \in Expired
        /\ stamp'[i] = IF i \in Deleted(Expired, worked) THEN NoTime ELSE stamp[i]
        /\ row'[i] = IF i \in Deleted(Expired, worked) THEN "none" ELSE row[i]
    BY <1>1 DEF Expire, Kept, Deleted, clock
  <2> QED
    BY <2>1, <2>2, StaysSteady DEF Steady
<1>2. ASSUME NEW j \in Ids, NEW o \in Owners, NEW k \in Keys \cup {NoKey}, NEW worked, Submit(j, o, k, worked)
      PROVE  Steady'
  <2> SUFFICES ASSUME NEW i \in Ids
               PROVE  Steadily(i)'
    BY DEF Steady
  <2> DEFINE G == Deleted(Expired, worked) \cup Replaced(o, k)
  <2>1. i \in Expired => LongOver(i)
    BY <1>2, ExpiredOver
  <2>2. ASSUME i \in Replaced(o, k)
        PROVE  LongOver(i)
    <3>1. row[i] # "none" /\ tag[i] = <<o, k>> /\ k \in Keys
      BY <2>2 DEF Replaced
    <3>2. i \notin Known \ Expired
      BY <1>2, <3>1, KeyFree
    <3>3. i \notin Fresh /\ phase = "up"
      BY <1>2, <3>1 DEF Core, Unborn, Submit
    <3> QED
      BY <2>1, <3>2, <3>3 DEF Steady, Steadily
  <2>3. i \in G => LongOver(i)
    BY <2>1, <2>2 DEF Deleted
  <2>4. /\ UNCHANGED <<phase, now, ended, outcome>> /\ phase = "up"
        /\ finished'[i] = IF i \in Expired THEN NoTime ELSE finished[i]
        /\ status'[i] = IF i = j THEN "queued" ELSE IF i \in Expired THEN "none" ELSE status[i]
        /\ stamp'[i] = IF i \in G THEN NoTime ELSE stamp[i]
        /\ row'[i] = IF i = j THEN "queued" ELSE IF i \in G THEN "none" ELSE row[i]
        /\ i # j => submitted'[i] = submitted[i]
    BY <1>2 DEF Submit, Kept, clock, Core, TypeOK
  <2> HIDE DEF G
  <2>5. CASE i = j
    <3>1. j \in Fresh
      BY <1>2 DEF Submit
    <3>2. outcome[j] = "none" /\ ended[j] = NoTime /\ finished[j] = NoTime /\ stamp[j] = NoTime
      BY <3>1 DEF Core, Unborn, Dated, Terminal
    <3> QED
      BY <2>4, <2>5, <3>2 DEF Steadily, Known
  <2>6. CASE i # j
    <3>1. i \in Fresh' <=> i \in Fresh
      BY <2>4, <2>6 DEF Fresh
    <3>2. Steadily(i)
      BY DEF Steady
    <3> QED
      BY <2>1, <2>3, <2>4, <2>6, <3>1, <3>2 DEF Steadily, LongOver, Known
  <2> QED
    BY <2>5, <2>6
<1>3. ASSUME NEW j \in Ids, Start(j)
      PROVE  Steady'
  <2> SUFFICES ASSUME NEW i \in Ids
               PROVE  Steadily(i)'
    BY DEF Steady
  <2>1. /\ UNCHANGED <<phase, now, submitted, ended, outcome, finished, stamp, row>>
        /\ i # j => status'[i] = status[i]
        /\ status[j] = "queued" /\ status'[j] = "running"
    BY <1>3 DEF Start, file, seen, clock, Core, TypeOK
  <2>2. finished[j] = NoTime
    BY <2>1 DEF Core, Dated, Terminal
  <2> QED
    BY <2>1, <2>2, StaysSteady DEF Steady
<1>4. ASSUME NEW j \in Ids, NEW X \in SUBSET Ids, NEW worked, NEW written \in BOOLEAN, End(j, X, worked, written)
      PROVE  Steady'
  <2> SUFFICES ASSUME NEW i \in Ids
               PROVE  Steadily(i)'
    BY DEF Steady
  <2>1. i \in X => LongOver(i) /\ i \in Expired
    BY <1>4, ExpiredOver DEF End
  <2>2. /\ UNCHANGED <<phase, now, submitted>> /\ phase = "up"
        /\ status'[j] = "ended" /\ finished'[j] = now /\ ended'[j] = now /\ outcome'[j] = "ended"
        /\ i # j => /\ ended'[i] = ended[i] /\ outcome'[i] = outcome[i]
                    /\ status'[i] = IF i \in X THEN "none" ELSE status[i]
                    /\ finished'[i] = IF i \in X THEN NoTime ELSE finished[i]
    BY <1>4 DEF End, Kept, clock, Core, TypeOK
  <2>3. /\ i \in Deleted(X, worked) => i \in X
        /\ i # j => /\ row'[i] = IF i \in Deleted(X, worked) THEN "none" ELSE row[i]
                    /\ stamp'[i] = IF i \in Deleted(X, worked) THEN NoTime ELSE stamp[i]
    BY <1>4 DEF End, Kept, Deleted
  <2>4. CASE i # j
    <3>1. Steadily(i)
      BY DEF Steady
    <3> QED
      BY <2>1, <2>2, <2>3, <2>4, <3>1, StaysSteady
  <2>5. CASE i = j
    <3>1. status[j] \in Unfinished /\ j \in Known
      BY <1>4 DEF End, Known, Unfinished
    <3>2. row[j] = "queued" /\ stamp[j] = NoTime /\ finished[j] = NoTime /\ j \notin Expired
      BY <3>1 DEF Core, RowsCoverMemory, Dated, Terminal, Unfinished, Expired
    <3>3. j \notin Deleted(X, worked)
      BY <2>1, <2>3, <2>5, <3>2
    <3>4. wall = now /\ now # NoTime /\ now \in Nat
      BY Times
    <3>5. row'[j] \in {"queued", "ended"} /\ (stamp'[j] = NoTime \/ stamp'[j] = now)
      BY <1>4, <3>2, <3>3, <3>4 DEF End, Kept
    <3> QED
      BY <2>2, <2>5, <3>4, <3>5 DEF Steadily, Known
  <2> QED
    BY <2>4, <2>5
<1>5. CASE Close
  <2> SUFFICES ASSUME NEW i \in Ids
               PROVE  Steadily(i)'
    BY DEF Steady
  <2>1. /\ UNCHANGED <<row, stamp, now, submitted>> /\ phase = "up"
        /\ status'[i] = IF status[i] \in Unfinished THEN "cancelled" ELSE status[i]
        /\ outcome'[i] = IF status[i] \in Unfinished THEN "cancelled" ELSE outcome[i]
        /\ finished'[i] = IF status[i] \in Unfinished THEN now ELSE finished[i]
        /\ ended'[i] = IF status[i] \in Unfinished THEN now ELSE ended[i]
    BY <1>5 DEF Close, Kept, file, clock
  <2>2. status[i] \in Unfinished => row[i] = "queued" /\ stamp[i] = NoTime
    BY DEF Core, RowsCoverMemory, Dated, Terminal, Unfinished, Known
  <2>3. now \in Nat
    BY Times
  <2>4. Steadily(i) /\ Fresh' = Fresh
    BY <2>1 DEF Steady, Fresh
  <2> QED
    BY <2>1, <2>2, <2>3, <2>4 DEF Steadily, LongOver, Known, Unfinished
<1>6. CASE Exit
  <2> SUFFICES ASSUME NEW i \in Ids
               PROVE  Steadily(i)'
    BY DEF Steady
  <2>1. /\ UNCHANGED <<row, stamp, now, submitted, ended, outcome>> /\ phase' = "down"
        /\ finished'[i] = NoTime
    BY <1>6 DEF Exit, file, clock, seen
  <2>2. Steadily(i) /\ Fresh' = Fresh
    BY <2>1 DEF Steady, Fresh
  <2> QED
    BY <2>1, <2>2 DEF Steadily, LongOver
<1>7. CASE Open
  <2> SUFFICES ASSUME NEW i \in Ids
               PROVE  Steadily(i)'
    BY DEF Steady
  <2>1. /\ UNCHANGED <<now, submitted>> /\ phase' = "up" /\ status' = row'
        /\ row'[i] = IF i \in Old THEN "none" ELSE IF i \in Cut THEN "service_restarted" ELSE row[i]
        /\ stamp'[i] = IF i \in Old THEN NoTime ELSE IF i \in Cut THEN wall ELSE stamp[i]
        /\ Stamped[i] = IF i \in Cut THEN wall ELSE stamp[i]
        /\ finished'[i] = IF row'[i] = "none" THEN NoTime ELSE now - Age(Stamped[i])
        /\ outcome'[i] = IF i \in Cut /\ outcome[i] = "none" THEN "service_restarted" ELSE outcome[i]
        /\ ended'[i] = IF i \in Cut /\ outcome[i] = "none" THEN now ELSE ended[i]
    BY <1>7 DEF Open, Kept, Stamped, clock
  <2>2. i \in Cut <=> row[i] = "queued"
    BY DEF Cut, Unfinished, Core, TypeOK, Terminal
  <2>3. i \in Old <=> row[i] # "none" /\ Stamped[i] <= now - Retention
    BY Times DEF Old
  <2>4. Steadily(i) /\ Fresh' = Fresh
    BY <2>1 DEF Steady, Fresh
  <2>5. /\ now \in Nat /\ Retention \in Nat \ {0} /\ wall = now /\ NoTime \notin Int
        /\ stamp[i] \in Int \cup {NoTime} /\ ended[i] \in Nat \cup {NoTime}
    BY Times
  <2>6. CASE row[i] = "none"
    <3>1. row'[i] = "none" /\ stamp'[i] = NoTime /\ finished'[i] = NoTime /\ UNCHANGED <<ended[i], outcome[i]>>
      BY <2>1, <2>2, <2>3, <2>6 DEF Core, Dated, Terminal
    <3> QED
      BY <2>1, <2>4, <2>6, <3>1 DEF Steadily, LongOver, Known
  <2>7. CASE i \in Cut
    <3>1. i \notin Old /\ Age(Stamped[i]) = 0
      BY <2>1, <2>3, <2>5, <2>7 DEF Age
    <3>2. row'[i] = "service_restarted" /\ stamp'[i] = now /\ finished'[i] = now
      BY <2>1, <2>5, <2>7, <3>1
    <3>3. outcome[i] # "none" => ended[i] # NoTime /\ ended[i] <= now
      BY <2>4 DEF Core, Dated, Steadily
    <3>4. outcome[i] # "service_restarted"
      BY <2>2, <2>7 DEF Truth, RowsTruthful
    <3> QED
      BY <2>1, <2>4, <2>5, <2>7, <3>2, <3>3, <3>4 DEF Steadily, Known
  <2>8. CASE i \in Old /\ i \notin Cut
    <3>1. row[i] \in Terminal
      BY <2>2, <2>3, <2>8 DEF Core, TypeOK
    <3>2. stamp[i] # NoTime /\ ended[i] # NoTime /\ ended[i] <= stamp[i] /\ stamp[i] <= now - Retention
      BY <2>1, <2>3, <2>4, <2>8, <3>1 DEF Core, Dated, Steadily
    <3>3. row'[i] = "none" /\ stamp'[i] = NoTime /\ finished'[i] = NoTime /\ UNCHANGED <<ended[i], outcome[i]>>
      BY <2>1, <2>8
    <3>4. now - ended[i] >= Retention
      BY <2>5, <3>2
    <3> QED
      BY <2>1, <2>4, <3>2, <3>3, <3>4 DEF Steadily, LongOver, Known
  <2>9. CASE row[i] # "none" /\ i \notin Old /\ i \notin Cut
    <3>1. row[i] \in Terminal
      BY <2>2, <2>9 DEF Core, TypeOK
    <3>2. stamp[i] # NoTime /\ ended[i] # NoTime /\ ended[i] <= stamp[i] /\ ended[i] <= now
      BY <2>4, <3>1 DEF Core, Dated, Steadily
    <3>3. row[i] = outcome[i] => stamp[i] = ended[i]
      BY <2>4, <3>2 DEF Steadily
    <3>4. /\ row'[i] = row[i] /\ stamp'[i] = stamp[i] /\ finished'[i] = now - Age(stamp[i])
          /\ status'[i] = row'[i] /\ UNCHANGED <<ended[i], outcome[i]>>
      BY <2>1, <2>9
    <3>5. ended[i] <= finished'[i] /\ (stamp[i] = ended[i] => finished'[i] = ended[i])
      BY <2>5, <3>2, <3>4 DEF Age
    <3> QED
      BY <2>1, <2>4, <2>9, <3>2, <3>3, <3>4, <3>5 DEF Steadily, Known
  <2> QED
    BY <2>6, <2>7, <2>8, <2>9
<1>8. CASE Tick \/ SetClock \/ UNCHANGED vars
  <2> SUFFICES ASSUME NEW i \in Ids
               PROVE  Steadily(i)'
    BY DEF Steady
  <2>1. /\ UNCHANGED <<phase, status, finished, row, stamp, submitted, outcome, ended>>
        /\ now' = now \/ now' = now + 1
    BY <1>8 DEF Tick, SetClock, vars, memory, file, clock, seen
  <2>2. Steadily(i) /\ Fresh' = Fresh
    BY <2>1 DEF Steady, Fresh
  <2> QED
    BY <2>1, <2>2, Times DEF Steadily, LongOver, Known
<1>9. ASSUME NEW worked \in BOOLEAN, Operations(worked)
      PROVE  Steady'
  BY <1>1, <1>2, <1>4, <1>9 DEF Operations
<1> QED
  BY <1>3, <1>5, <1>6, <1>7, <1>8, <1>9 DEF Next

(* Only a submission adds a job, under a key that no job still known has.  *)
LEMMA DuplicateStep ==
  ASSUME Core, Steady, NoDuplicateWork, [Next]_vars
  PROVE  NoDuplicateWork'
<1>1. ASSUME UNCHANGED <<tag, submitted>>, \A i \in Ids : ended[i] # NoTime => ended'[i] = ended[i]
      PROVE  NoDuplicateWork'
  <2>1. Fresh' = Fresh
    BY <1>1 DEF Fresh
  <2>2. Fresh \subseteq Ids
    BY DEF Fresh
  <2> QED
    BY <1>1, <2>1, <2>2 DEF NoDuplicateWork, Over
<1>2. \A i \in Ids : status[i] \in Unfinished => ended[i] = NoTime
  BY DEF Core, Dated, Known, Unfinished
<1>3. ASSUME NEW j \in Ids, NEW o \in Owners, NEW k \in Keys \cup {NoKey}, NEW worked, Submit(j, o, k, worked)
      PROVE  NoDuplicateWork'
  <2> DEFINE T == <<o, k>>
  <2>1. /\ j \in Fresh /\ phase = "up"
        /\ tag' = [tag EXCEPT ![j] = T] /\ submitted' = [submitted EXCEPT ![j] = now]
        /\ ended' = ended
    BY <1>3 DEF Submit
  <2>2. /\ \A i \in Ids : tag'[i] = IF i = j THEN T ELSE tag[i]
        /\ \A i \in Ids : submitted'[i] = IF i = j THEN now ELSE submitted[i]
        /\ T[2] = k
    BY <2>1 DEF Core, TypeOK
  <2>3. ASSUME NEW i \in Ids, i \notin Fresh, tag[i] = T, k # NoKey
        PROVE  Over(i, now)
    <3>1. i \notin Known \ Expired
      BY <1>3, <2>3, KeyFree
    <3>2. LongOver(i)
      BY <2>1, <2>3, <3>1, ExpiredOver DEF Steady, Steadily
    <3> QED
      BY <3>2, Times DEF LongOver, Over
  <2> SUFFICES ASSUME NEW a \in Ids, NEW b \in Ids, a \notin Fresh', b \notin Fresh',
                      a # b, tag'[a] = tag'[b], tag'[a][2] # NoKey
               PROVE  Over(a, submitted[b])' \/ Over(b, submitted[a])'
    BY DEF NoDuplicateWork
  <2> HIDE DEF T
  <2>4. CASE a # j /\ b # j
    <3>1. a \in Ids \ Fresh /\ b \in Ids \ Fresh
      BY <2>2, <2>4 DEF Fresh
    <3>2. tag[a] = tag[b] /\ tag[a][2] # NoKey
      BY <2>2, <2>4
    <3>3. Over(a, submitted[b]) \/ Over(b, submitted[a])
      BY <3>1, <3>2 DEF NoDuplicateWork
    <3> QED
      BY <2>1, <2>2, <2>4, <3>3 DEF Over
  <2>5. CASE a = j
    <3>1. b # j /\ b \notin Fresh /\ tag[b] = T /\ k # NoKey
      BY <2>2, <2>5 DEF Fresh
    <3>2. Over(b, now) /\ submitted'[a] = now
      BY <2>2, <2>3, <2>5, <3>1
    <3> QED
      BY <2>1, <3>2 DEF Over
  <2>6. CASE b = j
    <3>1. a # j /\ a \notin Fresh /\ tag[a] = T /\ k # NoKey
      BY <2>2, <2>6 DEF Fresh
    <3>2. Over(a, now) /\ submitted'[b] = now
      BY <2>2, <2>3, <2>6, <3>1
    <3> QED
      BY <2>1, <3>2 DEF Over
  <2> QED
    BY <2>4, <2>5, <2>6
<1>4. ASSUME NEW worked, Expire(worked)
      PROVE  NoDuplicateWork'
  BY <1>1, <1>4 DEF Expire
<1>5. ASSUME NEW j \in Ids, Start(j)
      PROVE  NoDuplicateWork'
  BY <1>1, <1>5 DEF Start, seen
<1>6. ASSUME NEW j \in Ids, NEW X \in SUBSET Ids, NEW worked, NEW written \in BOOLEAN, End(j, X, worked, written)
      PROVE  NoDuplicateWork'
  <2>1. UNCHANGED <<tag, submitted>> /\ ended' = [ended EXCEPT ![j] = now] /\ ended[j] = NoTime
    BY <1>2, <1>6 DEF End
  <2>2. \A i \in Ids : ended[i] # NoTime => ended'[i] = ended[i]
    BY <2>1 DEF Core, TypeOK
  <2> QED
    BY <1>1, <2>1, <2>2
<1>7. CASE Close
  <2>1. UNCHANGED <<tag, submitted>>
    BY <1>7 DEF Close
  <2>2. \A i \in Ids : ended[i] # NoTime => ended'[i] = ended[i]
    BY <1>2, <1>7 DEF Close, Kept
  <2> QED
    BY <1>1, <2>1, <2>2
<1>8. CASE Open
  <2>1. UNCHANGED <<tag, submitted>>
    BY <1>8 DEF Open
  <2>2. \A i \in Ids : ended[i] # NoTime => ended'[i] = ended[i]
    BY <1>8 DEF Open, Kept, Core, Dated
  <2> QED
    BY <1>1, <2>1, <2>2
<1>9. CASE Exit \/ Tick \/ SetClock \/ UNCHANGED vars
  BY <1>1, <1>9 DEF Exit, Tick, SetClock, vars, seen
<1>10. ASSUME NEW worked \in BOOLEAN, Operations(worked)
      PROVE  NoDuplicateWork'
  BY <1>3, <1>4, <1>6, <1>10 DEF Operations
<1> QED
  BY <1>5, <1>7, <1>8, <1>9, <1>10 DEF Next

-----------------------------------------------------------------------------
(* Every finish time is taken from the monotonic clock, or is an age that  *)
(* is not negative before it.                                              *)
LEMMA FutureStep ==
  ASSUME Core, NotFromTheFuture, [Next]_vars
  PROVE  NotFromTheFuture'
<1>1. ASSUME now' >= now, now' \in Nat, \A i \in Ids : finished'[i] \in {NoTime, now, finished[i]}
      PROVE  NotFromTheFuture'
  <2>1. \A i \in Ids : finished[i] # NoTime => finished[i] <= now
    BY DEF NotFromTheFuture, Core, Dated, Known, Terminal
  <2>2. now \in Nat /\ \A i \in Ids : finished[i] \in Int \cup {NoTime}
    BY DEF Core, TypeOK
  <2> QED
    BY <1>1, <2>1, <2>2 DEF NotFromTheFuture, Known
<1>2. now \in Nat
  BY DEF Core, TypeOK
<1>3. ASSUME NEW worked, Expire(worked)
      PROVE  NotFromTheFuture'
  BY <1>1, <1>2, <1>3 DEF Expire, Kept, clock
<1>4. ASSUME NEW j \in Ids, NEW o \in Owners, NEW k \in Keys \cup {NoKey}, NEW worked, Submit(j, o, k, worked)
      PROVE  NotFromTheFuture'
  BY <1>1, <1>2, <1>4 DEF Submit, Kept, clock
<1>5. ASSUME NEW j \in Ids, Start(j)
      PROVE  NotFromTheFuture'
  BY <1>1, <1>2, <1>5 DEF Start, clock
<1>6. ASSUME NEW j \in Ids, NEW X \in SUBSET Ids, NEW worked, NEW written \in BOOLEAN, End(j, X, worked, written)
      PROVE  NotFromTheFuture'
  BY <1>1, <1>2, <1>6 DEF End, Kept, clock
<1>7. CASE Close
  BY <1>1, <1>2, <1>7 DEF Close, Kept, clock
<1>8. CASE Exit
  BY <1>1, <1>2, <1>8 DEF Exit, clock
<1>9. CASE Open
  <2>1. ASSUME NEW i \in Ids, row'[i] # "none"
        PROVE  finished'[i] <= now
    <3>1. finished'[i] = now - Age(Stamped[i]) /\ row[i] # "none"
      BY <1>9, <2>1 DEF Open, Kept, Cut, Unfinished
    <3>2. stamp[i] \in Int \cup {NoTime} /\ wall \in Int /\ (row[i] \in Terminal => stamp[i] # NoTime)
      BY ClockAssumption DEF Core, TypeOK, Dated, wall
    <3>3. Stamped[i] \in Int
      BY <3>1, <3>2 DEF Stamped, Kept, Cut, Unfinished, Core, TypeOK
    <3>4. Age(Stamped[i]) \in Nat
      BY <3>2, <3>3 DEF Age
    <3> QED
      BY <1>2, <3>1, <3>4
  <2>2. now' = now /\ status' = row'
    BY <1>9 DEF Open, clock
  <2> QED
    BY <2>1, <2>2 DEF NotFromTheFuture, Known
<1>10. CASE Tick \/ SetClock \/ UNCHANGED vars
  BY <1>1, <1>2, <1>10 DEF Tick, SetClock, vars, memory, clock
<1>11. ASSUME NEW worked \in BOOLEAN, Operations(worked)
      PROVE  NotFromTheFuture'
  BY <1>3, <1>4, <1>6, <1>11 DEF Operations
<1> QED
  BY <1>5, <1>7, <1>8, <1>9, <1>10, <1>11 DEF Next

-----------------------------------------------------------------------------
(* The row of an expired job is gone or dated as memory had it, unless the *)
(* file missed its end.                                                    *)
LEMMA ExpiredOnRecord ==
  ASSUME Core, Recorded, phase = "up", NEW j \in Expired, j \notin missed
  PROVE  row[j] # "queued" /\ (stamp[j] # NoTime => now - stamp[j] >= Retention)
<1>1. j \in Ids /\ j \in Known /\ finished[j] # NoTime /\ now - finished[j] >= Retention
  BY DEF Expired, Known
<1>2. status[j] \in Terminal
  BY <1>1 DEF Core, Dated
<1>3. row[j] \in Terminal
  BY <1>1, <1>2 DEF Core, RowsCoverMemory, Terminal, Unfinished
<1>4. stamp[j] # NoTime => finished[j] = stamp[j]
  BY <1>1 DEF Recorded, OnRecord
<1> QED
  BY <1>1, <1>3, <1>4 DEF Terminal

(* A job that only leaves memory or the file, and does not expire, stays   *)
(* on record; one that expires is there as above.                          *)
LEMMA StaysOnRecord ==
  ASSUME Core, NEW j \in Ids, OnRecord(j), now' = now,
         j \in missed => j \in missed',
         \/ finished'[j] = finished[j] /\ status'[j] = status[j]
         \/ status'[j] = "none",
         \/ stamp'[j] = stamp[j] /\ row'[j] = row[j]
         \/ stamp'[j] = NoTime /\ row'[j] = "none",
         \/ j \in forgotten' => j \in forgotten
         \/ /\ status'[j] = "none"
            /\ j \notin missed => row[j] # "queued" /\ (stamp[j] # NoTime => now - stamp[j] >= Retention)
  PROVE  OnRecord(j)'
BY DEF OnRecord, Known

LEMMA RecordedStep ==
  ASSUME MaxSkew = 0, Core, Recorded, [Next]_vars
  PROVE  Recorded'
<1>1. ASSUME NEW worked, Expire(worked)
      PROVE  Recorded'
  <2> SUFFICES ASSUME NEW i \in Ids
               PROVE  OnRecord(i)'
    BY DEF Recorded
  <2>1. /\ UNCHANGED <<now, missed>>
        /\ status'[i] = IF i \in Expired THEN "none" ELSE status[i]
        /\ finished'[i] = IF i \in Expired THEN NoTime ELSE finished[i]
        /\ row'[i] = IF i \in Deleted(Expired, worked) THEN "none" ELSE row[i]
        /\ stamp'[i] = IF i \in Deleted(Expired, worked) THEN NoTime ELSE stamp[i]
        /\ forgotten' = IF phase = "up" THEN forgotten \cup Expired ELSE forgotten
    BY <1>1 DEF Expire, Kept, clock
  <2> QED
    BY <2>1, ExpiredOnRecord, StaysOnRecord DEF Recorded
<1>2. ASSUME NEW j \in Ids, NEW o \in Owners, NEW k \in Keys \cup {NoKey}, NEW worked, Submit(j, o, k, worked)
      PROVE  Recorded'
  <2> SUFFICES ASSUME NEW i \in Ids
               PROVE  OnRecord(i)'
    BY DEF Recorded
  <2> DEFINE G == Deleted(Expired, worked) \cup Replaced(o, k)
  <2>1. /\ UNCHANGED <<now, missed>> /\ phase = "up" /\ j \in Fresh
        /\ status'[i] = IF i = j THEN "queued" ELSE IF i \in Expired THEN "none" ELSE status[i]
        /\ finished'[i] = IF i \in Expired THEN NoTime ELSE finished[i]
        /\ row'[i] = IF i = j THEN "queued" ELSE IF i \in G THEN "none" ELSE row[i]
        /\ stamp'[i] = IF i \in G THEN NoTime ELSE stamp[i]
        /\ forgotten' = forgotten \cup Expired
    BY <1>2 DEF Submit, Kept, clock, Core, TypeOK
  <2>2. CASE i = j
    <3>1. i \notin forgotten /\ stamp[i] = NoTime /\ status[i] = "none"
      BY <2>1, <2>2 DEF Core, Unborn, Dated, Terminal
    <3>2. i \notin Expired
      BY <3>1 DEF Expired, Known
    <3> QED
      BY <2>1, <3>1, <3>2 DEF OnRecord
  <2>3. CASE i # j
    BY <2>1, <2>3, ExpiredOnRecord, StaysOnRecord DEF Recorded
  <2> QED
    BY <2>2, <2>3
<1>3. ASSUME NEW j \in Ids, Start(j)
      PROVE  Recorded'
  <2> SUFFICES ASSUME NEW i \in Ids
               PROVE  OnRecord(i)'
    BY DEF Recorded
  <2>1. /\ UNCHANGED <<now, missed, forgotten, row, stamp, finished>>
        /\ i # j => status'[i] = status[i]
        /\ status[j] = "queued"
    BY <1>3 DEF Start, file, seen, clock, Core, TypeOK
  <2>2. Known' = Known
    BY <1>3 DEF Start, Known, Core, TypeOK
  <2> QED
    BY <2>1, <2>2 DEF Recorded, OnRecord
<1>4. ASSUME NEW j \in Ids, NEW X \in SUBSET Ids, NEW worked, NEW written \in BOOLEAN, End(j, X, worked, written)
      PROVE  Recorded'
  <2> SUFFICES ASSUME NEW i \in Ids
               PROVE  OnRecord(i)'
    BY DEF Recorded
  <2>1. /\ UNCHANGED now /\ phase = "up" /\ X \subseteq Expired
        /\ status[j] \in Unfinished /\ status'[j] = "ended" /\ finished'[j] = now
        /\ missed' = IF written THEN missed ELSE missed \cup {j}
        /\ forgotten' = forgotten \cup X
        /\ i # j => /\ status'[i] = IF i \in X THEN "none" ELSE status[i]
                    /\ finished'[i] = IF i \in X THEN NoTime ELSE finished[i]
                    /\ row'[i] = IF i \in Deleted(X, worked) THEN "none" ELSE row[i]
                    /\ stamp'[i] = IF i \in Deleted(X, worked) THEN NoTime ELSE stamp[i]
    BY <1>4 DEF End, Kept, clock, Core, TypeOK
  <2>2. CASE i # j
    BY <2>1, <2>2, ExpiredOnRecord, StaysOnRecord DEF Recorded
  <2>3. CASE i = j
    <3>1. j \in Known /\ row[j] = "queued" /\ stamp[j] = NoTime /\ finished[j] = NoTime /\ j \notin Expired
      BY <2>1 DEF Core, RowsCoverMemory, Dated, Terminal, Unfinished, Expired, Known
    <3>2. j \notin forgotten \ missed
      BY <3>1 DEF Recorded, OnRecord
    <3>3. wall = now /\ now \in Nat
      BY Times
    <3>4. stamp'[j] = NoTime \/ stamp'[j] = now
      BY <1>4, <3>1, <3>3 DEF End, Kept
    <3>5. j \notin forgotten' \ missed'
      BY <2>1, <3>1, <3>2
    <3> QED
      BY <2>1, <2>3, <3>3, <3>4, <3>5 DEF OnRecord
  <2> QED
    BY <2>2, <2>3
<1>5. CASE Close
  <2> SUFFICES ASSUME NEW i \in Ids
               PROVE  OnRecord(i)'
    BY DEF Recorded
  <2>1. /\ UNCHANGED <<row, stamp, now, missed, forgotten>>
        /\ status'[i] = IF status[i] \in Unfinished THEN "cancelled" ELSE status[i]
        /\ finished'[i] = IF status[i] \in Unfinished THEN now ELSE finished[i]
    BY <1>5 DEF Close, Kept, file, clock
  <2>2. status[i] \in Unfinished => i \in Known /\ stamp[i] = NoTime
    BY DEF Core, RowsCoverMemory, Dated, Terminal, Unfinished, Known
  <2> QED
    BY <2>1, <2>2 DEF Recorded, OnRecord, Known
<1>6. CASE Exit
  <2>1. UNCHANGED <<row, stamp, now, missed, forgotten>> /\ Known' = {}
    BY <1>6 DEF Exit, file, clock, seen, Known
  <2> QED
    BY <2>1 DEF Recorded, OnRecord
<1>7. CASE Open
  <2> SUFFICES ASSUME NEW i \in Ids
               PROVE  OnRecord(i)'
    BY DEF Recorded
  <2>1. /\ UNCHANGED <<now, missed, forgotten>> /\ status' = row'
        /\ row'[i] = IF i \in Old THEN "none" ELSE IF i \in Cut THEN "service_restarted" ELSE row[i]
        /\ stamp'[i] = IF i \in Old THEN NoTime ELSE IF i \in Cut THEN wall ELSE stamp[i]
        /\ Stamped[i] = IF i \in Cut THEN wall ELSE stamp[i]
        /\ finished'[i] = IF row'[i] = "none" THEN NoTime ELSE now - Age(Stamped[i])
    BY <1>7 DEF Open, Kept, Stamped, clock
  <2>2. i \in Cut <=> row[i] = "queued"
    BY DEF Cut, Unfinished, Core, TypeOK, Terminal
  <2>3. i \in Old <=> row[i] # "none" /\ Stamped[i] <= now - Retention
    BY Times DEF Old
  <2>4. /\ now \in Nat /\ Retention \in Nat \ {0} /\ wall = now /\ NoTime \notin Int
        /\ stamp[i] \in Int \cup {NoTime}
    BY Times
  <2>5. stamp[i] = NoTime <=> row[i] \in {"none", "queued"}
    BY DEF Core, Dated, TypeOK, Terminal
  <2>6. OnRecord(i)
    BY DEF Recorded
  <2>7. CASE i \in Old \/ row[i] = "none"
    <3>1. row'[i] = "none" /\ stamp'[i] = NoTime
      BY <2>1, <2>2, <2>3, <2>5, <2>7
    <3> QED
      BY <2>1, <3>1 DEF OnRecord, Known
  <2>8. CASE i \notin Old /\ row[i] # "none"
    <3>1. Stamped[i] \in Int /\ Stamped[i] <= now /\ stamp'[i] = Stamped[i] /\ row'[i] # "none"
      BY <2>1, <2>2, <2>4, <2>5, <2>6, <2>8 DEF OnRecord
    <3>2. finished'[i] = stamp'[i]
      BY <2>1, <2>4, <3>1 DEF Age
    <3>3. i \notin forgotten \ missed
      BY <2>1, <2>2, <2>3, <2>4, <2>5, <2>6, <2>8 DEF OnRecord
    <3> QED
      BY <2>1, <3>1, <3>2, <3>3 DEF OnRecord
  <2> QED
    BY <2>7, <2>8
<1>8. CASE Tick \/ SetClock \/ UNCHANGED vars
  <2>1. /\ UNCHANGED <<status, finished, row, stamp, missed, forgotten>>
        /\ now' = now \/ now' = now + 1
    BY <1>8 DEF Tick, SetClock, vars, memory, file, clock, seen
  <2> QED
    BY <2>1, Times DEF Recorded, OnRecord, Known
<1>9. ASSUME NEW worked \in BOOLEAN, Operations(worked)
      PROVE  Recorded'
  BY <1>1, <1>2, <1>4, <1>9 DEF Operations
<1> QED
  BY <1>3, <1>5, <1>6, <1>7, <1>8, <1>9 DEF Next

-----------------------------------------------------------------------------
LEMMA TableInit ==
  ASSUME Init
  PROVE  TableInv
<1>1. Core
  BY CoreInit
<1>2. RowsTruthful /\ EndsAreKept
  BY DEF Init, RowsTruthful, EndsAreKept, Known, Terminal
<1>3. Fresh = Ids
  BY DEF Init, Fresh
<1>4. Steady
  BY <1>3 DEF Init, Steady, Steadily, Known
<1>5. NoDuplicateWork
  BY <1>3 DEF NoDuplicateWork
<1>6. NotFromTheFuture /\ Recorded
  BY DEF Init, NotFromTheFuture, Recorded, OnRecord, Known
<1> QED
  BY <1>1, <1>2, <1>4, <1>5, <1>6 DEF TableInv

LEMMA TableStep ==
  ASSUME TableInv, [Next]_vars
  PROVE  TableInv'
<1>1. Core'
  BY CoreStep DEF TableInv
<1>2. Truth'
  BY TruthStep DEF TableInv, Truth
<1>3. ASSUME MaxSkew = 0
      PROVE  Steady' /\ NoDuplicateWork' /\ Recorded'
  BY <1>3, SteadyStep, DuplicateStep, RecordedStep DEF TableInv, Truth
<1>4. NotFromTheFuture'
  BY FutureStep DEF TableInv
<1> QED
  BY <1>1, <1>2, <1>3, <1>4 DEF TableInv, Truth

(* However operations, failed writes, crashes, restarts and settings of    *)
(* the wall clock interleave, the table stays consistent.                  *)
THEOREM TableInductive == Spec => []TableInv
BY TableInit, TableStep, PTL DEF Spec

(* A key of _keys names exactly the known job of that owner and key.       *)
THEOREM KeysNameKnownJobs == Spec => []NamesAgree
<1>1. TableInv => NamesAgree
  BY DEF TableInv, Core
<1> QED
  BY <1>1, TableInductive, PTL

(* No insert ever replaces the row of a job the table still knows, and     *)
(* every known job is in the file.                                         *)
THEOREM KnownJobsHaveRows == Spec => []RowsCoverMemory
<1>1. TableInv => RowsCoverMemory
  BY DEF TableInv, Core
<1> QED
  BY <1>1, TableInductive, PTL

(* A job that ended is reported to have ended so, after any restarts, but  *)
(* for ends the file missed.                                               *)
THEOREM EndsSurviveRestarts == Spec => []EndsAreKept
<1>1. TableInv => EndsAreKept
  BY DEF TableInv
<1> QED
  BY <1>1, TableInductive, PTL

(* With a steady wall clock no job is forgotten early, and ages survive    *)
(* restarts.                                                               *)
THEOREM RetentionIsHonoured == MaxSkew = 0 => (Spec => []KeptForRetention)
<1> SUFFICES ASSUME MaxSkew = 0
             PROVE  Spec => []KeptForRetention
  OBVIOUS
<1>1. ASSUME TableInv
      PROVE  KeptForRetention
  <2> SUFFICES ASSUME NEW j \in Ids, phase # "down", ended[j] # NoTime
               PROVE  /\ now - ended[j] < Retention => j \in Known
                      /\ j \in Known /\ status[j] = outcome[j] => finished[j] = ended[j]
    BY DEF KeptForRetention
  <2>1. Core /\ Steadily(j)
    BY <1>1 DEF TableInv, Steady
  <2>2. j \notin Fresh /\ outcome[j] # "none"
    BY <2>1 DEF Core, Unborn, Dated
  <2>3. j \in Known => finished[j] # NoTime
    BY <2>1, <2>2 DEF Core, Dated, TypeOK, Known
  <2>4. j \notin Known => now - ended[j] >= Retention
    BY <2>1, <2>2 DEF Steadily, LongOver
  <2>5. now \in Nat /\ ended[j] \in Nat /\ Retention \in Nat
    BY <2>1, Times
  <2> QED
    BY <2>1, <2>3, <2>4, <2>5 DEF Steadily
<1> QED
  BY <1>1, TableInductive, PTL

(* With a steady wall clock, the same owner and key never start a second   *)
(* job before the first has been over for its retention.                   *)
THEOREM NoKeyRunsTwice == MaxSkew = 0 => (Spec => []NoDuplicateWork)
<1> SUFFICES ASSUME MaxSkew = 0
             PROVE  Spec => []NoDuplicateWork
  OBVIOUS
<1>1. TableInv => NoDuplicateWork
  BY DEF TableInv
<1> QED
  BY <1>1, TableInductive, PTL

(* With a steady wall clock a job that expired comes back at no restart,   *)
(* though its delete failed, unless the file missed its end.               *)
THEOREM ForgottenIsForgotten == MaxSkew = 0 => (Spec => []ForgottenStays)
<1> SUFFICES ASSUME MaxSkew = 0
             PROVE  Spec => []ForgottenStays
  OBVIOUS
<1>1. TableInv => ForgottenStays
  BY DEF TableInv, Recorded, OnRecord, ForgottenStays, Known
<1> QED
  BY <1>1, TableInductive, PTL

(* However the wall clock is set, no job has a finish time ahead of now.   *)
THEOREM AgesAreNatural == Spec => []NotFromTheFuture
<1>1. TableInv => NotFromTheFuture
  BY DEF TableInv
<1> QED
  BY <1>1, TableInductive, PTL

-----------------------------------------------------------------------------
(* What the limits hold of is not only what is known but also what the     *)
(* next open would bring back: the rows that are not old yet.              *)
Dead(j)   == row[j] = "none" \/ (stamp[j] # NoTime /\ now - stamp[j] >= Retention)
Counted   == {j \in Ids \ missed : j \in Known \/ ~Dead(j)}
CountedOf(o) == {j \in Counted : tag[j][1] = o}
Waiting   == {j \in Known : status[j] \in Unfinished}

Limits ==
  /\ phase = "up" => Counted \subseteq Known
  /\ Cardinality(Waiting) <= Capacity
  /\ Cardinality(Counted) < Capacity + ResultCapacity
  /\ \A o \in Owners : Cardinality(CountedOf(o)) <= OwnerCapacity

LEMMA Finite == ASSUME NEW S, S \subseteq Ids PROVE IsFiniteSet(S) /\ Cardinality(S) \in Nat
<1>1. IsFiniteSet(S) BY NameAssumption, FS_Subset
<1> QED BY <1>1, FS_CardinalityType

LEMMA Fewer ==
  ASSUME NEW S, NEW T, T \subseteq S, S \subseteq Ids PROVE Cardinality(T) <= Cardinality(S)
BY Finite, FS_Subset

LEMMA OneMore ==
  ASSUME NEW S, NEW T, NEW j \in Ids, S \subseteq Ids, T \subseteq S \cup {j}
  PROVE  Cardinality(T) <= Cardinality(S) + 1
<1>1. IsFiniteSet(S) /\ Cardinality(S) \in Nat /\ IsFiniteSet(T) /\ Cardinality(T) \in Nat
  <2>1. T \subseteq Ids OBVIOUS
  <2> QED BY <2>1, Finite
<1>2. Cardinality(T) <= Cardinality(S \cup {j})
  <2>1. S \cup {j} \subseteq Ids OBVIOUS
  <2> QED BY <2>1, Fewer
<1>3. Cardinality(S \cup {j}) <= Cardinality(S) + 1 /\ Cardinality(S \cup {j}) \in Nat
  <2>1. Cardinality(S \cup {j}) = IF j \in S THEN Cardinality(S) ELSE Cardinality(S) + 1
    BY <1>1, FS_AddElement
  <2>2. S \cup {j} \subseteq Ids OBVIOUS
  <2>3. Cardinality(S \cup {j}) \in Nat BY <2>2, Finite
  <2> QED BY <1>1, <2>1, <2>3
<1> QED BY <1>1, <1>2, <1>3

LEMMA Sizes == /\ Capacity \in Nat /\ ResultCapacity \in Nat /\ OwnerCapacity \in Nat /\ Retention \in Nat
               /\ Capacity > 0 /\ ResultCapacity > 0 /\ OwnerCapacity > 0
<1>1. \A x \in {Capacity, ResultCapacity, OwnerCapacity, Retention} : x \in Nat \ {0} BY LimitsAssumption
<1> QED BY <1>1

LEMMA LimitsInit == ASSUME Init PROVE Limits
<1>1. Known = {} BY DEF Init, Known
<1>2. Counted = {} /\ Waiting = {} BY <1>1 DEF Init, Counted, Waiting, Dead
<1>3. \A o \in Owners : CountedOf(o) = {} BY <1>2 DEF CountedOf
<1>4. Cardinality({}) = 0 BY FS_EmptySet
<1> QED BY <1>1, <1>2, <1>3, <1>4, Sizes DEF Limits

(* An operation that submits nothing only lets jobs go.                    *)
LEMMA LimitsShrink ==
  ASSUME Limits, Counted' \subseteq Counted, Waiting' \subseteq Waiting, tag' = tag,
         phase' = "up" => Counted' \subseteq Known'
  PROVE  Limits'
<1>1. Counted \subseteq Ids /\ Waiting \subseteq Ids /\ Counted' \subseteq Ids /\ Waiting' \subseteq Ids
  BY DEF Counted, Waiting, Known
<1>2. /\ Cardinality(Counted') <= Cardinality(Counted) /\ Cardinality(Counted) \in Nat /\ Cardinality(Counted') \in Nat
      /\ Cardinality(Waiting') <= Cardinality(Waiting) /\ Cardinality(Waiting) \in Nat /\ Cardinality(Waiting') \in Nat
  BY <1>1, Finite, Fewer
<1>3. ASSUME NEW o \in Owners PROVE Cardinality(CountedOf(o)') <= OwnerCapacity
  <2>1. CountedOf(o)' \subseteq CountedOf(o) /\ CountedOf(o) \subseteq Ids BY <1>1 DEF CountedOf
  <2>2. /\ Cardinality(CountedOf(o)') <= Cardinality(CountedOf(o))
        /\ Cardinality(CountedOf(o)) \in Nat /\ Cardinality(CountedOf(o)') \in Nat
    BY <2>1, Finite, Fewer
  <2>3. Cardinality(CountedOf(o)) <= OwnerCapacity BY DEF Limits
  <2> QED BY <2>2, <2>3, Sizes
<1>4. Cardinality(Waiting') <= Capacity BY <1>2, Sizes DEF Limits
<1>5. Cardinality(Counted') < Capacity + ResultCapacity BY <1>2, Sizes DEF Limits
<1> QED BY <1>3, <1>4, <1>5 DEF Limits

LEMMA StaysCounted ==
  ASSUME Core, NEW i \in Ids, i \in Counted', now' \in {now, now + 1}, missed \subseteq missed',
         status'[i] # "none" => status[i] # "none",
         \/ row'[i] = "none" \/ status[i] # "none"
         \/ row'[i] = row[i] /\ stamp'[i] = stamp[i]
  PROVE  i \in Counted
<1>1. i \notin missed /\ (status'[i] # "none" \/ ~Dead(i)') BY DEF Counted, Known
<1>2. now \in Nat /\ Retention \in Nat /\ stamp[i] \in Int \cup {NoTime} BY Sizes DEF Core, TypeOK
<1>3. CASE status[i] # "none" BY <1>1, <1>3 DEF Counted, Known
<1>4. CASE status[i] = "none"
  <2>1. row'[i] # "none" /\ row'[i] = row[i] /\ stamp'[i] = stamp[i] BY <1>1, <1>4 DEF Dead
  <2>2. stamp[i] # NoTime => ~(now' - stamp[i] >= Retention) BY <1>1, <1>4, <2>1 DEF Dead
  <2>3. ~Dead(i) BY <1>2, <2>1, <2>2 DEF Dead
  <2> QED BY <1>1, <2>3 DEF Counted
<1> QED BY <1>3, <1>4

(* What expires from an open file is either gone from it, or too old to    *)
(* come back.                                                              *)
LEMMA ExpiredIsDead ==
  ASSUME Core, Recorded, phase = "up", NEW i \in Expired, i \notin missed, now' = now,
         row'[i] = "none" \/ (row'[i] = row[i] /\ stamp'[i] = stamp[i])
  PROVE  Dead(i)'
<1>1. i \in Ids BY DEF Expired, Known
<1>2. row[i] # "queued" /\ (stamp[i] # NoTime => now - stamp[i] >= Retention) BY ExpiredOnRecord
<1>3. row[i] \in Terminal \/ row[i] = "none" BY <1>1, <1>2 DEF Core, TypeOK
<1>4. row[i] \in Terminal => stamp[i] # NoTime BY <1>1 DEF Core, Dated
<1> QED BY <1>2, <1>3, <1>4 DEF Dead

(* A job handed over by _expire, and what else ends no count.              *)
LEMMA UpKnown ==
  ASSUME Core, Recorded, Limits, phase = "up", NEW X, X \subseteq Expired, now' = now,
         missed \subseteq missed', NEW i \in Ids, i \in Counted', i \in Counted,
         i \in X \/ (status[i] # "none" => status'[i] # "none"),
         i \in X => row'[i] = "none" \/ (row'[i] = row[i] /\ stamp'[i] = stamp[i]),
         i \in X => status'[i] = "none"
  PROVE  i \in Known'
<1>1. i \in Known /\ status[i] # "none" BY DEF Limits, Known
<1>2. CASE i \in X
  <2>1. i \notin missed BY DEF Counted
  <2>2. Dead(i)' BY <1>2, <2>1, ExpiredIsDead
  <2>3. i \notin Known' BY <1>2 DEF Known
  <2> QED BY <2>2, <2>3 DEF Counted
<1>3. CASE i \notin X BY <1>1, <1>3 DEF Known
<1> QED BY <1>2, <1>3

LEMMA ExpireLimits ==
  ASSUME Core, Recorded, Limits, NEW worked, Expire(worked) PROVE Limits'
<1> DEFINE D == Deleted(Expired, worked)
<1>1. /\ \A i \in Ids : status'[i] = IF i \in Expired THEN "none" ELSE status[i]
      /\ \A i \in Ids : row'[i] = IF i \in D THEN "none" ELSE row[i]
      /\ \A i \in Ids : stamp'[i] = IF i \in D THEN NoTime ELSE stamp[i]
      /\ UNCHANGED <<phase, tag, now, missed>>
  BY DEF Expire, Kept, clock
<1>2. Waiting' \subseteq Waiting BY <1>1 DEF Waiting, Known, Unfinished
<1>3. \A i \in Ids : row'[i] = "none" \/ (row'[i] = row[i] /\ stamp'[i] = stamp[i]) BY <1>1
<1>4. \A i \in Ids : status'[i] # "none" => status[i] # "none" BY <1>1
<1>5. Counted' \subseteq Ids BY DEF Counted
<1> HIDE DEF D
<1>6. \A i \in Counted' : i \in Counted BY <1>1, <1>3, <1>4, <1>5, StaysCounted
<1>7. ASSUME phase' = "up", NEW i \in Counted' PROVE i \in Known'
  <2>1. i \in Ids /\ i \in Counted /\ phase = "up" BY <1>1, <1>5, <1>6, <1>7
  <2>2. /\ i \in Expired \/ (status[i] # "none" => status'[i] # "none")
        /\ i \in Expired => status'[i] = "none"
    BY <1>1, <2>1
  <2> QED BY <1>1, <1>3, <1>7, <2>1, <2>2, UpKnown
<1> QED BY <1>1, <1>2, <1>6, <1>7, LimitsShrink

LEMMA EndLimits ==
  ASSUME Core, Recorded, Limits, NEW j \in Ids, NEW X \in SUBSET Ids, NEW worked, NEW written \in BOOLEAN,
         End(j, X, worked, written)
  PROVE  Limits'
<1> DEFINE D == Deleted(X, worked)
<1>1. /\ phase = "up" /\ X \subseteq Expired /\ status[j] \in Unfinished
      /\ \A i \in Ids : status'[i] = IF i = j THEN "ended" ELSE IF i \in X THEN "none" ELSE status[i]
      /\ \A i \in Ids \ {j} : row'[i] = IF i \in D THEN "none" ELSE row[i]
      /\ \A i \in Ids \ {j} : stamp'[i] = IF i \in D THEN NoTime ELSE stamp[i]
      /\ UNCHANGED <<phase, tag, now>> /\ missed \subseteq missed'
  BY DEF End, Kept, clock, Core, TypeOK
<1>2. status[j] # "none" /\ j \notin X
  <2>1. finished[j] = NoTime BY <1>1 DEF Core, Dated, Terminal, Unfinished
  <2> QED BY <1>1, <2>1 DEF Expired, Unfinished
<1>3. Waiting' \subseteq Waiting BY <1>1 DEF Waiting, Known, Unfinished
<1>4. \A i \in Ids : \/ row'[i] = "none" \/ status[i] # "none"
                     \/ row'[i] = row[i] /\ stamp'[i] = stamp[i]
  BY <1>1, <1>2
<1>5. \A i \in Ids : status'[i] # "none" => status[i] # "none" BY <1>1, <1>2
<1>6. Counted' \subseteq Ids BY DEF Counted
<1>7. \A i \in Ids \ {j} : row'[i] = "none" \/ (row'[i] = row[i] /\ stamp'[i] = stamp[i]) BY <1>1
<1> HIDE DEF D
<1>8. \A i \in Counted' : i \in Counted BY <1>1, <1>4, <1>5, <1>6, StaysCounted
<1>9. ASSUME NEW i \in Counted' PROVE i \in Known'
  <2>1. i \in Ids /\ i \in Counted BY <1>6, <1>8
  <2>2. i \in X => i # j BY <1>2
  <2>3. /\ i \in X \/ (status[i] # "none" => status'[i] # "none")
        /\ i \in X => status'[i] = "none"
        /\ i \in X => row'[i] = "none" \/ (row'[i] = row[i] /\ stamp'[i] = stamp[i])
    BY <1>1, <1>7, <2>1, <2>2
  <2> QED BY <1>1, <2>1, <2>3, UpKnown
<1> QED BY <1>1, <1>3, <1>8, <1>9, LimitsShrink

(* Start, Close, the end of the process and time: nobody is forgotten.     *)
LEMMA StillLimits ==
  ASSUME Core, Limits, (\E j \in Ids : Start(j)) \/ Close \/ Exit \/ Tick \/ SetClock \/ UNCHANGED vars
  PROVE  Limits'
<1>1. /\ UNCHANGED <<tag, row, stamp, missed>> /\ now' \in {now, now + 1}
      /\ \A i \in Ids : status'[i] # "none" => status[i] # "none"
      /\ \A i \in Ids : status'[i] \in Unfinished => status[i] \in Unfinished
      /\ phase' = "up" => phase = "up" /\ \A i \in Ids : status[i] # "none" => status'[i] # "none"
  <2>1. CASE \E j \in Ids : Start(j)
    BY <2>1 DEF Start, file, clock, seen, Core, TypeOK, Unfinished
  <2>2. CASE Close BY <2>2 DEF Close, Kept, file, clock, Unfinished
  <2>3. CASE Exit BY <2>3 DEF Exit, file, clock, seen, Unfinished
  <2>4. CASE Tick \/ SetClock \/ UNCHANGED vars
    BY <2>4 DEF Tick, SetClock, vars, memory, file, clock, seen
  <2> QED BY <2>1, <2>2, <2>3, <2>4
<1>2. Waiting' \subseteq Waiting BY <1>1 DEF Waiting, Known, Unfinished
<1>3. Counted' \subseteq Ids BY DEF Counted
<1>4. \A i \in Counted' : i \in Counted BY <1>1, <1>3, StaysCounted
<1>5. phase' = "up" => Counted' \subseteq Known'
  <2>1. phase' = "up" => Counted \subseteq Known BY <1>1 DEF Limits
  <2> QED BY <1>1, <1>4, <2>1 DEF Known
<1> QED BY <1>1, <1>2, <1>4, <1>5, LimitsShrink

(* An open knows again what was counted, and no more.                      *)
LEMMA OpenLimits ==
  ASSUME MaxSkew = 0, Core, Limits, Open PROVE Limits'
<1>1. /\ status' = row' /\ UNCHANGED <<tag, now, missed>>
      /\ \A i \in Ids : row'[i] = IF i \in Old THEN "none" ELSE IF i \in Cut THEN "service_restarted" ELSE row[i]
      /\ \A i \in Ids : Stamped[i] = IF i \in Cut THEN wall ELSE stamp[i]
  BY DEF Open, Kept, Stamped, clock
<1>2. ASSUME NEW i \in Counted' PROVE i \in Known' /\ i \in Counted
  <2>1. i \in Ids /\ i \notin missed /\ row'[i] # "none" BY <1>1 DEF Counted, Known, Dead
  <2>2. i \in Known' BY <1>1, <2>1 DEF Known
  <2>3. i \notin Old BY <1>1, <2>1
  <2>4. row[i] # "none" BY <1>1, <2>1, <2>3 DEF Cut, Unfinished
  <2>5. ~(Stamped[i] <= now - Retention) BY <2>1, <2>3, <2>4, Times DEF Old
  <2>6. i \in Cut => stamp[i] = NoTime BY <2>1 DEF Cut, Core, Dated, Terminal, Unfinished
  <2>7. stamp[i] # NoTime => ~(now - stamp[i] >= Retention) BY <1>1, <2>1, <2>5, <2>6, Times
  <2>8. ~Dead(i) BY <2>4, <2>7 DEF Dead
  <2> QED BY <2>1, <2>2, <2>8 DEF Counted
<1>3. Waiting' \subseteq Waiting
  <2>1. ASSUME NEW i \in Ids PROVE status'[i] \notin Unfinished
    BY <1>1, <2>1 DEF Cut, Unfinished, Core, TypeOK, Terminal
  <2> QED BY <2>1 DEF Waiting, Known
<1> QED BY <1>1, <1>2, <1>3, LimitsShrink

(* A submission adds one to each count, and _accept has counted before.    *)
LEMMA SubmitLimits ==
  ASSUME Core, Recorded, Limits, NEW j \in Ids, NEW o \in Owners, NEW k \in Keys \cup {NoKey}, NEW worked,
         Submit(j, o, k, worked)
  PROVE  Limits'
<1> DEFINE G == Deleted(Expired, worked) \cup Replaced(o, k)
           K == Known \ Expired
<1>1. /\ phase = "up" /\ j \in Fresh /\ Admits(o)
      /\ \A i \in Ids : status'[i] = IF i = j THEN "queued" ELSE IF i \in Expired THEN "none" ELSE status[i]
      /\ \A i \in Ids \ {j} : row'[i] = IF i \in G THEN "none" ELSE row[i]
      /\ \A i \in Ids \ {j} : stamp'[i] = IF i \in G THEN NoTime ELSE stamp[i]
      /\ \A i \in Ids : tag'[i] = IF i = j THEN <<o, k>> ELSE tag[i]
      /\ UNCHANGED <<phase, now, missed>>
  BY DEF Submit, Kept, clock, Core, TypeOK
<1>2. status[j] = "none" BY <1>1 DEF Core, Unborn
<1>3. \A i \in Ids \ {j} : row'[i] = "none" \/ (row'[i] = row[i] /\ stamp'[i] = stamp[i]) BY <1>1
<1> HIDE DEF G
<1>4. Known' = K \cup {j} BY <1>1 DEF Known
<1>5. ASSUME NEW i \in Counted' PROVE i \in K \cup {j} /\ (i # j => i \in Counted)
  <2>1. i \in Ids BY DEF Counted
  <2>2. CASE i = j BY <2>2
  <2>3. CASE i # j
    <3>1. status'[i] # "none" => status[i] # "none" BY <1>1, <2>1, <2>3
    <3>2. i \in Counted BY <1>1, <1>3, <2>1, <2>3, <3>1, StaysCounted
    <3>3. /\ i \in Expired \/ (status[i] # "none" => status'[i] # "none")
          /\ i \in Expired => status'[i] = "none"
      BY <1>1, <2>1, <2>3
    <3>4. i \in Known' BY <1>1, <1>3, <2>1, <2>3, <3>2, <3>3, UpKnown
    <3> QED BY <1>4, <3>2, <3>4
  <2> QED BY <2>2, <2>3
<1>6. K \subseteq Ids /\ Active \subseteq K /\ Retained = K \ Active /\ Holds(o) \subseteq K
  BY DEF Known, Active, Retained, Holds
<1> HIDE DEF K
<1>7. Cardinality(K) <= Capacity + ResultCapacity - 2
  <2>1. IsFiniteSet(K) /\ Cardinality(K) \in Nat BY <1>6, Finite
  <2>2. K \cap Active = Active BY <1>6
  <2>3. Cardinality(Retained) = Cardinality(K) - Cardinality(Active)
    <3>1. Cardinality(K \ Active) = Cardinality(K) - Cardinality(K \cap Active) BY <2>1, FS_Difference
    <3>2. Retained = K \ Active BY <1>6
    <3> QED BY <2>2, <3>1, <3>2
  <2>4. Active \subseteq Ids /\ Retained \subseteq Ids BY <1>6
  <2>5. Cardinality(Active) \in Nat /\ Cardinality(Retained) \in Nat BY <2>4, Finite
  <2>6. Cardinality(Active) < Capacity /\ Cardinality(Retained) < ResultCapacity BY <1>1 DEF Admits
  <2> QED BY <2>1, <2>3, <2>5, <2>6, Sizes
<1>8. Cardinality(Counted') < Capacity + ResultCapacity
  <2>1. Counted' \subseteq K \cup {j} BY <1>5
  <2>2. Cardinality(Counted') <= Cardinality(K) + 1 BY <1>6, <2>1, OneMore
  <2>3. Counted' \subseteq Ids BY DEF Counted
  <2>4. Cardinality(Counted') \in Nat /\ Cardinality(K) \in Nat BY <1>6, <2>3, Finite
  <2> QED BY <1>7, <2>2, <2>4, Sizes
<1>9. Cardinality(Waiting') <= Capacity
  <2>1. Waiting' \subseteq Active \cup {j}
    BY <1>1, <1>4 DEF Waiting, Active, Unfinished, K, Known
  <2>2. Active \subseteq Ids BY <1>6
  <2>3. Cardinality(Waiting') <= Cardinality(Active) + 1 BY <2>1, <2>2, OneMore
  <2>4. Waiting' \subseteq Ids BY <2>1, <2>2
  <2>5. Cardinality(Waiting') \in Nat /\ Cardinality(Active) \in Nat BY <2>2, <2>4, Finite
  <2>6. Cardinality(Active) < Capacity BY <1>1 DEF Admits
  <2> QED BY <2>3, <2>5, <2>6, Sizes
<1>10. ASSUME NEW p \in Owners PROVE Cardinality(CountedOf(p)') <= OwnerCapacity
  <2>1. CountedOf(p)' \subseteq Ids /\ CountedOf(p) \subseteq Ids BY DEF CountedOf, Counted
  <2>2. Cardinality(CountedOf(p)') \in Nat /\ Cardinality(CountedOf(p)) \in Nat BY <2>1, Finite
  <2>3. CASE p = o
    <3>1. ASSUME NEW i \in CountedOf(p)', i # j PROVE i \in Holds(o)
      <4>1. i \in Counted' /\ tag'[i][1] = o BY <2>3 DEF CountedOf
      <4>2. i \in K /\ i \in Ids BY <1>5, <1>6, <3>1, <4>1
      <4>3. tag[i][1] = o BY <1>1, <3>1, <4>1, <4>2
      <4> QED BY <4>2, <4>3 DEF Holds, K
    <3>2. CountedOf(p)' \subseteq Holds(o) \cup {j} BY <3>1
    <3>3. Holds(o) \subseteq Ids BY <1>6
    <3>4. Cardinality(CountedOf(p)') <= Cardinality(Holds(o)) + 1 BY <3>2, <3>3, OneMore
    <3>5. Cardinality(Holds(o)) \in Nat BY <3>3, Finite
    <3>6. Cardinality(Holds(o)) < OwnerCapacity BY <1>1 DEF Admits
    <3> QED BY <2>2, <3>4, <3>5, <3>6, Sizes
  <2>4. CASE p # o
    <3>1. ASSUME NEW i \in CountedOf(p)' PROVE i \in CountedOf(p)
      <4>1. i \in Counted' /\ tag'[i][1] = p /\ i \in Ids BY DEF CountedOf, Counted
      <4>2. i # j BY <1>1, <2>4, <4>1
      <4>3. i \in Counted /\ tag[i][1] = p BY <1>1, <1>5, <4>1, <4>2
      <4> QED BY <4>3 DEF CountedOf
    <3>2. Cardinality(CountedOf(p)') <= Cardinality(CountedOf(p)) BY <2>1, <3>1, Fewer
    <3>3. Cardinality(CountedOf(p)) <= OwnerCapacity BY DEF Limits
    <3> QED BY <2>2, <3>2, <3>3, Sizes
  <2> QED BY <2>3, <2>4
<1>11. Counted' \subseteq Known' BY <1>4, <1>5
<1> QED BY <1>8, <1>9, <1>10, <1>11 DEF Limits

LEMMA LimitsStep ==
  ASSUME MaxSkew = 0, TableInv, Limits, [Next]_vars PROVE Limits'
<1>1. Core /\ Recorded BY DEF TableInv
<1>2. ASSUME NEW worked \in BOOLEAN, Operations(worked) PROVE Limits'
  BY <1>1, <1>2, ExpireLimits, SubmitLimits, EndLimits DEF Operations
<1>3. CASE (\E j \in Ids : Start(j)) \/ Close \/ Exit \/ Tick \/ SetClock \/ UNCHANGED vars
  BY <1>1, <1>3, StillLimits
<1>4. CASE Open BY <1>1, <1>4, OpenLimits
<1> QED BY <1>2, <1>3, <1>4 DEF Next

(* With a steady wall clock, neither failed deletes nor restarts let the   *)
(* table outgrow its capacities, or an owner its own.                      *)
THEOREM TableIsBounded == MaxSkew = 0 => (Spec => []WithinLimits)
<1> SUFFICES ASSUME MaxSkew = 0
             PROVE  Spec => []WithinLimits
  OBVIOUS
<1>1. Init => TableInv /\ Limits
  BY TableInit, LimitsInit
<1>2. TableInv /\ Limits /\ [Next]_vars => (TableInv /\ Limits)'
  BY TableStep, LimitsStep
<1>3. ASSUME Limits
      PROVE  WithinLimits
  <2>1. Known \ missed \subseteq Counted /\ Counted \subseteq Ids
    BY DEF Counted, Known
  <2>2. Cardinality(Known \ missed) <= Cardinality(Counted)
    BY <2>1, Fewer
  <2>3. Known \ missed \subseteq Ids
    BY DEF Known
  <2>4. Cardinality(Known \ missed) \in Nat /\ Cardinality(Counted) \in Nat
    BY <2>1, <2>3, Finite
  <2>5. Cardinality(Known \ missed) < Capacity + ResultCapacity
    BY <1>3, <2>2, <2>4, Sizes DEF Limits
  <2>6. ASSUME NEW o \in Owners
        PROVE  Cardinality({j \in Known \ missed : tag[j][1] = o}) <= OwnerCapacity
    <3> DEFINE H == {j \in Known \ missed : tag[j][1] = o}
    <3>1. H \subseteq CountedOf(o) /\ CountedOf(o) \subseteq Ids
      BY <2>1 DEF CountedOf
    <3>2. H \subseteq Ids
      BY <3>1
    <3> HIDE DEF H
    <3>3. Cardinality(H) <= Cardinality(CountedOf(o)) /\ Cardinality(H) \in Nat /\ Cardinality(CountedOf(o)) \in Nat
      BY <3>1, <3>2, Fewer, Finite
    <3>4. Cardinality(CountedOf(o)) <= OwnerCapacity
      BY <1>3 DEF Limits
    <3>5. Cardinality(H) <= OwnerCapacity
      BY <3>3, <3>4, Sizes
    <3> QED
      BY <3>5 DEF H
  <2>7. Cardinality({j \in Known : status[j] \in Unfinished}) <= Capacity
    BY <1>3 DEF Limits, Waiting
  <2> QED
    BY <2>5, <2>6, <2>7 DEF WithinLimits
<1> QED
  BY <1>1, <1>2, <1>3, PTL DEF Spec
=============================================================================
