---------------------------- MODULE CompareProofs ----------------------------
(***************************************************************************)
(* Theorems about CompareProgress, for one mode or two, any number of rows  *)
(* and any number of rows of other runs.                                    *)
(***************************************************************************)
EXTENDS CompareProgress, FunctionTheorems, FiniteSetTheorems, SequenceTheorems, TLAPS

\* What the files hold: rows of the mode's own run and of others, in fragments.
Row == [trace : {"own", "other"}, step : Nat]
Fragment == [row : Row, part : {"whole", "start", "rest"}]
Line == Seq(Fragment) \ {<<>>}
Log == [lines : Seq(Line), open : BOOLEAN, todo : Seq(Fragment \cup {Newline})]

-----------------------------------------------------------------------------
(* The rows that are passed on.                                             *)

\* A finite set of places has a last one.
LEMMA LastOfSome ==
    ASSUME NEW L \in Nat, NEW S \in SUBSET (1 .. L), S # {}
    PROVE  \E x \in S : \A y \in S : y <= x
<1> DEFINE T == {L - x : x \in S}
           R == OpToRel(<, Nat)
<1>1. T \subseteq Nat /\ T # {}
  <2>1. \A x \in S : L - x \in Nat
    OBVIOUS
  <2> QED
    BY <2>1
<1>2. PICK t \in T : \A u \in T : <<u, t>> \notin R
  <2> HIDE DEF T, R
  <2>1. IsWellFoundedOn(R, Nat)
    BY NatLessThanWellFounded DEF R
  <2> QED
    BY <1>1, <2>1, WFMin
<1>3. \A u \in T : ~(u < t)
  <2> HIDE DEF T
  <2> QED
    BY <1>1, <1>2 DEF OpToRel
<1>4. PICK x \in S : t = L - x
  OBVIOUS
<1>5. \A y \in S : y <= x
  <2>1. ASSUME NEW y \in S PROVE y <= x
    <3>1. L - y \in T
      OBVIOUS
    <3>2. ~(L - y < t)
      BY <3>1, <1>3
    <3> QED
      BY <3>2, <1>4
  <2> QED
    BY <2>1
<1> QED
  BY <1>5

\* The rows at the places S have the steps from a + 1 to b, each once.
CountOff(S, rows, a, b) ==
    /\ IsFiniteSet(S)
    /\ \A i \in S : rows[i].step \in a + 1 .. b
    /\ \A i, j \in S : rows[i].step = rows[j].step => i = j
    /\ \A s \in a + 1 .. b : \E i \in S : rows[i].step = s

\* Then there are b - a of them.
LEMMA NumberedInTurn ==
    ASSUME NEW S, NEW rows, NEW a \in Nat, NEW b \in Nat, a <= b, CountOff(S, rows, a, b)
    PROVE  Cardinality(S) = b - a
<1> USE DEF CountOff
<1> DEFINE f == [i \in S |-> rows[i].step]
<1>1. f \in Bijection(S, a + 1 .. b)
  <2>1. f \in [S -> a + 1 .. b] /\ \A i \in S : f[i] = rows[i].step
    OBVIOUS
  <2> HIDE DEF f
  <2>2. \A i, j \in S : f[i] = f[j] => i = j
    BY <2>1
  <2>3. \A s \in a + 1 .. b : \E i \in S : f[i] = s
    BY <2>1
  <2> QED
    BY <2>1, <2>2, <2>3, Fun_IsBij
<1>2. ExistsBijection(S, a + 1 .. b)
  BY <1>1 DEF ExistsBijection
<1>3. Cardinality(a + 1 .. b) = Cardinality(S)
  BY <1>2, FS_Bijection
<1>4. a + 1 \in Int /\ b \in Int
  OBVIOUS
<1>5. Cardinality(a + 1 .. b) = IF a + 1 > b THEN 0 ELSE b - (a + 1) + 1
  BY <1>4, FS_Interval
<1> QED
  BY <1>3, <1>5

\* The steps of a run's own rows rise from d + 1 to e without a gap.
Continue(rows, d, e) ==
    LET own == {n \in DOMAIN rows : rows[n].trace = "own"}
    IN  /\ \A i, j \in own : i < j => rows[i].step < rows[j].step
        /\ \A i \in own : rows[i].step \in d + 1 .. e
        /\ \A s \in d + 1 .. e : \E i \in own : rows[i].step = s

\* Then they are what is passed on.
LEMMA RelevantRows ==
    ASSUME NEW rows \in Seq(Row), NEW d \in Nat, NEW e \in Nat, d <= e, Continue(rows, d, e)
    PROVE  /\ DOMAIN Relevant(rows) = 1 .. e - d
           /\ \A k \in 1 .. e - d : Relevant(rows)[k].step = d + k
<1> DEFINE own == {n \in DOMAIN rows : rows[n].trace = "own"}
           place(n) == Cardinality({p \in own : p <= n})
<1>1. IsFiniteSet(own) /\ \A n \in own : n \in Nat
  <2>1. DOMAIN rows = 1 .. Len(rows) /\ Len(rows) \in Nat
    OBVIOUS
  <2>2. IsFiniteSet(1 .. Len(rows))
    BY <2>1, FS_Interval
  <2> QED
    BY <2>1, <2>2, FS_Subset
<1>5. \A i, j \in own : i < j => rows[i].step < rows[j].step
  BY DEF Continue
<1>2. \A n \in own : rows[n].step \in Nat /\ rows[n].step \in d + 1 .. e
  <2>1. \A n \in own : rows[n].step \in d + 1 .. e
    BY DEF Continue
  <2> QED
    BY <2>1
<1>3. \A i, j \in own : rows[i].step = rows[j].step => i = j
  <2> HIDE DEF own
  <2> SUFFICES ASSUME NEW i \in own, NEW j \in own, rows[i].step = rows[j].step PROVE i = j
    OBVIOUS
  <2>1. ~(i < j) /\ ~(j < i)
    BY <1>2, <1>5
  <2> QED
    BY <1>1, <2>1
<1>4. \A s \in d + 1 .. e : \E i \in own : rows[i].step = s
  BY DEF Continue
<1> HIDE DEF own
<1>6. Cardinality(own) = e - d
  <2>1. CountOff(own, rows, d, e)
    BY <1>1, <1>2, <1>3, <1>4 DEF CountOff
  <2> QED
    BY <2>1, NumberedInTurn
<1>7. ASSUME NEW n \in own PROVE place(n) = rows[n].step - d
  <2> DEFINE S == {p \in own : p <= n}
             b == rows[n].step
  <2>1. IsFiniteSet(S)
    BY <1>1, FS_Subset
  <2>2. b \in Nat /\ d <= b /\ b <= e
    BY <1>2
  <2>3. \A p \in S : rows[p].step \in d + 1 .. b
    <3>1. ASSUME NEW p \in S PROVE rows[p].step \in d + 1 .. b
      <4>1. p \in own /\ (p = n \/ p < n)
        BY <1>1
      <4>2. rows[p].step \in Nat /\ rows[p].step \in d + 1 .. e
        BY <1>2, <4>1
      <4>3. p < n => rows[p].step < b
        BY <1>5, <4>1
      <4>4. p = n => rows[p].step = b
        OBVIOUS
      <4> QED
        BY <2>2, <4>1, <4>2, <4>3, <4>4
    <3> QED
      BY <3>1
  <2>4. ASSUME NEW s \in d + 1 .. b PROVE \E p \in S : rows[p].step = s
    <3>1. s \in d + 1 .. e
      BY <2>2
    <3>2. PICK p \in own : rows[p].step = s
      BY <3>1, <1>4
    <3>3. ~(n < p)
      BY <3>2, <1>2, <1>5
    <3> QED
      BY <3>2, <3>3, <1>1
  <2>5. \A p, q \in S : rows[p].step = rows[q].step => p = q
    BY <1>3
  <2> HIDE DEF S, b
  <2>6. Cardinality(S) = b - d
    <3>1. CountOff(S, rows, d, b)
      BY <2>1, <2>3, <2>4, <2>5 DEF CountOff
    <3> QED
      BY <2>2, <3>1, NumberedInTurn
  <2> QED
    BY <2>6 DEF S, b
<1>8. Relevant(rows) = [k \in 1 .. Cardinality(own) |-> rows[CHOOSE n \in own : place(n) = k]]
  BY DEF Relevant, own
<1> HIDE DEF place
<1>9. ASSUME NEW k \in 1 .. e - d PROVE Relevant(rows)[k].step = d + k
  <2>1. d + k \in d + 1 .. e
    OBVIOUS
  <2>2. PICK i \in own : rows[i].step = d + k
    BY <2>1, <1>4
  <2>3. place(i) = k
    BY <2>2, <1>7
  <2> DEFINE n == CHOOSE n \in own : place(n) = k
  <2>4. n \in own /\ place(n) = k
    BY <2>3
  <2> HIDE DEF n
  <2>5. rows[n].step = d + k
    <3>1. rows[n].step \in Nat
      BY <2>4, <1>2
    <3>2. place(n) = rows[n].step - d
      BY <2>4, <1>7
    <3> QED
      BY <2>4, <3>1, <3>2
  <2>6. k \in 1 .. Cardinality(own)
    BY <1>6
  <2>7. Relevant(rows)[k] = rows[n]
    BY <2>6, <1>8 DEF n
  <2> QED
    BY <2>5, <2>7
<1> QED
  BY <1>6, <1>8, <1>9

\* The first fragment of a line, and the lines with which a row of the run's own begins.
First(log, n) == log.lines[n][1]
Begins(log) == {n \in DOMAIN log.lines : First(log, n).row.trace = "own" /\ First(log, n).part # "rest"}
StepAt(log, n) == First(log, n).row.step
HasStep(log, s) == \E n \in Begins(log) : StepAt(log, n) = s

\* The rows of the run's own come in the order of their steps, none is left out
\* before another one, and none is beyond the b-th.
Numbered(log, b) ==
    /\ \A i \in Begins(log) :
          /\ StepAt(log, i) \in 1 .. b
          /\ \A s \in 1 .. StepAt(log, i) : HasStep(log, s)
    /\ \A i, j \in Begins(log) : i < j => StepAt(log, i) < StepAt(log, j)

HasAll(log, b) == \A s \in 1 .. b : HasStep(log, s)

\* What the append of a larger row has still to write.
Pending(b) ==
    {<<>>,
     <<Piece(OwnRow(b), "start"), Piece(OwnRow(b), "rest"), Newline>>,
     <<Piece(OwnRow(b), "rest"), Newline>>,
     <<Newline>>}

\* How many of the b rows a run has asked for it has begun to write.
Written(log, b) == IF Len(log.todo) = 3 THEN b - 1 ELSE b

\* The file of a run that stands at r and has asked for b rows.
FiledAs(r, log, b) ==
    /\ r = "new" => b = 0
    /\ r # "running" => log.todo = <<>>
    /\ log.todo \in Pending(b)
    /\ log.todo # <<>> => b > 0
    /\ r # "failed" /\ Len(log.todo) \in {0, 3} => log.open = FALSE
    /\ log.open = TRUE => log.lines # <<>>
    /\ Numbered(log, Written(log, b))
    /\ r # "failed" => HasAll(log, Written(log, b))

\* A file from one state to the next: no line begins anew, and what a line that is
\* added begins is beyond the w rows there were.
Grows(old, new, w) ==
    /\ Len(old.lines) <= Len(new.lines)
    /\ \A n \in DOMAIN old.lines : First(new, n) = First(old, n)
    /\ \A i \in Begins(new) : i \notin DOMAIN old.lines => StepAt(new, i) > w

\* A fragment is added: to the last line, or as a new one.
Adds(old, new, p) ==
    /\ new \in Log
    /\ \A n \in DOMAIN old.lines : First(new, n) = First(old, n)
    /\ old.open => Len(new.lines) = Len(old.lines)
    /\ ~old.open => /\ Len(new.lines) = Len(old.lines) + 1
                    /\ First(new, Len(old.lines) + 1) = p

-----------------------------------------------------------------------------
(* The files.                                                               *)

\* The lines of a file and their first fragments.
LEMMA LogParts ==
    ASSUME NEW log \in Log
    PROVE  /\ log.lines \in Seq(Line) /\ DOMAIN log.lines = 1 .. Len(log.lines) /\ Len(log.lines) \in Nat
           /\ log.open \in BOOLEAN /\ log.todo \in Seq(Fragment \cup {Newline})
           /\ \A n \in DOMAIN log.lines :
                 /\ log.lines[n] \in Seq(Fragment) /\ Len(log.lines[n]) >= 1
                 /\ First(log, n) \in Fragment
           /\ \A i \in Begins(log) : i \in Nat /\ StepAt(log, i) \in Nat
<1>1. /\ log.lines \in Seq(Line) /\ DOMAIN log.lines = 1 .. Len(log.lines) /\ Len(log.lines) \in Nat
      /\ log.open \in BOOLEAN /\ log.todo \in Seq(Fragment \cup {Newline})
  BY DEF Log
<1>2. ASSUME NEW n \in DOMAIN log.lines
      PROVE  /\ log.lines[n] \in Seq(Fragment) /\ Len(log.lines[n]) >= 1
             /\ First(log, n) \in Fragment
  <2>1. log.lines[n] \in Seq(Fragment) /\ log.lines[n] # <<>>
    BY <1>1 DEF Line
  <2>2. Len(log.lines[n]) >= 1
    BY <2>1
  <2> QED
    BY <2>1, <2>2 DEF First
<1>3. ASSUME NEW i \in Begins(log) PROVE i \in Nat /\ StepAt(log, i) \in Nat
  <2>1. i \in DOMAIN log.lines
    BY DEF Begins
  <2>2. First(log, i) \in Fragment
    BY <2>1, <1>2
  <2> QED
    BY <2>1, <2>2, <1>1 DEF StepAt, Fragment, Row
<1> QED
  BY <1>1, <1>2, <1>3

\* A fragment that is written is added.
LEMMA PutPieceAdds ==
    ASSUME NEW log \in Log, NEW p \in Fragment, log.open => log.lines # <<>>
    PROVE  /\ Adds(log, PutPiece(log, p), p)
           /\ PutPiece(log, p).open = TRUE
           /\ PutPiece(log, p).todo = log.todo
<1>1. p # Newline
  BY DEF Fragment, Newline
<1>2. /\ log.lines \in Seq(Line) /\ DOMAIN log.lines = 1 .. Len(log.lines) /\ Len(log.lines) \in Nat
      /\ log.open \in BOOLEAN /\ log.todo \in Seq(Fragment \cup {Newline})
  BY LogParts
<1>3. CASE log.open
  <2> DEFINE k == Len(log.lines)
             new == [log EXCEPT !.lines[k] = Append(@, p)]
  <2>1. PutPiece(log, p) = new
    BY <1>1, <1>3 DEF PutPiece
  <2>2. k \in DOMAIN log.lines /\ k \in Nat
    BY <1>2, <1>3
  <2>3. log.lines[k] \in Seq(Fragment) /\ Len(log.lines[k]) >= 1
    BY <2>2, LogParts
  <2> DEFINE x == Append(log.lines[k], p)
  <2>4. x \in Seq(Fragment) /\ Len(x) = Len(log.lines[k]) + 1 /\ x[1] = log.lines[k][1]
    BY <2>3
  <2>5. x \in Line
    BY <2>3, <2>4 DEF Line
  <2>6. /\ new.lines = [log.lines EXCEPT ![k] = x]
        /\ new.open = log.open /\ new.todo = log.todo
        /\ new = [log EXCEPT !.lines = new.lines]
    BY DEF Log
  <2> HIDE DEF new, x, k
  <2>7. /\ new.lines \in Seq(Line) /\ Len(new.lines) = Len(log.lines)
        /\ \A n \in DOMAIN log.lines : new.lines[n] = IF n = k THEN x ELSE log.lines[n]
    BY <1>2, <2>2, <2>5, <2>6, ExceptSeq
  <2>8. new \in Log
    BY <2>6, <2>7 DEF Log
  <2>9. \A n \in DOMAIN log.lines : First(new, n) = First(log, n)
    BY <2>4, <2>7 DEF First
  <2> QED
    BY <1>3, <2>1, <2>6, <2>7, <2>8, <2>9 DEF Adds
<1>4. CASE ~log.open
  <2> DEFINE x == <<p>>
             new == [log EXCEPT !.lines = Append(@, x), !.open = TRUE]
  <2>1. PutPiece(log, p) = new
    BY <1>1, <1>4 DEF PutPiece
  <2>2. x \in Seq(Fragment) /\ Len(x) = 1 /\ x[1] = p
    OBVIOUS
  <2>3. x \in Line
    BY <2>2 DEF Line
  <2> HIDE DEF x
  <2>4. /\ new.lines = Append(log.lines, x)
        /\ new.open = TRUE /\ new.todo = log.todo
    BY DEF Log
  <2>9. Append(log.lines, x) \in Seq(Line)
    BY <1>2, <2>3
  <2>6. new \in Log
    BY <2>9 DEF Log
  <2> HIDE DEF new
  <2>5. /\ new.lines \in Seq(Line) /\ Len(new.lines) = Len(log.lines) + 1
        /\ \A n \in DOMAIN log.lines : new.lines[n] = log.lines[n]
        /\ new.lines[Len(log.lines) + 1] = x
    BY <1>2, <2>3, <2>4
  <2>7. \A n \in DOMAIN log.lines : First(new, n) = First(log, n)
    BY <2>5 DEF First
  <2>8. First(new, Len(log.lines) + 1) = p
    BY <2>2, <2>5 DEF First, x
  <2> QED
    BY <1>4, <2>1, <2>4, <2>5, <2>6, <2>7, <2>8 DEF Adds
<1> QED
  BY <1>2, <1>3, <1>4

\* A row that leaves the buffer at once ends its line.
LEMMA PutRowAdds ==
    ASSUME NEW log \in Log, NEW row \in Row, log.open => log.lines # <<>>
    PROVE  /\ Adds(log, PutRow(log, row), Piece(row, "whole"))
           /\ PutRow(log, row).open = FALSE
           /\ PutRow(log, row).todo = log.todo
           /\ Piece(row, "whole").row = row /\ Piece(row, "whole").part = "whole"
<1> DEFINE p == Piece(row, "whole")
           put == PutPiece(log, p)
<1>1. p \in Fragment /\ p.row = row /\ p.part = "whole"
  BY DEF Piece, Fragment
<1>2. Adds(log, put, p) /\ put.todo = log.todo /\ put \in Log
  BY <1>1, PutPieceAdds DEF Adds
<1>3. PutRow(log, row) = [put EXCEPT !.open = FALSE]
  BY DEF PutRow, PutPiece
<1> HIDE DEF put, p
<1> DEFINE new == [put EXCEPT !.open = FALSE]
<1>4. new \in Log /\ new.lines = put.lines /\ new.open = FALSE /\ new.todo = put.todo
  BY <1>2 DEF Log
<1> HIDE DEF new
<1>5. Adds(log, new, p)
  BY <1>2, <1>4 DEF Adds, First
<1> QED
  BY <1>1, <1>2, <1>3, <1>4, <1>5 DEF p, new

-----------------------------------------------------------------------------
(* The numbering of the rows.                                               *)

\* Nothing of the run's own begins: the numbering is as it was.
LEMMA NoneBegins ==
    ASSUME NEW old \in Log, NEW new \in Log, NEW p \in Fragment, Adds(old, new, p),
           old.open \/ p.row.trace # "own" \/ p.part = "rest"
    PROVE  /\ \A b : Numbered(old, b) => Numbered(new, b)
           /\ \A b : HasAll(old, b) => HasAll(new, b)
           /\ \A w : Grows(old, new, w)
<1>1. DOMAIN old.lines = 1 .. Len(old.lines) /\ DOMAIN new.lines = 1 .. Len(new.lines)
      /\ Len(old.lines) \in Nat /\ Len(new.lines) \in Nat /\ old.open \in BOOLEAN
  BY LogParts
<1>2. \A n \in DOMAIN new.lines : n \in DOMAIN old.lines \/ (n = Len(old.lines) + 1 /\ First(new, n) = p /\ ~old.open)
  BY <1>1 DEF Adds
<1>3. \A n \in DOMAIN old.lines : n \in DOMAIN new.lines /\ First(new, n) = First(old, n)
  BY <1>1 DEF Adds
<1>4. Begins(new) = Begins(old)
  BY <1>2, <1>3 DEF Begins
<1>5. \A i \in Begins(old) : StepAt(new, i) = StepAt(old, i) /\ i \in DOMAIN old.lines
  BY <1>3 DEF StepAt, Begins
<1>6. \A s : HasStep(old, s) => HasStep(new, s)
  BY <1>4, <1>5 DEF HasStep
<1>7. \A w : Grows(old, new, w)
  BY <1>1, <1>3, <1>4, <1>5 DEF Grows, Adds
<1>8. \A b : Numbered(old, b) => Numbered(new, b)
  BY <1>4, <1>5, <1>6 DEF Numbered
<1> QED
  BY <1>6, <1>7, <1>8 DEF HasAll

\* The next row begins.
LEMMA NextBegins ==
    ASSUME NEW old \in Log, NEW new \in Log, NEW p \in Fragment, Adds(old, new, p), ~old.open,
           NEW b \in Nat, p.row = OwnRow(b + 1), p.part # "rest", Numbered(old, b), HasAll(old, b)
    PROVE  Numbered(new, b + 1) /\ HasAll(new, b + 1) /\ Grows(old, new, b)
<1>1. DOMAIN old.lines = 1 .. Len(old.lines) /\ DOMAIN new.lines = 1 .. Len(new.lines)
      /\ Len(old.lines) \in Nat /\ Len(new.lines) \in Nat
  BY LogParts
<1> DEFINE last == Len(old.lines) + 1
<1>2. \A n \in DOMAIN new.lines : n \in DOMAIN old.lines \/ n = last
  BY <1>1 DEF Adds
<1>3. \A n \in DOMAIN old.lines : n \in DOMAIN new.lines /\ First(new, n) = First(old, n) /\ n < last
  BY <1>1 DEF Adds
<1>4. last \in DOMAIN new.lines /\ last \notin DOMAIN old.lines /\ First(new, last) = p /\ last \in Nat
  BY <1>1 DEF Adds
<1>5. p.row.trace = "own" /\ p.row.step = b + 1
  BY DEF OwnRow
<1> HIDE DEF last
<1>6. Begins(new) = Begins(old) \cup {last}
  BY <1>2, <1>3, <1>4, <1>5 DEF Begins
<1>7. /\ \A i \in Begins(old) : StepAt(new, i) = StepAt(old, i) /\ i \in DOMAIN old.lines /\ i < last
      /\ StepAt(new, last) = b + 1
  BY <1>3, <1>4, <1>5 DEF StepAt, Begins
<1>8. \A i \in Begins(old) : StepAt(old, i) \in 1 .. b
  BY DEF Numbered
<1>9. \A s : HasStep(old, s) => HasStep(new, s)
  BY <1>6, <1>7 DEF HasStep
<1>10. HasAll(new, b + 1)
  <2>1. ASSUME NEW s \in 1 .. b + 1 PROVE HasStep(new, s)
    <3>1. CASE s \in 1 .. b
      BY <3>1, <1>9 DEF HasAll
    <3>2. CASE s = b + 1
      BY <3>2, <1>6, <1>7 DEF HasStep
    <3> QED
      BY <3>1, <3>2
  <2> QED
    BY <2>1 DEF HasAll
<1>11. \A i \in Begins(new) : StepAt(new, i) \in 1 .. b + 1 /\ \A s \in 1 .. StepAt(new, i) : HasStep(new, s)
  <2>1. \A i \in Begins(new) : StepAt(new, i) \in 1 .. b + 1
    BY <1>6, <1>7, <1>8
  <2>2. ASSUME NEW i \in Begins(new), NEW s \in 1 .. StepAt(new, i) PROVE HasStep(new, s)
    <3>1. s \in 1 .. b + 1
      BY <2>1
    <3> QED
      BY <3>1, <1>10 DEF HasAll
  <2> QED
    BY <2>1, <2>2
<1>12. ASSUME NEW i \in Begins(new), NEW j \in Begins(new), i < j PROVE StepAt(new, i) < StepAt(new, j)
  <2>1. CASE i \in Begins(old) /\ j \in Begins(old)
    BY <2>1, <1>12, <1>7 DEF Numbered
  <2>2. CASE i \in Begins(old) /\ j = last
    BY <2>2, <1>7, <1>8
  <2>3. CASE i = last
    <3>1. j = last \/ j < last
      BY <1>6, <1>7
    <3>2. j \in Nat
      BY LogParts
    <3> QED
      BY <2>3, <3>1, <3>2, <1>12, <1>4
  <2> QED
    BY <2>1, <2>2, <2>3, <1>6
<1>13. Grows(old, new, b)
  BY <1>1, <1>3, <1>6, <1>7 DEF Grows, Adds
<1> QED
  BY <1>10, <1>11, <1>12, <1>13 DEF Numbered

-----------------------------------------------------------------------------
(* What a writer leaves.                                                    *)

Typed ==
    /\ TypeOK
    /\ io \in [Modes -> Log]
    /\ fresh \in [Modes -> Seq(Row)]

\* What there is in a file does not depend on what its writer has still to write.
LEMMA SameLines ==
    ASSUME NEW old \in Log, NEW new \in Log, new.lines = old.lines
    PROVE  /\ \A b : Numbered(old, b) => Numbered(new, b)
           /\ \A b : HasAll(old, b) => HasAll(new, b)
           /\ \A w : Grows(old, new, w)
<1>1. \A n : First(new, n) = First(old, n) /\ StepAt(new, n) = StepAt(old, n)
  BY DEF First, StepAt
<1>2. Begins(new) = Begins(old)
  BY <1>1 DEF Begins
<1>3. \A s : HasStep(new, s) <=> HasStep(old, s)
  BY <1>1, <1>2 DEF HasStep
<1>4. Len(old.lines) <= Len(new.lines) /\ \A i \in Begins(new) : i \in DOMAIN old.lines
  <2>1. Len(old.lines) \in Nat
    BY LogParts
  <2> QED
    BY <2>1 DEF Begins
<1>5. \A b : Numbered(old, b) => Numbered(new, b)
  BY <1>1, <1>2, <1>3 DEF Numbered
<1>6. \A w : Grows(old, new, w)
  BY <1>1, <1>4 DEF Grows
<1> QED
  BY <1>3, <1>5, <1>6 DEF HasAll

\* A bound on the steps may be raised.
LEMMA MoreNumbers ==
    ASSUME NEW log \in Log, NEW a \in Nat, NEW b \in Nat, a <= b, Numbered(log, a)
    PROVE  Numbered(log, b)
<1>1. \A i \in Begins(log) : StepAt(log, i) \in 1 .. b
  BY DEF Numbered
<1> QED
  BY <1>1 DEF Numbered

\* What is still to write, by how many pieces it is.
LEMMA OnePiece ==
    ASSUME NEW x
    PROVE  Len(<<x>>) = 1 /\ Head(<<x>>) = x /\ Tail(<<x>>) = <<>>
<1>1. Len(<<x>>) = 1 /\ Head(<<x>>) = x
  OBVIOUS
<1>2. Tail(<<x>>) = <<>>
  OBVIOUS
<1> QED
  BY <1>1, <1>2

LEMMA PendingParts ==
    ASSUME NEW b \in Nat, NEW rest \in Pending(b)
    PROVE  /\ rest = <<>> \/ Len(rest) \in {1, 2, 3}
           /\ rest = <<>> => Len(rest) = 0
           /\ Len(rest) = 1 => Head(rest) = Newline /\ Tail(rest) = <<>>
           /\ Len(rest) = 2 => Head(rest) = Piece(OwnRow(b), "rest") /\ Tail(rest) = <<Newline>>
           /\ Len(rest) = 3 => Head(rest) = Piece(OwnRow(b), "start")
                               /\ Tail(rest) = <<Piece(OwnRow(b), "rest"), Newline>>
           /\ Len(<<Newline>>) = 1 /\ Len(<<Piece(OwnRow(b), "rest"), Newline>>) = 2
<1>0. /\ Len(<<>>) = 0
      /\ Len(<<Newline>>) = 1 /\ Len(<<Piece(OwnRow(b), "rest"), Newline>>) = 2
  OBVIOUS
<1>1. CASE rest = <<>>
  BY <1>0, <1>1
<1>2. CASE rest = <<Newline>>
  <2>1. Len(rest) = 1 /\ Head(rest) = Newline /\ Tail(rest) = <<>>
    BY <1>2, OnePiece, Zenon
  <2>2. Len(rest) # 0 /\ Len(rest) # 2 /\ Len(rest) # 3
    BY <2>1
  <2> QED
    BY <1>0, <2>1, <2>2, Zenon
<1> DEFINE x == Piece(OwnRow(b), "rest")
           y == Piece(OwnRow(b), "start")
           z == Newline
<1>3. CASE rest = <<x, z>>
  <2> HIDE DEF x, z
  <2>1. Len(rest) = 2 /\ Head(rest) = x /\ Tail(rest) = <<z>>
    BY <1>3
  <2> QED
    BY <2>1 DEF x, z
<1>4. CASE rest = <<y, x, z>>
  <2> HIDE DEF x, y, z
  <2>1. Len(rest) = 3 /\ Head(rest) = y /\ Tail(rest) = <<x, z>>
    BY <1>4
  <2> QED
    BY <2>1 DEF x, y, z
<1> QED
  BY <1>1, <1>2, <1>3, <1>4 DEF Pending

LEMMA OwnPieces ==
    ASSUME NEW b \in Nat
    PROVE  /\ OwnRow(b) \in Row /\ OwnRow(b).trace = "own"
           /\ OtherRow \in Row /\ OtherRow.trace = "other"
           /\ Newline \notin Fragment
           /\ \A part \in {"whole", "start", "rest"} :
                 /\ Piece(OwnRow(b), part) \in Fragment
                 /\ Piece(OwnRow(b), part).row = OwnRow(b)
                 /\ Piece(OwnRow(b), part).part = part
<1>1. OwnRow(b) \in Row /\ OwnRow(b).trace = "own" /\ OtherRow \in Row /\ OtherRow.trace = "other"
  BY DEF OwnRow, OtherRow, Row
<1> QED
  BY <1>1 DEF Piece, Fragment, Newline

LEMMA PendingIsTyped ==
    ASSUME NEW b \in Nat
    PROVE  Pending(b) \subseteq Seq(Fragment \cup {Newline})
<1> DEFINE x == Piece(OwnRow(b), "rest")
           y == Piece(OwnRow(b), "start")
           z == Newline
           F == Fragment \cup {Newline}
<1>1. x \in F /\ y \in F /\ z \in F
  BY OwnPieces
<1> HIDE DEF x, y, z, F
<1>2. <<>> \in Seq(F) /\ <<z>> \in Seq(F) /\ <<x, z>> \in Seq(F) /\ <<y, x, z>> \in Seq(F)
  BY <1>1
<1> QED
  BY <1>2 DEF Pending, x, y, z, F

\* What a writer leaves behind.
WrittenWell(old, b, new, r, c) ==
    /\ new \in Log
    /\ FiledAs(r, new, c)
    /\ Grows(old, new, Written(old, b))

LEMMA RowIsFiled ==
    ASSUME NEW old \in Log, NEW b \in Nat, FiledAs("running", old, b), old.todo = <<>>
    PROVE  WrittenWell(old, b, PutRow(old, OwnRow(b + 1)), "running", b + 1)
<1> DEFINE new == PutRow(old, OwnRow(b + 1))
           p == Piece(OwnRow(b + 1), "whole")
<1>1. Len(old.todo) = 0 /\ b + 1 \in Nat
  OBVIOUS
<1>2. Written(old, b) = b /\ old.open = FALSE
  BY <1>1 DEF FiledAs, Written
<1>3. Numbered(old, b) /\ HasAll(old, b)
  BY <1>2 DEF FiledAs
<1>4. OwnRow(b + 1) \in Row /\ p \in Fragment /\ p.row = OwnRow(b + 1) /\ p.part = "whole"
  BY <1>1, OwnPieces
<1>5. Adds(old, new, p) /\ new.open = FALSE /\ new.todo = <<>> /\ new \in Log
  BY <1>2, <1>4, PutRowAdds DEF Adds
<1> HIDE DEF new, p
<1>6. Numbered(new, b + 1) /\ HasAll(new, b + 1) /\ Grows(old, new, b)
  BY <1>2, <1>3, <1>4, <1>5, NextBegins
<1>7. <<>> \in Pending(b + 1) /\ Len(new.todo) = 0
  BY <1>5 DEF Pending
<1>8. Written(new, b + 1) = b + 1
  BY <1>7 DEF Written
<1>9. FiledAs("running", new, b + 1)
  BY <1>5, <1>6, <1>7, <1>8 DEF FiledAs
<1> QED
  BY <1>2, <1>5, <1>6, <1>9 DEF WrittenWell, new

LEMMA RowIsBegun ==
    ASSUME NEW old \in Log, NEW b \in Nat, FiledAs("running", old, b), old.todo = <<>>
    PROVE  WrittenWell(old, b, BeginRow(old, OwnRow(b + 1)), "running", b + 1)
<1> DEFINE rest == <<Piece(OwnRow(b + 1), "start"), Piece(OwnRow(b + 1), "rest"), Newline>>
           new == [old EXCEPT !.todo = rest]
<1>1. Len(old.todo) = 0 /\ b + 1 \in Nat /\ b + 1 > 0 /\ (b + 1) - 1 = b
  OBVIOUS
<1>2. Written(old, b) = b /\ old.open = FALSE
  BY <1>1 DEF FiledAs, Written
<1>3. Numbered(old, b) /\ HasAll(old, b)
  BY <1>2 DEF FiledAs
<1>4. rest \in Pending(b + 1)
  BY DEF Pending
<1>5. Len(rest) = 3
  OBVIOUS
<1>6. BeginRow(old, OwnRow(b + 1)) = new
  BY DEF BeginRow
<1>7. rest \in Seq(Fragment \cup {Newline})
  BY <1>1, <1>4, PendingIsTyped
<1> HIDE DEF rest
<1>8. new \in Log /\ new.lines = old.lines /\ new.open = FALSE /\ new.todo = rest
  BY <1>2, <1>7 DEF Log
<1> HIDE DEF new
<1>9. Numbered(new, b) /\ HasAll(new, b) /\ Grows(old, new, b)
  BY <1>3, <1>8, SameLines
<1>10. Written(new, b + 1) = b
  BY <1>1, <1>5, <1>8 DEF Written
<1>11. FiledAs("running", new, b + 1)
  BY <1>1, <1>4, <1>8, <1>9, <1>10 DEF FiledAs
<1> QED
  BY <1>2, <1>6, <1>8, <1>9, <1>11 DEF WrittenWell

LEMMA LineIsEnded ==
    ASSUME NEW old \in Log, NEW b \in Nat, FiledAs("running", old, b), Len(old.todo) = 1
    PROVE  WrittenWell(old, b, ContinueRow(old), "running", b)
<1> DEFINE new == ContinueRow(old)
           put == PutPiece(old, Head(old.todo))
<1>1. old.todo \in Pending(b)
  BY DEF FiledAs
<1>2. Head(old.todo) = Newline /\ Tail(old.todo) = <<>>
  BY <1>1, PendingParts
<1>3. put = [old EXCEPT !.open = FALSE]
  BY <1>2 DEF PutPiece
<1>4. put.todo = old.todo
  BY <1>3 DEF Log
<1>5. new = [put EXCEPT !.todo = <<>>]
  BY <1>2, <1>4 DEF ContinueRow
<1>6. new = [old EXCEPT !.open = FALSE, !.todo = <<>>]
  BY <1>3, <1>5 DEF Log
<1> HIDE DEF put, new
<1>7. new \in Log /\ new.lines = old.lines /\ new.open = FALSE /\ new.todo = <<>>
  <2>1. <<>> \in Seq(Fragment \cup {Newline})
    OBVIOUS
  <2> QED
    BY <1>6, <2>1 DEF Log
<1>8. Written(old, b) = b
  BY DEF Written
<1>9. Numbered(old, b) /\ HasAll(old, b)
  BY <1>8 DEF FiledAs
<1>10. Numbered(new, b) /\ HasAll(new, b) /\ Grows(old, new, b)
  BY <1>7, <1>9, SameLines
<1>11. <<>> \in Pending(b) /\ Len(new.todo) = 0
  BY <1>7 DEF Pending
<1>12. Written(new, b) = b
  BY <1>11 DEF Written
<1>13. FiledAs("running", new, b)
  BY <1>7, <1>10, <1>11, <1>12 DEF FiledAs
<1> QED
  BY <1>7, <1>8, <1>10, <1>13 DEF WrittenWell, new

LEMMA RestIsWritten ==
    ASSUME NEW old \in Log, NEW b \in Nat, FiledAs("running", old, b), Len(old.todo) = 2
    PROVE  WrittenWell(old, b, ContinueRow(old), "running", b)
<1> DEFINE new == ContinueRow(old)
           put == PutPiece(old, Head(old.todo))
           p == Piece(OwnRow(b), "rest")
           left == <<Newline>>
<1>1. old.todo \in Pending(b) /\ old.todo # <<>> /\ b > 0
  BY DEF FiledAs
<1>2. Head(old.todo) = p /\ Tail(old.todo) = left /\ p \in Fragment /\ p.part = "rest"
  BY <1>1, PendingParts, OwnPieces
<1>3. left \in Pending(b) /\ Len(left) = 1 /\ left \in Seq(Fragment \cup {Newline})
  BY PendingParts DEF Pending
<1>4. old.open => old.lines # <<>>
  BY LogParts DEF FiledAs
<1> HIDE DEF p, left
<1>5. Adds(old, put, p) /\ put.open = TRUE /\ put.todo = old.todo /\ put \in Log
  BY <1>2, <1>4, PutPieceAdds DEF Adds
<1>6. new = [put EXCEPT !.todo = left]
  BY <1>2, <1>5 DEF ContinueRow
<1> HIDE DEF put, new
<1>7. new \in Log /\ new.lines = put.lines /\ new.open = TRUE /\ new.todo = left
  BY <1>3, <1>5, <1>6 DEF Log
<1>8. Adds(old, new, p)
  BY <1>5, <1>7 DEF Adds, First
<1>9. Written(old, b) = b /\ Written(new, b) = b /\ Len(new.todo) = 1 /\ new.todo \in Pending(b)
  <2>1. Len(new.todo) = 1 /\ new.todo \in Pending(b)
    BY <1>3, <1>7
  <2>2. Written(old, b) = b
    BY DEF Written
  <2> QED
    BY <2>1, <2>2 DEF Written
<1>10. Numbered(old, b) /\ HasAll(old, b)
  BY <1>9 DEF FiledAs
<1>11. Numbered(new, b) /\ HasAll(new, b) /\ Grows(old, new, b)
  BY <1>2, <1>7, <1>8, <1>10, NoneBegins
<1>12. new.lines # <<>>
  <2>1. Len(new.lines) >= 1
    BY <1>4, <1>8, LogParts DEF Adds
  <2> QED
    BY <2>1
<1>13. Len(new.todo) \notin {0, 3}
  BY <1>9
<1>14. FiledAs("running", new, b)
  BY <1>1, <1>7, <1>9, <1>11, <1>12, <1>13 DEF FiledAs
<1> QED
  BY <1>7, <1>9, <1>11, <1>14 DEF WrittenWell, new

LEMMA StartIsWritten ==
    ASSUME NEW old \in Log, NEW b \in Nat, FiledAs("running", old, b), Len(old.todo) = 3
    PROVE  WrittenWell(old, b, ContinueRow(old), "running", b)
<1> DEFINE new == ContinueRow(old)
           put == PutPiece(old, Head(old.todo))
           p == Piece(OwnRow(b), "start")
           left == <<Piece(OwnRow(b), "rest"), Newline>>
           c == b - 1
<1>1. old.todo \in Pending(b) /\ old.todo # <<>> /\ b > 0 /\ old.open = FALSE
  BY DEF FiledAs
<1>2. /\ Head(old.todo) = p /\ Tail(old.todo) = left /\ p \in Fragment
      /\ p.part = "start" /\ p.row = OwnRow(b)
  BY <1>1, PendingParts, OwnPieces
<1>3. left \in Pending(b) /\ Len(left) = 2
  BY PendingParts DEF Pending
<1>4. left \in Seq(Fragment \cup {Newline})
  BY <1>3, PendingIsTyped
<1>5. c \in Nat /\ c + 1 = b /\ Written(old, b) = c
  BY <1>1 DEF Written
<1> HIDE DEF p, left, c
<1>6. Adds(old, put, p) /\ put.open = TRUE /\ put.todo = old.todo /\ put \in Log
  BY <1>1, <1>2, PutPieceAdds DEF Adds
<1>7. new = [put EXCEPT !.todo = left]
  BY <1>2, <1>6 DEF ContinueRow
<1> HIDE DEF put, new
<1>8. new \in Log /\ new.lines = put.lines /\ new.open = TRUE /\ new.todo = left
  BY <1>4, <1>6, <1>7 DEF Log
<1>9. Adds(old, new, p)
  BY <1>6, <1>8 DEF Adds, First
<1>10. Written(new, b) = b /\ Len(new.todo) = 2 /\ new.todo \in Pending(b)
  BY <1>3, <1>8 DEF Written
<1>11. Numbered(old, c) /\ HasAll(old, c)
  BY <1>5 DEF FiledAs
<1>12. p.row = OwnRow(c + 1) /\ p.part # "rest" /\ ~old.open
  BY <1>1, <1>2, <1>5
<1>13. Numbered(new, c + 1) /\ HasAll(new, c + 1) /\ Grows(old, new, c)
  BY <1>2, <1>5, <1>8, <1>9, <1>11, <1>12, NextBegins
<1>14. Numbered(new, b) /\ HasAll(new, b)
  BY <1>5, <1>13
<1>15. new.lines # <<>>
  <2>1. Len(new.lines) >= 1
    BY <1>9, <1>12, LogParts DEF Adds
  <2> QED
    BY <2>1
<1>16. Len(new.todo) \notin {0, 3}
  BY <1>10
<1>17. FiledAs("running", new, b)
  BY <1>1, <1>8, <1>10, <1>14, <1>15, <1>16 DEF FiledAs
<1> QED
  BY <1>5, <1>8, <1>13, <1>17 DEF WrittenWell, new

\* A run that ends leaves what it has still to write.
LEMMA RunIsEnded ==
    ASSUME NEW old \in Log, NEW b \in Nat, FiledAs("running", old, b), NEW r \in {"done", "failed"},
           r = "done" => old.todo = <<>>
    PROVE  WrittenWell(old, b, [old EXCEPT !.todo = <<>>], r, b)
<1> DEFINE new == [old EXCEPT !.todo = <<>>]
<1>1. new \in Log /\ new.lines = old.lines /\ new.open = old.open /\ new.todo = <<>>
  <2>1. <<>> \in Seq(Fragment \cup {Newline})
    OBVIOUS
  <2> QED
    BY <2>1 DEF Log
<1> HIDE DEF new
<1>2. <<>> \in Pending(b) /\ Len(new.todo) = 0
  BY <1>1 DEF Pending
<1>3. Written(new, b) = b
  BY <1>2 DEF Written
<1>4. Written(old, b) \in Nat /\ Written(old, b) <= b
  <2>1. Len(old.todo) = 3 => b > 0
    <3>1. old.todo = <<>> => Len(old.todo) = 0
      OBVIOUS
    <3> QED
      BY <3>1 DEF FiledAs
  <2> QED
    BY <2>1 DEF Written
<1>5. Grows(old, new, Written(old, b)) /\ Numbered(new, Written(old, b))
  BY <1>1, SameLines DEF FiledAs
<1>6. Numbered(new, b)
  BY <1>1, <1>4, <1>5, MoreNumbers
<1>7. r # "failed" => HasAll(new, b) /\ new.open = FALSE
  <2>1. ASSUME r # "failed" PROVE HasAll(new, b) /\ new.open = FALSE
    <3>1. Len(old.todo) = 0
      BY <2>1
    <3>2. Written(old, b) = b
      BY <3>1 DEF Written
    <3>3. HasAll(old, b) /\ old.open = FALSE
      BY <3>1, <3>2 DEF FiledAs
    <3> QED
      BY <1>1, <3>3, SameLines
  <2> QED
    BY <2>1
<1>8. FiledAs(r, new, b)
  BY <1>1, <1>2, <1>3, <1>6, <1>7 DEF FiledAs
<1> QED
  BY <1>1, <1>5, <1>8 DEF WrittenWell, new

LEMMA OtherIsFiled ==
    ASSUME NEW old \in Log, NEW b \in Nat, NEW r, FiledAs(r, old, b)
    PROVE  WrittenWell(old, b, PutRow(old, OtherRow), r, b)
<1> DEFINE new == PutRow(old, OtherRow)
           p == Piece(OtherRow, "whole")
<1>1. OtherRow \in Row /\ OtherRow.trace = "other" /\ p \in Fragment
  BY OwnPieces DEF Piece, Fragment
<1>2. old.open => old.lines # <<>>
  BY LogParts DEF FiledAs
<1>3. Adds(old, new, p) /\ new.open = FALSE /\ new.todo = old.todo /\ new \in Log /\ p.row = OtherRow
  BY <1>1, <1>2, PutRowAdds DEF Adds
<1> HIDE DEF new, p
<1>4. Written(new, b) = Written(old, b)
  BY <1>3 DEF Written
<1>5. Grows(old, new, Written(old, b)) /\ Numbered(new, Written(old, b))
  BY <1>1, <1>3, NoneBegins DEF FiledAs
<1>6. r # "failed" => HasAll(new, Written(old, b))
  BY <1>1, <1>3, NoneBegins DEF FiledAs
<1>7. FiledAs(r, new, b)
  BY <1>3, <1>4, <1>5, <1>6 DEF FiledAs
<1> QED
  BY <1>3, <1>5, <1>7 DEF WrittenWell, new

-----------------------------------------------------------------------------
(* What the caller has seen.                                                *)

\* What the caller has dealt with: the rows before off; those it has read are the
\* next ones, and each is a whole row; the steps that were shown are those of the
\* run's own rows before off.
FromOne(sh) == sh = [n \in 1 .. Len(sh) |-> n]

SeenAs(log, off, rows, sh) ==
    /\ off + Len(rows) <= Len(log.lines)
    /\ \A k \in DOMAIN rows :
          /\ First(log, off + k).part # "rest"
          /\ rows[k] = First(log, off + k).row
    /\ FromOne(sh)
    /\ \A i \in Begins(log) : i <= off <=> StepAt(log, i) <= Len(sh)
    /\ \A s \in 1 .. Len(sh) : HasStep(log, s)

\* No more steps are there than were begun.
LEMMA ShownAreThere ==
    ASSUME NEW log \in Log, NEW w \in Nat, Numbered(log, w), NEW d \in Nat,
           \A s \in 1 .. d : HasStep(log, s)
    PROVE  d <= w
<1>1. CASE d = 0
  BY <1>1
<1>2. CASE d > 0
  <2>1. HasStep(log, d)
    BY <1>2
  <2>2. PICK i \in Begins(log) : StepAt(log, i) = d
    BY <2>1 DEF HasStep
  <2>3. d \in 1 .. w
    BY <2>2 DEF Numbered
  <2> QED
    BY <2>3
<1> QED
  BY <1>1, <1>2

\* A file that grows keeps what the caller has seen of it.
LEMMA SeenKept ==
    ASSUME NEW old \in Log, NEW new \in Log, NEW w \in Nat, Numbered(old, w), Grows(old, new, w),
           NEW off \in Nat, NEW rows \in Seq(Row), NEW sh \in Seq(Nat), SeenAs(old, off, rows, sh)
    PROVE  SeenAs(new, off, rows, sh)
<1>1. /\ DOMAIN old.lines = 1 .. Len(old.lines) /\ DOMAIN new.lines = 1 .. Len(new.lines)
      /\ Len(old.lines) \in Nat /\ Len(new.lines) \in Nat /\ Len(rows) \in Nat /\ Len(sh) \in Nat
      /\ DOMAIN rows = 1 .. Len(rows)
  BY LogParts
<1>2. Len(sh) <= w
  BY <1>1, ShownAreThere DEF SeenAs
<1>3. /\ Len(old.lines) <= Len(new.lines)
      /\ \A n \in DOMAIN old.lines : First(new, n) = First(old, n)
      /\ \A i \in Begins(new) : i \notin DOMAIN old.lines => StepAt(new, i) > w
  BY DEF Grows
<1>4. \A i \in DOMAIN old.lines :
          (i \in Begins(new) <=> i \in Begins(old)) /\ StepAt(new, i) = StepAt(old, i)
  BY <1>1, <1>3 DEF Begins, StepAt
<1>5. \A s : HasStep(old, s) => HasStep(new, s)
  BY <1>4 DEF HasStep, Begins
<1>6. off + Len(rows) <= Len(new.lines)
  BY <1>1, <1>3 DEF SeenAs
<1>7. \A k \in DOMAIN rows : First(new, off + k).part # "rest" /\ rows[k] = First(new, off + k).row
  <2>1. ASSUME NEW k \in DOMAIN rows
        PROVE  First(new, off + k).part # "rest" /\ rows[k] = First(new, off + k).row
    <3>1. off + k \in DOMAIN old.lines
      BY <1>1 DEF SeenAs
    <3> QED
      BY <3>1, <1>3 DEF SeenAs
  <2> QED
    BY <2>1
<1>8. ASSUME NEW i \in Begins(new) PROVE i <= off <=> StepAt(new, i) <= Len(sh)
  <2>1. CASE i \in DOMAIN old.lines
    BY <2>1, <1>4 DEF SeenAs
  <2>2. CASE i \notin DOMAIN old.lines
    <3>1. i \in Nat /\ i >= 1 /\ StepAt(new, i) \in Nat
      <4>1. i \in DOMAIN new.lines
        BY DEF Begins
      <4>2. StepAt(new, i) \in Nat
        BY LogParts
      <4> QED
        BY <4>1, <4>2, <1>1
    <3>2. i > Len(old.lines)
      BY <2>2, <3>1, <1>1
    <3>3. off <= Len(old.lines)
      BY <1>1 DEF SeenAs
    <3>4. StepAt(new, i) > w
      BY <2>2, <1>3
    <3> QED
      BY <3>1, <3>2, <3>3, <3>4, <1>1, <1>2
  <2> QED
    BY <2>1, <2>2
<1> QED
  BY <1>5, <1>6, <1>7, <1>8 DEF SeenAs

\* Whatever a line of a file that can be read begins is a row.
LEMMA ReadIsSeen ==
    ASSUME NEW log \in Log, Readable(log),
           NEW off \in Nat, NEW rows \in Seq(Row), NEW sh \in Seq(Nat), SeenAs(log, off, rows, sh)
    PROVE  LET read == SubSeq(RowsOf(log), off + 1, Len(RowsOf(log)))
           IN  /\ read \in Seq(Row) /\ off + Len(read) = Len(log.lines)
               /\ SeenAs(log, off, read, sh)
               /\ Len(RowsOf(log)) = Len(log.lines)
<1> DEFINE all == RowsOf(log)
           read == SubSeq(all, off + 1, Len(all))
<1>1. /\ log.lines \in Seq(Line) /\ DOMAIN log.lines = 1 .. Len(log.lines) /\ Len(log.lines) \in Nat
      /\ \A n \in DOMAIN log.lines : First(log, n) \in Fragment
  BY LogParts
<1>2. /\ all \in Seq(Row) /\ Len(all) = Len(log.lines)
      /\ \A n \in DOMAIN log.lines : all[n] = First(log, n).row
  <2>1. all = [n \in 1 .. Len(log.lines) |-> First(log, n).row]
    BY <1>1 DEF RowsOf, First
  <2>2. \A n \in 1 .. Len(log.lines) : First(log, n).row \in Row
    BY <1>1 DEF Fragment
  <2> HIDE DEF all
  <2> QED
    BY <2>1, <2>2, <1>1
<1>3. \A n \in DOMAIN log.lines : First(log, n).part # "rest"
  <2>1. ASSUME NEW n \in DOMAIN log.lines PROVE First(log, n).part # "rest"
    <3> DEFINE line == log.lines[n]
    <3>1. IsRow(line)
      BY DEF Readable
    <3> HIDE DEF line
    <3>2. line[1].part = "whole" \/ line[1].part = "start"
      <4>1. CASE Len(line) = 1 /\ line[1].part = "whole"
        BY <4>1
      <4>2. CASE line = <<Piece(line[1].row, "start"), Piece(line[1].row, "rest")>>
        <5>1. line[1] = Piece(line[1].row, "start")
          BY <4>2
        <5> QED
          BY <5>1 DEF Piece
      <4> QED
        BY <3>1, <4>1, <4>2 DEF IsRow
    <3> QED
      BY <3>2 DEF First, line
  <2> QED
    BY <2>1
<1> HIDE DEF all
<1>4. off <= Len(all)
  <2>1. off + Len(rows) <= Len(log.lines) /\ Len(rows) \in Nat
    BY DEF SeenAs
  <2> QED
    BY <2>1, <1>1, <1>2
<1>5. /\ read \in Seq(Row)
      /\ Len(read) = Len(all) - off
      /\ \A k \in 1 .. Len(read) : read[k] = all[off + k]
  <2>1. off + 1 \in 1 .. Len(all) + 1 /\ Len(all) \in Nat
    BY <1>2, <1>4
  <2>2. \A i \in (off + 1) .. Len(all) : all[i] \in Row
    BY <1>2
  <2> QED
    BY <2>1, <2>2, <1>2, <1>4, SubSeqProperties
<1> HIDE DEF read
<1>6. off + Len(read) = Len(log.lines) /\ DOMAIN read = 1 .. Len(read)
  BY <1>1, <1>2, <1>5
<1>7. \A k \in DOMAIN read : First(log, off + k).part # "rest" /\ read[k] = First(log, off + k).row
  <2>1. \A k \in DOMAIN read : off + k \in DOMAIN log.lines
    BY <1>1, <1>6
  <2> QED
    BY <2>1, <1>2, <1>3, <1>5, <1>6
<1>8. SeenAs(log, off, read, sh)
  <2>1. off + Len(read) <= Len(log.lines)
    BY <1>1, <1>6
  <2> QED
    BY <2>1, <1>7 DEF SeenAs
<1> QED
  BY <1>2, <1>5, <1>6, <1>8 DEF all, read

\* The sequence of the n numbers after d.
LEMMA NextOfThem ==
    ASSUME NEW n \in Nat, NEW d \in Nat
    PROVE  LET up == [k \in 1 .. n |-> d + k]
           IN  up \in Seq(Nat) /\ Len(up) = n /\ \A k \in 1 .. n : up[k] = d + k
<1>1. \A k \in 1 .. n : d + k \in Nat
  OBVIOUS
<1> QED
  BY <1>1

\* The steps of what is passed on follow those that were.
LEMMA ShownGrows ==
    ASSUME NEW sh \in Seq(Nat), FromOne(sh), NEW d \in Nat, d = Len(sh), NEW e \in Nat, d <= e,
           NEW more \in Seq(Nat), Len(more) = e - d, \A k \in 1 .. e - d : more[k] = d + k
    PROVE  sh \o more \in Seq(Nat) /\ Len(sh \o more) = e /\ FromOne(sh \o more)
<1>1. e - d \in Nat
  OBVIOUS
<1>4. sh \o more \in Seq(Nat) /\ Len(sh \o more) = e
  BY <1>1
<1>5. ASSUME NEW n \in 1 .. e PROVE (sh \o more)[n] = n
  <2>1. CASE n <= d
    <3>1. (sh \o more)[n] = sh[n] /\ n \in 1 .. Len(sh)
      BY <2>1, <1>1
    <3> QED
      BY <3>1 DEF FromOne
  <2>2. CASE n > d
    <3>1. n - d \in 1 .. e - d
      BY <2>2, <1>1
    <3>2. (sh \o more)[n] = more[n - d]
      BY <2>2, <3>1, <1>1
    <3> QED
      BY <3>1, <3>2, <1>1
  <2> QED
    BY <2>1, <2>2, <1>1
<1>6. sh \o more = [n \in 1 .. e |-> n]
  <2> DEFINE up == [n \in 1 .. e |-> n]
  <2>1. up \in Seq(Nat) /\ Len(up) = e /\ \A n \in 1 .. e : up[n] = n
    OBVIOUS
  <2> HIDE DEF up
  <2> QED
    BY <2>1, <1>4, <1>5, SeqEqual DEF up
<1> QED
  BY <1>4, <1>6 DEF FromOne

\* An emission: what was read is dealt with, and the outputs in it are shown.
LEMMA PassedOn ==
    ASSUME NEW log \in Log, NEW w \in Nat, Numbered(log, w),
           NEW off \in Nat, NEW rows \in Seq(Row), NEW sh \in Seq(Nat), SeenAs(log, off, rows, sh)
    PROVE  LET rel == Relevant(rows)
               told == sh \o [n \in DOMAIN rel |-> rel[n].step]
           IN  /\ told \in Seq(Nat) /\ Len(sh) <= Len(told)
               /\ SeenAs(log, off + Len(rows), <<>>, told)
<1> DEFINE d == Len(sh)
           S == {k \in DOMAIN rows : rows[k].trace = "own"}
<1>1. /\ DOMAIN log.lines = 1 .. Len(log.lines) /\ Len(log.lines) \in Nat
      /\ DOMAIN rows = 1 .. Len(rows) /\ Len(rows) \in Nat /\ d \in Nat
      /\ off + Len(rows) <= Len(log.lines)
      /\ \A i \in Begins(log) : i \in Nat /\ StepAt(log, i) \in Nat
  BY LogParts DEF SeenAs
<1>2. \A k \in DOMAIN rows :
          /\ off + k \in DOMAIN log.lines
          /\ k \in S <=> off + k \in Begins(log)
          /\ rows[k].step = StepAt(log, off + k)
  <2>1. ASSUME NEW k \in DOMAIN rows
        PROVE  /\ off + k \in DOMAIN log.lines
               /\ k \in S <=> off + k \in Begins(log)
               /\ rows[k].step = StepAt(log, off + k)
    <3>1. off + k \in DOMAIN log.lines
      BY <1>1
    <3>2. First(log, off + k).part # "rest" /\ rows[k] = First(log, off + k).row
      BY DEF SeenAs
    <3> QED
      BY <3>1, <3>2 DEF Begins, StepAt
  <2> QED
    BY <2>1
<1>3. \A i \in Begins(log) : i <= off <=> StepAt(log, i) <= d
  BY DEF SeenAs
<1>4. \A i, j \in Begins(log) : i < j => StepAt(log, i) < StepAt(log, j)
  BY DEF Numbered
<1>5. \A i \in Begins(log) : \A s \in 1 .. StepAt(log, i) : HasStep(log, s)
  BY DEF Numbered
<1> HIDE DEF S, d
<1>6. S \subseteq 1 .. Len(rows)
  BY <1>1 DEF S
<1>7. PICK e \in Nat :
          /\ d <= e
          /\ \A i \in Begins(log) : i <= off + Len(rows) <=> StepAt(log, i) <= e
          /\ \A s \in 1 .. e : HasStep(log, s)
  <2>1. CASE S = {}
    <3>1. ASSUME NEW i \in Begins(log) PROVE i <= off + Len(rows) <=> i <= off
      <4>1. CASE i <= off
        BY <4>1, <1>1
      <4>2. CASE i > off
        <5>1. i <= off + Len(rows) => i - off \in DOMAIN rows
          BY <4>2, <1>1
        <5>2. i - off \in DOMAIN rows => i - off \in S
          <6>1. off + (i - off) = i
            BY <1>1
          <6> QED
            BY <6>1, <1>2
        <5> QED
          BY <5>1, <5>2, <2>1, <4>2, <1>1
      <4> QED
        BY <4>1, <4>2, <1>1
    <3>2. \A s \in 1 .. d : HasStep(log, s)
      BY DEF SeenAs, d
    <3>3. \A i \in Begins(log) : i <= off + Len(rows) <=> StepAt(log, i) <= d
      BY <3>1, <1>3
    <3>4. d \in Nat /\ d <= d
      BY <1>1
    <3> QED
      BY <3>2, <3>3, <3>4, Zenon
  <2>2. CASE S # {}
    <3>0. Len(rows) \in Nat /\ S \in SUBSET (1 .. Len(rows)) /\ S # {}
      BY <2>2, <1>1, <1>6
    <3>1. PICK x \in S : \A y \in S : y <= x
      BY <3>0, LastOfSome
    <3>2. x \in Nat /\ x \in DOMAIN rows /\ off + x \in Begins(log) /\ x >= 1
      <4>1. x \in 1 .. Len(rows)
        BY <1>6
      <4>2. x \in DOMAIN rows
        BY <4>1, <1>1
      <4>3. off + x \in Begins(log)
        BY <4>2, <1>2
      <4> QED
        BY <4>1, <4>2, <4>3
    <3> DEFINE e == StepAt(log, off + x)
    <3>3. e \in Nat
      BY <3>2, <1>1
    <3>4. d <= e
      BY <3>2, <3>3, <1>1, <1>3
    <3>5. \A s \in 1 .. e : HasStep(log, s)
      BY <3>2, <1>5
    <3>6. ASSUME NEW i \in Begins(log) PROVE i <= off + Len(rows) <=> StepAt(log, i) <= e
      <4>1. CASE i <= off + x
        <5>1. StepAt(log, i) <= e
          <6>1. i = off + x \/ i < off + x
            BY <4>1, <3>2, <1>1
          <6> QED
            BY <6>1, <3>2, <3>3, <1>1, <1>4
        <5>2. off + x <= off + Len(rows)
          BY <3>2, <1>1
        <5> QED
          BY <4>1, <5>1, <5>2, <3>2, <1>1
      <4>2. CASE i > off + x
        <5>1. StepAt(log, i) > e
          BY <4>2, <3>2, <3>3, <1>1, <1>4
        <5>2. ~(i <= off + Len(rows))
          <6>1. SUFFICES ASSUME i <= off + Len(rows) PROVE FALSE
            OBVIOUS
          <6>2. i - off \in DOMAIN rows /\ i - off > x /\ off + (i - off) = i
            <7>1. i \in Nat /\ x \in Nat /\ Len(rows) \in Nat /\ DOMAIN rows = 1 .. Len(rows)
              BY <3>2, <1>1
            <7> QED
              BY <6>1, <7>1, <4>2
          <6>3. i - off \in S
            BY <6>2, <1>2
          <6> QED
            BY <6>2, <6>3, <3>1, <3>2, <1>1
        <5> QED
          BY <5>1, <5>2, <3>3, <1>1
      <4> QED
        BY <4>1, <4>2, <3>2, <1>1
    <3> HIDE DEF e
    <3> QED
      BY <3>3, <3>4, <3>5, <3>6
  <2> QED
    BY <2>1, <2>2
<1>8. /\ DOMAIN Relevant(rows) = 1 .. e - d
      /\ \A k \in 1 .. e - d : Relevant(rows)[k].step = d + k
  <2>1. \A i, j \in S : i < j => rows[i].step < rows[j].step
    <3>1. ASSUME NEW i \in S, NEW j \in S, i < j PROVE rows[i].step < rows[j].step
      <4>0. i \in 1 .. Len(rows) /\ j \in 1 .. Len(rows) /\ DOMAIN rows = 1 .. Len(rows)
        BY <1>1, <1>6
      <4>1. off + i \in Begins(log) /\ off + j \in Begins(log) /\ off + i < off + j
        BY <3>1, <4>0, <1>2
      <4> QED
        BY <4>1, <3>1, <1>1, <1>2, <1>4, <1>6
    <3> QED
      BY <3>1
  <2>2. \A i \in S : rows[i].step \in d + 1 .. e
    <3>1. ASSUME NEW i \in S PROVE rows[i].step \in d + 1 .. e
      <4>0. i \in 1 .. Len(rows) /\ i \in DOMAIN rows
        BY <1>1, <1>6
      <4>1. /\ off + i \in Begins(log) /\ ~(off + i <= off) /\ off + i <= off + Len(rows)
            /\ rows[i].step = StepAt(log, off + i) /\ StepAt(log, off + i) \in Nat
        <5>1. off + i \in Begins(log) /\ rows[i].step = StepAt(log, off + i)
          BY <4>0, <1>2
        <5>2. ~(off + i <= off) /\ off + i <= off + Len(rows)
          BY <4>0, <1>1
        <5> QED
          BY <5>1, <5>2, <1>1
      <4>2. ~(StepAt(log, off + i) <= d) /\ StepAt(log, off + i) <= e
        BY <4>1, <1>3, <1>7
      <4> QED
        BY <4>1, <4>2, <1>1
    <3> QED
      BY <3>1
  <2>3. \A s \in d + 1 .. e : \E i \in S : rows[i].step = s
    <3>1. ASSUME NEW s \in d + 1 .. e PROVE \E i \in S : rows[i].step = s
      <4>1. s \in 1 .. e /\ s \in Nat /\ ~(s <= d) /\ s <= e
        BY <1>1
      <4>2. PICK j \in Begins(log) : StepAt(log, j) = s
        BY <4>1, <1>7 DEF HasStep
      <4>3. ~(j <= off) /\ j <= off + Len(rows) /\ j \in Nat
        BY <4>1, <4>2, <1>1, <1>3, <1>7
      <4>4. j - off \in DOMAIN rows /\ off + (j - off) = j
        BY <4>3, <1>1
      <4>5. j - off \in S /\ rows[j - off].step = s
        BY <4>2, <4>4, <1>2
      <4> QED
        BY <4>5
    <3> QED
      BY <3>1
  <2>4. Continue(rows, d, e)
    BY <2>1, <2>2, <2>3 DEF Continue, S
  <2> QED
    <3>1. d \in Nat /\ e \in Nat /\ d <= e
      BY <1>1, <1>7
    <3> QED
      BY <2>4, <3>1, RelevantRows
<1> DEFINE rel == Relevant(rows)
           more == [n \in DOMAIN rel |-> rel[n].step]
           told == sh \o more
<1>9. more \in Seq(Nat) /\ Len(more) = e - d /\ \A k \in 1 .. e - d : more[k] = d + k
  <2>1. e - d \in Nat
    BY <1>1, <1>7
  <2>2. more = [k \in 1 .. e - d |-> d + k]
    BY <1>8
  <2> HIDE DEF more
  <2> QED
    BY <1>1, <2>1, <2>2, NextOfThem
<1> HIDE DEF more, rel
<1>10. FromOne(sh) /\ d = Len(sh)
  BY DEF SeenAs, d
<1>11. told \in Seq(Nat) /\ Len(told) = e /\ FromOne(told)
  <2>1. d \in Nat /\ e \in Nat /\ d <= e /\ sh \in Seq(Nat)
    BY <1>1, <1>7
  <2>2. sh \o more \in Seq(Nat) /\ Len(sh \o more) = e /\ FromOne(sh \o more)
    BY ONLY <2>1, <1>9, <1>10, ShownGrows
  <2> QED
    BY <2>2
<1> HIDE DEF told
<1>12. SeenAs(log, off + Len(rows), <<>>, told)
  <2>1. (off + Len(rows)) + Len(<<>>) <= Len(log.lines)
    BY <1>1
  <2>2. DOMAIN <<>> = {}
    OBVIOUS
  <2> QED
    BY <2>1, <2>2, <1>7, <1>11 DEF SeenAs
<1> QED
  BY <1>7, <1>10, <1>11, <1>12 DEF told, more, rel

-----------------------------------------------------------------------------
(* The inductive invariant.                                                 *)

Filed(m) == FiledAs(run[m], io[m], begun[m])
Seen(m) == SeenAs(io[m], offset[m], fresh[m], shown[m])

\* Every row of the run's own is before the place that is given.
Before(m, place) == \A i \in Begins(io[m]) : i <= place

Unread(m) == \E n \in DOMAIN todo : todo[n] = m

\* Where the caller stands: the ends it announces come after the outputs.
Followed ==
    /\ pc = "begin" =>
          /\ finished = {}
          /\ \A m \in Modes : run[m] = "new" /\ shown[m] = <<>> /\ offset[m] = 0 /\ fresh[m] = <<>>
    /\ \A m \in complete : run[m] = "done" /\ begun[m] = Len(shown[m])
    /\ \A m \in finished : RunEnded(m)
    /\ \A m \in finished : run[m] = "done" =>
          /\ pc = "read" => Unread(m) \/ Before(m, offset[m] + Len(fresh[m]))
          /\ pc = "reap" => Before(m, offset[m])
    /\ pc = "returned" => complete = Modes
    /\ pc = "raised" => \A m \in Modes : run[m] # "running"

IInv == Typed /\ (\A m \in Modes : Filed(m) /\ Seen(m)) /\ Followed

\* The modes and their order.
LEMMA ModesOfOrder ==
    /\ Order \in Seq(Modes)
    /\ \A m \in Modes : \E n \in DOMAIN Order : Order[n] = m
    /\ Len(Order) = 1 => \A m, k \in Modes : m = k
<1>1. CASE Order = <<"protocol">>
  BY <1>1 DEF Modes
<1>2. CASE Order = <<"text", "protocol">>
  <2>1. Len(Order) = 2 /\ DOMAIN Order = 1 .. 2 /\ Order[1] = "text" /\ Order[2] = "protocol"
    BY <1>2
  <2>2. Order \in Seq(Modes)
    BY <1>2, <2>1 DEF Modes
  <2> QED
    BY <2>1, <2>2 DEF Modes
<1> QED
  BY <1>1, <1>2, CompareAssumption

LEMMA TypedParts ==
    ASSUME Typed, NEW m \in Modes
    PROVE  /\ io[m] \in Log /\ begun[m] \in Nat /\ begun[m] <= MaxRows /\ offset[m] \in Nat
           /\ fresh[m] \in Seq(Row) /\ shown[m] \in Seq(Nat)
           /\ run[m] \in {"new", "running", "done", "failed"}
BY CompareAssumption DEF Typed, TypeOK

LEMMA WrittenParts ==
    ASSUME NEW r, NEW log \in Log, NEW b \in Nat, FiledAs(r, log, b)
    PROVE  /\ Written(log, b) \in Nat /\ Written(log, b) <= b /\ Numbered(log, Written(log, b))
           /\ r # "running" => Written(log, b) = b
<1>1. Len(log.todo) = 3 => b > 0
  <2>1. log.todo = <<>> => Len(log.todo) = 0
    OBVIOUS
  <2> QED
    BY <2>1 DEF FiledAs
<1>2. log.todo = <<>> => Written(log, b) = b
  <2>1. log.todo = <<>> => Len(log.todo) = 0
    OBVIOUS
  <2> QED
    BY <2>1 DEF Written
<1>3. Written(log, b) \in Nat /\ Written(log, b) <= b
  BY <1>1 DEF Written
<1> QED
  BY <1>2, <1>3 DEF FiledAs

LEMMA InvStart == Init => IInv
<1> SUFFICES ASSUME Init PROVE IInv
  OBVIOUS
<1>1. /\ EmptyLog \in Log /\ EmptyLog.lines = <<>> /\ EmptyLog.todo = <<>> /\ EmptyLog.open = FALSE
  <2>1. <<>> \in Seq(Line) /\ <<>> \in Seq(Fragment \cup {Newline})
    OBVIOUS
  <2> QED
    BY <2>1 DEF EmptyLog, Log
<1>2. Typed
  <2>1. <<>> \in Seq(Modes) /\ <<>> \in Seq(Row) /\ <<>> \in Seq(Nat) /\ 0 \in 0 .. MaxRows /\ 0 \in 0 .. MaxOtherRows
    BY CompareAssumption
  <2> QED
    BY <1>1, <2>1 DEF Init, Typed, TypeOK
<1>3. Begins(EmptyLog) = {}
  <2>1. DOMAIN EmptyLog.lines = {}
    BY <1>1
  <2> QED
    BY <2>1 DEF Begins
<1>4. Written(EmptyLog, 0) = 0 /\ <<>> \in Pending(0)
  <2>1. Len(EmptyLog.todo) = 0
    BY <1>1
  <2> QED
    BY <2>1 DEF Written, Pending
<1>5. FiledAs("new", EmptyLog, 0)
  BY <1>1, <1>3, <1>4 DEF FiledAs, Numbered, HasAll
<1>6. SeenAs(EmptyLog, 0, <<>>, <<>>)
  <2>1. DOMAIN <<>> = {} /\ Len(<<>>) = 0
    OBVIOUS
  <2>2. FromOne(<<>>)
    BY DEF FromOne
  <2>3. 0 + Len(<<>>) <= Len(EmptyLog.lines)
    BY <1>1, <2>1
  <2> QED
    BY <1>1, <1>3, <2>1, <2>2, <2>3 DEF SeenAs
<1>7. \A m \in Modes : Filed(m) /\ Seen(m)
  BY <1>5, <1>6 DEF Init, Filed, Seen
<1>8. Followed
  BY DEF Init, Followed
<1> QED
  BY <1>2, <1>7, <1>8 DEF IInv

-----------------------------------------------------------------------------
(* The writers.                                                             *)

\* Every step of a writer keeps its file as it should be.
LEMMA WriterWrites ==
    ASSUME Typed, NEW m \in Modes, Filed(m), RunStep(m) \/ OtherProcess(m)
    PROVE  WrittenWell(io[m], begun[m], io'[m], run'[m], begun'[m])
<1>0. /\ io[m] \in Log /\ begun[m] \in Nat /\ io \in [Modes -> Log]
      /\ run \in [Modes -> {"new", "running", "done", "failed"}] /\ begun \in [Modes -> 0 .. MaxRows]
      /\ FiledAs(run[m], io[m], begun[m])
  BY TypedParts DEF Typed, TypeOK, Filed
<1>1. CASE AppendRow(m)
  <2>1. /\ run[m] = "running" /\ run'[m] = "running" /\ begun'[m] = begun[m] + 1 /\ io[m].todo = <<>>
        /\ \/ io'[m] = PutRow(io[m], OwnRow(begun[m] + 1))
           \/ io'[m] = BeginRow(io[m], OwnRow(begun[m] + 1))
    BY <1>0, <1>1 DEF AppendRow, Writing
  <2> QED
    BY <1>0, <2>1, RowIsFiled, RowIsBegun
<1>2. CASE WriteOn(m)
  <2>1. /\ run[m] = "running" /\ run'[m] = "running" /\ begun'[m] = begun[m] /\ io[m].todo # <<>>
        /\ io'[m] = ContinueRow(io[m])
    BY <1>0, <1>2 DEF WriteOn, Writing
  <2>2. Len(io[m].todo) \in {1, 2, 3}
    BY <1>0, <2>1, PendingParts DEF FiledAs
  <2> QED
    BY <1>0, <2>1, <2>2, LineIsEnded, RestIsWritten, StartIsWritten
<1>3. CASE EndRun(m)
  <2>1. /\ run[m] = "running" /\ run'[m] \in {"done", "failed"} /\ begun'[m] = begun[m]
        /\ io'[m] = [io[m] EXCEPT !.todo = <<>>]
    BY <1>0, <1>3 DEF EndRun
  <2>2. run'[m] = "done" => io[m].todo = <<>>
    BY <1>0, <1>3 DEF EndRun, Writing
  <2> QED
    BY <1>0, <2>1, <2>2, RunIsEnded
<1>4. CASE OtherProcess(m)
  <2>1. run'[m] = run[m] /\ begun'[m] = begun[m] /\ io'[m] = PutRow(io[m], OtherRow)
    BY <1>0, <1>4 DEF OtherProcess
  <2> QED
    BY <1>0, <2>1, OtherIsFiled
<1> QED
  BY <1>1, <1>2, <1>3, <1>4 DEF RunStep

\* A writer's step keeps the whole invariant: nothing is behind the caller's back.
LEMMA WritersStep ==
    ASSUME IInv, NEW m \in Modes, RunStep(m) \/ OtherProcess(m)
    PROVE  IInv'
<1>0. Typed /\ Followed /\ \A k \in Modes : Filed(k) /\ Seen(k)
  BY DEF IInv
<1>1. /\ UNCHANGED callerVars
      /\ \A k \in Modes \ {m} : io'[k] = io[k] /\ run'[k] = run[k] /\ begun'[k] = begun[k]
  BY <1>0 DEF Typed, TypeOK, RunStep, AppendRow, WriteOn, EndRun, OtherProcess
<1>2. WrittenWell(io[m], begun[m], io'[m], run'[m], begun'[m])
  BY <1>0, WriterWrites
<1>3. \A k \in Modes :
          /\ io'[k] \in Log /\ FiledAs(run'[k], io'[k], begun'[k])
          /\ Grows(io[k], io'[k], Written(io[k], begun[k]))
  <2>1. ASSUME NEW k \in Modes
        PROVE  /\ io'[k] \in Log /\ FiledAs(run'[k], io'[k], begun'[k])
               /\ Grows(io[k], io'[k], Written(io[k], begun[k]))
    <3>1. CASE k = m
      BY <3>1, <1>2 DEF WrittenWell
    <3>2. CASE k # m
      <4>1. io'[k] = io[k] /\ run'[k] = run[k] /\ begun'[k] = begun[k] /\ io[k] \in Log
        BY <3>2, <1>0, <1>1, TypedParts
      <4> QED
        BY <4>1, <1>0, SameLines DEF Filed
    <3> QED
      BY <3>1, <3>2
  <2> QED
    BY <2>1
<1>4. Typed'
  <2>1. io' \in [Modes -> Log]
    <3>1. io' = [k \in Modes |-> io'[k]]
      BY <1>0 DEF Typed, TypeOK, RunStep, AppendRow, WriteOn, EndRun, OtherProcess
    <3> QED
      BY <3>1, <1>3
  <2>2. run' \in [Modes -> {"new", "running", "done", "failed"}]
    BY <1>0 DEF Typed, TypeOK, RunStep, AppendRow, WriteOn, EndRun, OtherProcess
  <2>3. begun' \in [Modes -> 0 .. MaxRows]
    <3>1. CASE AppendRow(m)
      <4>1. begun' = [begun EXCEPT ![m] = @ + 1] /\ begun[m] < MaxRows /\ begun \in [Modes -> 0 .. MaxRows]
        BY <3>1, <1>0 DEF AppendRow, Typed, TypeOK
      <4>2. begun[m] + 1 \in 0 .. MaxRows
        BY <4>1, CompareAssumption
      <4> QED
        BY <4>1, <4>2
    <3>2. CASE ~AppendRow(m)
      BY <3>2, <1>0 DEF Typed, TypeOK, RunStep, WriteOn, EndRun, OtherProcess
    <3> QED
      BY <3>1, <3>2
  <2>4. others' \in 0 .. MaxOtherRows
    BY <1>0, CompareAssumption DEF Typed, TypeOK, RunStep, AppendRow, WriteOn, EndRun, OtherProcess
  <2> QED
    BY <1>0, <1>1, <2>1, <2>2, <2>3, <2>4 DEF Typed, TypeOK, callerVars
<1>5. \A k \in Modes : Filed(k)' /\ Seen(k)'
  <2>1. ASSUME NEW k \in Modes PROVE Filed(k)' /\ Seen(k)'
    <3>1. /\ io[k] \in Log /\ io'[k] \in Log /\ begun[k] \in Nat /\ offset[k] \in Nat
          /\ fresh[k] \in Seq(Row) /\ shown[k] \in Seq(Nat)
      BY <1>0, <1>3, TypedParts
    <3>2. Written(io[k], begun[k]) \in Nat /\ Numbered(io[k], Written(io[k], begun[k]))
      BY <1>0, <3>1, WrittenParts DEF Filed
    <3>3. SeenAs(io[k], offset[k], fresh[k], shown[k])
      BY <1>0 DEF Seen
    <3>4. SeenAs(io'[k], offset[k], fresh[k], shown[k])
      BY <1>3, <3>1, <3>2, <3>3, SeenKept
    <3> QED
      BY <1>1, <1>3, <3>4 DEF Filed, Seen, callerVars
  <2> QED
    BY <2>1
<1>6. \A k \in Modes : /\ run'[k] = run[k] \/ (run[k] = "running" /\ run'[k] \in {"running", "done", "failed"})
                       /\ begun'[k] = begun[k] \/ run[k] = "running"
  BY <1>0, <1>1 DEF Typed, TypeOK, RunStep, AppendRow, WriteOn, EndRun, OtherProcess
<1>7. ASSUME NEW k \in Modes, run[k] = "done"
      PROVE  \A i \in Begins(io'[k]) : i \in Begins(io[k])
  <2>1. run'[k] = "done" /\ begun'[k] = begun[k] /\ io[k] \in Log /\ io'[k] \in Log /\ begun[k] \in Nat
    BY <1>0, <1>3, <1>6, <1>7, TypedParts
  <2>2. Written(io[k], begun[k]) = begun[k]
    BY <1>0, <1>7, <2>1, WrittenParts DEF Filed
  <2>3. Written(io'[k], begun[k]) = begun[k] /\ Numbered(io'[k], begun[k])
    BY <1>3, <2>1, WrittenParts
  <2>4. ASSUME NEW i \in Begins(io'[k]) PROVE i \in Begins(io[k])
    <3>1. StepAt(io'[k], i) \in 1 .. begun[k]
      BY <2>3 DEF Numbered
    <3>2. ~(StepAt(io'[k], i) > begun[k])
      BY <3>1, <2>1
    <3>3. i \in DOMAIN io[k].lines
      BY <1>3, <2>2, <3>2 DEF Grows
    <3> QED
      BY <1>3, <3>3 DEF Grows, Begins
  <2> QED
    BY <2>4
<1>8. Followed'
  <2>1. pc' = pc /\ todo' = todo /\ offset' = offset /\ fresh' = fresh /\ finished' = finished
        /\ shown' = shown /\ complete' = complete
    BY <1>1 DEF callerVars
  <2>2. finished \subseteq Modes /\ complete \subseteq Modes
    BY <1>0 DEF Typed, TypeOK
  <2>3. \A k \in complete : run'[k] = "done" /\ begun'[k] = Len(shown[k])
    BY <1>0, <1>6, <2>2 DEF Followed
  <2>4. \A k \in finished : run'[k] = run[k] /\ run[k] \in {"done", "failed"}
    BY <1>0, <1>6, <2>2 DEF Followed, RunEnded
  <2>5. \A k \in finished : run'[k] = "done" =>
          /\ pc = "read" => Unread(k) \/ Before(k, offset[k] + Len(fresh[k]))'
          /\ pc = "reap" => Before(k, offset[k])'
    <3>1. ASSUME NEW k \in finished, run[k] = "done", NEW x, Before(k, x)
          PROVE  \A i \in Begins(io'[k]) : i <= x
      BY <3>1, <1>7, <2>2 DEF Before
    <3>2. ASSUME NEW k \in finished, run[k] = "done", pc = "read"
          PROVE  Unread(k) \/ \A i \in Begins(io'[k]) : i <= offset[k] + Len(fresh[k])
      BY <3>1, <3>2, <1>0 DEF Followed
    <3>3. ASSUME NEW k \in finished, run[k] = "done", pc = "reap"
          PROVE  \A i \in Begins(io'[k]) : i <= offset[k]
      BY <3>1, <3>3, <1>0 DEF Followed
    <3> QED
      BY <2>1, <2>4, <3>2, <3>3 DEF Before
  <2>6. pc = "raised" => \A k \in Modes : run'[k] # "running"
    BY <1>0, <1>6 DEF Followed
  <2>7. pc = "begin" => \A k \in Modes : run'[k] = "new"
    BY <1>0, <1>6 DEF Followed
  <2>8. \A k : Unread(k)' <=> Unread(k)
    BY <2>1 DEF Unread
  <2> QED
    BY <1>0, <2>1, <2>3, <2>4, <2>5, <2>6, <2>7, <2>8 DEF Followed, RunEnded
<1> QED
  BY <1>4, <1>5, <1>8 DEF IInv

-----------------------------------------------------------------------------
(* The calling thread.                                                      *)

\* What there is to know of one mode's file.
LEMMA ModeParts ==
    ASSUME IInv, NEW m \in Modes
    PROVE  /\ io[m] \in Log /\ begun[m] \in Nat /\ offset[m] \in Nat
           /\ fresh[m] \in Seq(Row) /\ shown[m] \in Seq(Nat) /\ Len(shown[m]) \in Nat
           /\ FiledAs(run[m], io[m], begun[m])
           /\ SeenAs(io[m], offset[m], fresh[m], shown[m])
           /\ Written(io[m], begun[m]) \in Nat
           /\ Numbered(io[m], Written(io[m], begun[m]))
           /\ Len(shown[m]) <= Written(io[m], begun[m])
           /\ Written(io[m], begun[m]) <= begun[m]
           /\ run[m] # "running" => Written(io[m], begun[m]) = begun[m]
<1>1. Typed /\ Filed(m) /\ Seen(m)
  BY DEF IInv
<1>2. /\ io[m] \in Log /\ begun[m] \in Nat /\ offset[m] \in Nat
      /\ fresh[m] \in Seq(Row) /\ shown[m] \in Seq(Nat) /\ Len(shown[m]) \in Nat
  BY <1>1, TypedParts
<1>3. /\ FiledAs(run[m], io[m], begun[m])
      /\ SeenAs(io[m], offset[m], fresh[m], shown[m])
  BY <1>1 DEF Filed, Seen
<1>4. /\ Written(io[m], begun[m]) \in Nat
      /\ Numbered(io[m], Written(io[m], begun[m]))
      /\ Written(io[m], begun[m]) <= begun[m]
      /\ run[m] # "running" => Written(io[m], begun[m]) = begun[m]
  BY <1>2, <1>3, WrittenParts
<1>5. Len(shown[m]) <= Written(io[m], begun[m])
  <2>1. \A s \in 1 .. Len(shown[m]) : HasStep(io[m], s)
    BY <1>3 DEF SeenAs
  <2> QED
    BY <1>2, <1>4, <2>1, ShownAreThere
<1> QED
  BY <1>2, <1>3, <1>4, <1>5

LEMMA BeginStep == IInv /\ Begin => IInv'
<1> SUFFICES ASSUME IInv, Begin PROVE IInv'
  OBVIOUS
<1>0. Typed /\ Followed /\ pc = "begin"
  BY DEF IInv, Begin
<1>1. /\ finished = {}
      /\ \A m \in Modes : run[m] = "new" /\ shown[m] = <<>> /\ offset[m] = 0 /\ fresh[m] = <<>>
  BY <1>0 DEF Followed
<1>2. UNCHANGED <<io, begun, others, fresh, finished, shown, complete>>
  BY DEF Begin
<1>3. CASE \A m \in Modes : Readable(io[m])
  <2>1. /\ offset' = [m \in Modes |-> Len(RowsOf(io[m]))] /\ run' = [m \in Modes |-> "running"]
        /\ todo' = Order /\ pc' = "read"
    BY <1>3 DEF Begin
  <2>2. \A m \in Modes : Len(RowsOf(io[m])) = Len(io[m].lines) /\ Len(io[m].lines) \in Nat
    BY <1>3, ModeParts, ReadIsSeen, LogParts
  <2>3. Typed'
    BY <1>0, <1>2, <2>1, <2>2, ModesOfOrder DEF Typed, TypeOK
  <2>4. ASSUME NEW m \in Modes PROVE Filed(m)' /\ Seen(m)'
    <3>1. /\ run'[m] = "running" /\ io'[m] = io[m] /\ begun'[m] = begun[m] /\ fresh'[m] = <<>>
          /\ shown'[m] = <<>> /\ offset'[m] = Len(io[m].lines)
      BY <1>1, <1>2, <2>1, <2>2
    <3>2. FiledAs("new", io[m], begun[m]) /\ io[m] \in Log /\ begun[m] \in Nat
      BY <1>1, ModeParts
    <3>3. FiledAs("running", io[m], begun[m])
      BY <3>2 DEF FiledAs
    <3>4. Begins(io[m]) = {}
      <4>1. begun[m] = 0 /\ Numbered(io[m], 0)
        <5>1. begun[m] = 0
          BY <3>2 DEF FiledAs
        <5>2. Written(io[m], begun[m]) = 0
          BY <5>1, ModeParts
        <5> QED
          BY <5>1, <5>2, ModeParts
      <4>2. 1 .. 0 = {}
        OBVIOUS
      <4> QED
        BY <4>1, <4>2 DEF Numbered
    <3>5. SeenAs(io[m], Len(io[m].lines), <<>>, <<>>)
      <4>1. DOMAIN <<>> = {} /\ Len(<<>>) = 0 /\ 1 .. 0 = {}
        OBVIOUS
      <4>2. FromOne(<<>>)
        BY DEF FromOne
      <4>3. Len(io[m].lines) + Len(<<>>) <= Len(io[m].lines)
        BY <2>2, <4>1
      <4> QED
        BY <3>4, <4>1, <4>2, <4>3 DEF SeenAs
    <3> QED
      BY <3>1, <3>3, <3>5 DEF Filed, Seen
  <2>5. Followed'
    <3>1. complete = {}
      <4>1. complete \subseteq Modes /\ \A m \in complete : run[m] = "done"
        BY <1>0 DEF Typed, TypeOK, Followed
      <4> QED
        BY <1>1, <4>1
    <3> QED
      BY <1>1, <1>2, <2>1, <3>1 DEF Followed
  <2> QED
    BY <2>3, <2>4, <2>5 DEF IInv
<1>4. CASE ~\A m \in Modes : Readable(io[m])
  <2>1. pc' = "raised" /\ UNCHANGED <<offset, run, todo>>
    BY <1>4 DEF Begin
  <2>2. Typed'
    BY <1>0, <1>2, <2>1 DEF Typed, TypeOK
  <2>3. ASSUME NEW m \in Modes PROVE Filed(m)' /\ Seen(m)'
    BY <1>2, <2>1 DEF IInv, Filed, Seen
  <2>4. Followed'
    BY <1>0, <1>1, <1>2, <2>1 DEF Followed, RunEnded
  <2> QED
    BY <2>2, <2>3, <2>4 DEF IInv
<1> QED
  BY <1>3, <1>4

LEMMA ReadFileStep == IInv /\ ReadFile => IInv'
<1> SUFFICES ASSUME IInv, ReadFile PROVE IInv'
  OBVIOUS
<1> DEFINE m == Head(todo)
           rows == RowsOf(io[m])
           read == SubSeq(rows, offset[m] + 1, Len(rows))
<1>0. /\ Typed /\ Followed /\ pc = "read" /\ todo # <<>> /\ todo \in Seq(Modes)
      /\ UNCHANGED <<run, io, begun, others, offset, finished, shown, complete>>
  BY DEF IInv, ReadFile, Typed, TypeOK
<1>1. /\ m \in Modes /\ Tail(todo) \in Seq(Modes)
      /\ \A k \in Modes : Unread(k) => k = m \/ \E n \in DOMAIN Tail(todo) : Tail(todo)[n] = k
  <2>1. todo \in Seq(Modes) /\ Len(todo) \in Nat /\ Len(todo) > 0 /\ DOMAIN todo = 1 .. Len(todo)
    BY <1>0
  <2>2. m = todo[1] /\ Tail(todo) \in Seq(Modes) /\ DOMAIN Tail(todo) = 1 .. Len(todo) - 1
        /\ \A n \in 1 .. Len(todo) - 1 : Tail(todo)[n] = todo[n + 1]
    BY <2>1
  <2>3. ASSUME NEW k, NEW n \in DOMAIN todo, todo[n] = k, k # m
        PROVE  \E j \in DOMAIN Tail(todo) : Tail(todo)[j] = k
    <3>1. n - 1 \in 1 .. Len(todo) - 1 /\ (n - 1) + 1 = n
      BY <2>1, <2>2, <2>3
    <3> QED
      BY <2>2, <2>3, <3>1
  <2> QED
    BY <2>1, <2>2, <2>3 DEF Unread
<1> HIDE DEF m
<1>2. CASE Readable(io[m])
  <2>1. fresh' = [fresh EXCEPT ![m] = read] /\ todo' = Tail(todo) /\ pc' = "read"
    BY <1>0, <1>2 DEF ReadFile, m
  <2>2. /\ read \in Seq(Row) /\ offset[m] + Len(read) = Len(io[m].lines)
        /\ SeenAs(io[m], offset[m], read, shown[m])
    BY <1>1, <1>2, ModeParts, ReadIsSeen
  <2> HIDE DEF read
  <2>3. fresh \in [Modes -> Seq(Row)]
    BY <1>0 DEF Typed
  <2>4. Typed'
    BY <1>0, <1>1, <2>1, <2>2, <2>3 DEF Typed, TypeOK
  <2>5. ASSUME NEW k \in Modes PROVE Filed(k)' /\ Seen(k)'
    <3>1. Filed(k)'
      BY <1>0 DEF IInv, Filed
    <3>2. CASE k = m
      BY <3>1, <3>2, <1>0, <1>1, <2>1, <2>2, <2>3 DEF Seen
    <3>3. CASE k # m
      <4>1. fresh'[k] = fresh[k]
        BY <3>3, <2>1, <2>3
      <4> QED
        BY <3>1, <4>1, <1>0 DEF IInv, Seen
    <3> QED
      BY <3>2, <3>3
  <2>6. ASSUME NEW k \in finished, run[k] = "done"
        PROVE  Unread(k)' \/ Before(k, offset[k] + Len(fresh[k]))'
    <3>0. k \in Modes
      BY <1>0 DEF Typed, TypeOK
    <3>1. CASE k = m
      <4>1. Before(m, Len(io[m].lines))
        <5>1. io[m] \in Log /\ DOMAIN io[m].lines = 1 .. Len(io[m].lines)
          BY <1>1, ModeParts, LogParts
        <5> QED
          BY <5>1 DEF Before, Begins
      <4> QED
        BY <3>1, <4>1, <1>0, <1>1, <2>1, <2>2, <2>3 DEF Before
    <3>2. CASE k # m
      <4>1. fresh'[k] = fresh[k]
        BY <3>0, <3>2, <2>1, <2>3
      <4>2. Unread(k) \/ Before(k, offset[k] + Len(fresh[k]))
        BY <1>0, <2>6 DEF Followed
      <4>3. Unread(k) => Unread(k)'
        BY <3>0, <3>2, <1>1, <2>1 DEF Unread
      <4> QED
        BY <4>1, <4>2, <4>3, <1>0 DEF Before
    <3> QED
      BY <3>1, <3>2
  <2>7. Followed'
    BY <1>0, <2>1, <2>6 DEF Followed, RunEnded
  <2> QED
    BY <2>4, <2>5, <2>7 DEF IInv
<1>3. CASE ~Readable(io[m])
  <2>1. pc' = "join" /\ UNCHANGED <<fresh, todo>>
    BY <1>3 DEF ReadFile, m
  <2>2. Typed'
    BY <1>0, <2>1 DEF Typed, TypeOK
  <2>3. ASSUME NEW k \in Modes PROVE Filed(k)' /\ Seen(k)'
    BY <1>0, <2>1 DEF IInv, Filed, Seen
  <2>4. Followed'
    BY <1>0, <2>1 DEF Followed, RunEnded
  <2> QED
    BY <2>2, <2>3, <2>4 DEF IInv
<1> QED
  BY <1>2, <1>3

LEMMA EmitStep == IInv /\ Emit => IInv'
<1> SUFFICES ASSUME IInv, Emit PROVE IInv'
  OBVIOUS
<1> DEFINE Told(k) == LET rel == Relevant(fresh[k]) IN shown[k] \o [n \in DOMAIN rel |-> rel[n].step]
<1>0. /\ Typed /\ Followed /\ pc = "read" /\ todo = <<>>
      /\ shown' = [k \in Modes |-> Told(k)]
      /\ offset' = [k \in Modes |-> offset[k] + Len(fresh[k])]
      /\ fresh' = [k \in Modes |-> <<>>]
      /\ pc' = AfterEmit
      /\ UNCHANGED <<run, io, begun, others, todo, finished, complete>>
  BY DEF IInv, Emit
<1>1. ASSUME NEW k \in Modes
      PROVE  /\ Told(k) \in Seq(Nat) /\ Len(Told(k)) \in Nat /\ Len(shown[k]) <= Len(Told(k))
             /\ SeenAs(io[k], offset[k] + Len(fresh[k]), <<>>, Told(k))
             /\ offset[k] + Len(fresh[k]) \in Nat
             /\ Len(Told(k)) <= begun[k]
  <2>1. /\ io[k] \in Log /\ begun[k] \in Nat /\ offset[k] \in Nat /\ Written(io[k], begun[k]) \in Nat
        /\ Numbered(io[k], Written(io[k], begun[k])) /\ Written(io[k], begun[k]) <= begun[k]
        /\ fresh[k] \in Seq(Row) /\ shown[k] \in Seq(Nat)
        /\ SeenAs(io[k], offset[k], fresh[k], shown[k])
    BY ModeParts
  <2>2. /\ Told(k) \in Seq(Nat) /\ Len(shown[k]) <= Len(Told(k))
        /\ SeenAs(io[k], offset[k] + Len(fresh[k]), <<>>, Told(k))
    BY <2>1, PassedOn
  <2> HIDE DEF Told
  <2>3. Len(Told(k)) \in Nat /\ Len(fresh[k]) \in Nat /\ \A s \in 1 .. Len(Told(k)) : HasStep(io[k], s)
    BY <2>1, <2>2 DEF SeenAs
  <2>4. Len(Told(k)) <= Written(io[k], begun[k])
    BY <2>1, <2>3, ShownAreThere
  <2> QED
    BY <2>1, <2>2, <2>3, <2>4
<1> HIDE DEF Told
<1>2. Typed'
  <2>1. shown' \in [Modes -> Seq(Nat)] /\ offset' \in [Modes -> Nat] /\ fresh' \in [Modes -> Seq(Row)]
    <3>1. <<>> \in Seq(Row)
      OBVIOUS
    <3> QED
      BY <3>1, <1>0, <1>1
  <2>2. pc' \in {"read", "wait", "reap", "returned"}
    BY <1>0 DEF AfterEmit
  <2> QED
    BY <1>0, <2>1, <2>2 DEF Typed, TypeOK
<1>3. ASSUME NEW k \in Modes PROVE Filed(k)' /\ Seen(k)'
  BY <1>0, <1>1 DEF IInv, Filed, Seen
<1>4. Followed'
  <2>1. \A k \in complete : begun[k] = Len(shown'[k])
    <3>1. ASSUME NEW k \in complete PROVE begun[k] = Len(Told(k))
      <4>1. k \in Modes /\ begun[k] = Len(shown[k]) /\ begun[k] \in Nat
        <5>1. k \in Modes
          BY <1>0 DEF Typed, TypeOK
        <5> QED
          BY <5>1, <1>0, ModeParts DEF Followed
      <4> QED
        BY <4>1, <1>1
    <3> QED
      BY <3>1, <1>0 DEF Typed, TypeOK
  <2>2. \A k \in finished : run[k] = "done" => Before(k, offset[k])'
    <3>1. ASSUME NEW k \in finished, run[k] = "done"
          PROVE  Before(k, offset[k])'
      <4>1. DOMAIN todo = {}
        BY <1>0
      <4>2. Before(k, offset[k] + Len(fresh[k]))
        BY <3>1, <4>1, <1>0 DEF Followed, Unread
      <4>3. offset'[k] = offset[k] + Len(fresh[k])
        BY <1>0 DEF Typed, TypeOK
      <4> QED
        BY <4>2, <4>3, <1>0 DEF Before
    <3> QED
      BY <3>1
  <2>3. pc' # "begin" /\ pc' # "read" /\ pc' # "raised" /\ (pc' = "returned" => complete = Modes)
    BY <1>0 DEF AfterEmit
  <2> QED
    BY <1>0, <2>1, <2>2, <2>3 DEF Followed, RunEnded
<1> QED
  BY <1>2, <1>3, <1>4 DEF IInv

LEMMA WaitStep == IInv /\ Wait => IInv'
<1> SUFFICES ASSUME IInv, Wait PROVE IInv'
  OBVIOUS
<1>0. /\ Typed /\ Followed
      /\ finished' = {m \in Modes \ complete : RunEnded(m)} /\ pc' = "read" /\ todo' = Order
      /\ UNCHANGED <<run, io, begun, others, offset, fresh, shown, complete>>
  BY DEF IInv, Wait, AfterWait
<1>1. Typed'
  <2>1. finished' \subseteq Modes /\ todo' \in Seq(Modes)
    BY <1>0, ModesOfOrder
  <2> QED
    BY <1>0, <2>1 DEF Typed, TypeOK
<1>2. ASSUME NEW k \in Modes PROVE Filed(k)' /\ Seen(k)'
  BY <1>0 DEF IInv, Filed, Seen
<1>3. Followed'
  <2>1. \A k \in finished' : k \in Modes /\ RunEnded(k)' /\ Unread(k)'
    BY <1>0, ModesOfOrder DEF RunEnded, Unread
  <2> QED
    BY <1>0, <2>1 DEF Followed
<1> QED
  BY <1>1, <1>2, <1>3 DEF IInv

LEMMA ReapStep == IInv /\ Reap => IInv'
<1> SUFFICES ASSUME IInv, Reap PROVE IInv'
  OBVIOUS
<1>0. /\ Typed /\ Followed /\ pc = "reap"
      /\ todo' = (IF pc' = "read" THEN Order ELSE <<>>)
      /\ UNCHANGED <<run, io, begun, others, offset, fresh, shown>>
  BY DEF IInv, Reap
<1>1. PICK m \in finished :
          /\ finished' = finished \ {m}
          /\ IF run[m] = "done"
             THEN /\ complete' = complete \cup {m}
                  /\ pc' = IF finished' # {} THEN "reap"
                           ELSE IF Len(Order) = 1 THEN "returned" ELSE "read"
             ELSE pc' = "join" /\ UNCHANGED complete
  BY DEF Reap
<1>2. m \in Modes /\ finished \subseteq Modes /\ complete \subseteq Modes
  BY <1>0 DEF Typed, TypeOK
<1>3. Typed'
  <2>1. todo' \in Seq(Modes)
    <3>1. <<>> \in Seq(Modes)
      OBVIOUS
    <3> QED
      BY <3>1, <1>0, ModesOfOrder
  <2>2. pc' \in {"reap", "returned", "read", "join"} /\ complete' \subseteq Modes /\ finished' \subseteq Modes
    BY <1>1, <1>2
  <2> QED
    BY <1>0, <2>1, <2>2 DEF Typed, TypeOK
<1>4. ASSUME NEW k \in Modes PROVE Filed(k)' /\ Seen(k)'
  BY <1>0 DEF IInv, Filed, Seen
<1>5. CASE run[m] = "done"
  <2>1. /\ complete' = complete \cup {m}
        /\ pc' = IF finished' # {} THEN "reap" ELSE IF Len(Order) = 1 THEN "returned" ELSE "read"
    BY <1>1, <1>5
  <2>2. begun[m] = Len(shown[m])
    <3>1. /\ Before(m, offset[m]) /\ begun[m] \in Nat /\ Len(shown[m]) \in Nat /\ io[m] \in Log
          /\ Len(shown[m]) <= begun[m] /\ HasAll(io[m], begun[m])
      <4>1. Before(m, offset[m])
        BY <1>0, <1>5 DEF Followed
      <4>2. Written(io[m], begun[m]) = begun[m]
        BY <1>2, <1>5, ModeParts
      <4>3. HasAll(io[m], begun[m])
        BY <1>2, <1>5, <4>2, ModeParts DEF FiledAs
      <4> QED
        BY <1>2, <4>1, <4>2, <4>3, ModeParts
    <3>2. begun[m] > 0 => begun[m] <= Len(shown[m])
      <4>1. SUFFICES ASSUME begun[m] > 0 PROVE begun[m] <= Len(shown[m])
        OBVIOUS
      <4>2. begun[m] \in 1 .. begun[m]
        BY <3>1, <4>1
      <4>3. PICK i \in Begins(io[m]) : StepAt(io[m], i) = begun[m]
        BY <3>1, <4>2 DEF HasAll, HasStep
      <4>4. i <= offset[m]
        BY <3>1 DEF Before
      <4>5. SeenAs(io[m], offset[m], fresh[m], shown[m])
        BY <1>2, ModeParts
      <4> QED
        BY <4>3, <4>4, <4>5 DEF SeenAs
    <3> QED
      BY <3>1, <3>2
  <2>3. pc' = "returned" => complete' = Modes
    BY <2>1, <1>2, ModesOfOrder
  <2>4. pc' = "read" => finished' = {}
    BY <2>1
  <2>5. \A k \in finished' : k \in finished
    BY <1>1
  <2>6. pc' \in {"reap", "returned", "read"}
    BY <2>1
  <2>7. \A k \in complete' : run[k] = "done" /\ begun[k] = Len(shown[k])
    BY <1>0, <1>5, <2>1, <2>2 DEF Followed
  <2>8. \A k : Before(k, offset[k])' <=> Before(k, offset[k])
    BY <1>0 DEF Before
  <2>9. \A k \in finished' : RunEnded(k)' /\ (run'[k] = "done" => Before(k, offset[k])')
    BY <1>0, <2>5, <2>8 DEF Followed, RunEnded
  <2>10. Followed'
    BY <1>0, <2>3, <2>4, <2>6, <2>7, <2>9 DEF Followed
  <2> QED
    BY <1>3, <1>4, <2>10 DEF IInv
<1>6. CASE run[m] # "done"
  <2>1. pc' = "join" /\ complete' = complete
    BY <1>1, <1>6
  <2>2. Followed'
    BY <1>0, <1>1, <2>1 DEF Followed, RunEnded
  <2> QED
    BY <1>3, <1>4, <2>2 DEF IInv
<1> QED
  BY <1>5, <1>6

LEMMA JoinStep == IInv /\ Join => IInv'
<1> SUFFICES ASSUME IInv, Join PROVE IInv'
  OBVIOUS
<1>0. /\ Typed /\ Followed /\ pc' = "raised" /\ \A m \in Modes : run[m] # "running"
      /\ UNCHANGED <<run, io, begun, others, todo, offset, fresh, finished, shown, complete>>
  BY DEF IInv, Join, RunEnded
<1>1. Typed'
  BY <1>0 DEF Typed, TypeOK
<1>2. ASSUME NEW k \in Modes PROVE Filed(k)' /\ Seen(k)'
  BY <1>0 DEF IInv, Filed, Seen
<1>3. Followed'
  BY <1>0 DEF Followed, RunEnded
<1> QED
  BY <1>1, <1>2, <1>3 DEF IInv

LEMMA StepKeepsInv == IInv /\ [Next]_vars => IInv'
<1> SUFFICES ASSUME IInv, [Next]_vars PROVE IInv'
  OBVIOUS
<1>1. ASSUME NEW m \in Modes, RunStep(m) \/ OtherProcess(m) PROVE IInv'
  BY <1>1, WritersStep
<1>2. CASE CallerStep
  BY <1>2, BeginStep, ReadFileStep, EmitStep, WaitStep, ReapStep, JoinStep DEF CallerStep
<1>3. CASE UNCHANGED vars
  BY <1>3 DEF vars, IInv, Typed, TypeOK, Filed, Seen, Followed, Before, Unread, RunEnded
<1> QED
  BY <1>1, <1>2, <1>3 DEF Next

LEMMA InvIsInOrder == IInv => OutputsInOrder
<1> SUFFICES ASSUME IInv PROVE OutputsInOrder
  OBVIOUS
<1>1. Typed /\ Followed
  BY DEF IInv
<1>2. ASSUME NEW m \in Modes
      PROVE  /\ shown[m] = [n \in 1 .. Len(shown[m]) |-> n]
             /\ Len(shown[m]) <= begun[m]
             /\ m \in complete => Len(shown[m]) = begun[m]
  <2>1. FromOne(shown[m])
    BY ModeParts DEF SeenAs
  <2>2. Len(shown[m]) <= begun[m]
    BY ModeParts
  <2> QED
    BY <1>1, <2>1, <2>2 DEF FromOne, Followed
<1>3. pc = "returned" => complete = Modes
  BY <1>1 DEF Followed
<1>4. Ended => \A m \in Modes : run[m] # "running"
  BY <1>1, <1>3 DEF Followed, Ended
<1> QED
  BY <1>2, <1>3, <1>4 DEF OutputsInOrder

\* Whatever the runs and other processes append and whenever the caller reads, the
\* outputs of a run are shown once and in order, all of them before its end is
\* announced, and the caller neither returns nor raises while a run goes on.
THEOREM OutputsAreInOrder == Spec => [](TypeOK /\ OutputsInOrder)
<1>1. IInv => TypeOK /\ OutputsInOrder
  BY InvIsInOrder DEF IInv, Typed
<1> QED
  BY InvStart, StepKeepsInv, <1>1, PTL DEF Spec
=============================================================================
