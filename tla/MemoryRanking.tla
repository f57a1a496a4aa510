---------------------------- MODULE MemoryRanking ----------------------------
(***************************************************************************)
(* How a search ranks the candidates of one database, and which of the      *)
(* ranked hits the retriever serves: memory.sqlite_store, memory.scorer and *)
(* agents.retriever.  The code's floats between 0 and 1 are counted in      *)
(* ten-thousandths (Share), its weighted sums in millionths (Score); the    *)
(* logarithms and exponentials in a candidate's own scores are inputs.      *)
(***************************************************************************)
EXTENDS Integers

Share == {n \in Nat : n <= 10000}
One == 1000000

Least(a, b) == IF a <= b THEN a ELSE b

\* What a candidate brings along, whatever the ranking: the overlap of its tags
\* with the query's, its validity, confidence, reuse and recency.
Candidate == [tag : Share, validity : Share, confidence : Share,
              reuse : Share, recency : Share]

\* The candidates stand in one order: full text, then tags, then the newest.
Positions == Nat

-----------------------------------------------------------------------------
(* Without a semantic encoder: the position stands for the similarity.      *)

\* max(0.25, 0.95 * 0.88 ** position), cut to a ten-thousandth; no value lies
\* nearer than that to a threshold.
Decay == <<9500, 8360, 7356, 6473, 5697, 5013, 4411, 3882, 3416, 3006, 2645>>
Base(p) == IF p < 11 THEN Decay[p + 1] ELSE 2500

FallbackScore(p, c) ==
    LET score == 55 * Base(p) + 15 * c.tag + 10 * c.validity
                 + 10 * c.reuse + 10 * c.recency
    IN  IF c.reuse > 0 THEN Least(One, score + 5 * c.reuse) ELSE score

-----------------------------------------------------------------------------
(* With one: a weighted sum, raised by the position.                        *)

RankScore(semantic, c) ==
    50 * semantic + 15 * c.validity + 10 * c.confidence
    + 10 * c.reuse + 10 * c.recency + 5 * c.tag

\* 0.3 * 0.85 ** (position or 99), cut to a ten-thousandth: position 0 counts
\* as 99.  Only the first positions are listed.
Boosts == <<2550, 2167, 1842, 1566, 1331, 1131, 961, 817, 694, 590>>
Boosted == 0 .. 10
Boost(p) == IF p = 0 THEN 0 ELSE Boosts[p]

\* 0.65 * rank + 0.35 * (rank + boost).
HybridScore(p, semantic, c) ==
    Least(One, RankScore(semantic, c) + 35 * Boost(p))

-----------------------------------------------------------------------------
(* What the retriever serves.                                               *)

\* query_tags is ["general"], or holds a topic of the query.
Queries == {"general", "tagged"}

AtLeast(semantic, score, s, t) == semantic >= s /\ score >= t

ShouldReuse(query, semantic, score, overlap) ==
    \/ /\ query = "general" \/ (0 < overlap /\ overlap < 5000)
       /\ AtLeast(semantic, score, 5500, 600000)
    \/ /\ query = "tagged" /\ overlap >= 5000
       /\ AtLeast(semantic, score, 4500, 550000)
    \/ /\ query = "tagged" /\ overlap = 0
       /\ AtLeast(semantic, score, 7200, 700000)

ServedByPosition(query, p, c) ==
    ShouldReuse(query, Base(p), FallbackScore(p, c), c.tag)

ServedBySimilarity(query, p, semantic, c) ==
    ShouldReuse(query, semantic, HybridScore(p, semantic, c), c.tag)

=============================================================================
