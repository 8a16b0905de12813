------------------------------ MODULE Ranking ------------------------------
(***************************************************************************)
(* `moodboard rank` (src/moodboard/cli.py) from a verified board to the    *)
(* report, and the rules report.py holds the report to before it is        *)
(* written.  A board is [refs, k, kCap, cut, dupCut, minSize, level,       *)
(* multiplier]; candidates are items after the references, each compared   *)
(* with the references and never with another candidate.  Asset ids are    *)
(* the candidates themselves, so ascending id is ascending item.           *)
(* Classical axes, thumbnails and provenance carry nothing the scores      *)
(* depend on and are left out.                                             *)
(***************************************************************************)
EXTENDS Abstention

\* _exemplars: the nearest references, equal similarities in catalogue order.
Exemplars(d, refs, c, count) ==
    LET order == InOrder(refs, {p \in refs \X refs :
                   d[c][p[1]] < d[c][p[2]] \/ (d[c][p[1]] = d[c][p[2]] /\ p[1] < p[2])})
    IN SubSeq(order, 1, Smaller(count, Len(order)))

\* _score_candidate: the candidate's partition, then its verdict; the far-outlier question is asked
\* of the whole board, every other one of the candidate's own category.
ScoreWithin(d, board, groups, c, alpha, partition) ==
    LET values == Nonconformity(d, board.refs \cup {c},
                                Smaller(board.k, Cardinality(board.refs)))
        order == Ascending(board.refs)
    IN [partition |-> partition,
        verdict |-> EvaluateAbstention(partition, alpha, values[c],
                      [n \in DOMAIN order |-> values[order[n]]], groups, board.multiplier),
        exemplars |-> Exemplars(d, board.refs, c, 3),
        supported |-> Floor(CategoryNEff(partition.members, groups))]

ScoreCandidate(d, h, board, groups, c, alpha) ==
    ScoreWithin(d, board, groups, c, alpha,
                Partition(d, board.refs, c, h, board.cut, board.minSize))

Greater(p, q) == p[1] * q[2] > q[1] * p[2]
SameScore(p, q) == p[1] * q[2] = q[1] * p[2]

\* _competition_ranks: the position of the first asset with the same score.
CompetitionRanks(scores) ==
    LET assets == DOMAIN scores
        order == InOrder(assets, {p \in assets \X assets :
                   \/ Greater(scores[p[1]], scores[p[2]])
                   \/ SameScore(scores[p[1]], scores[p[2]]) /\ p[1] < p[2]})
    IN [a \in DOMAIN scores |->
            Min({i \in DOMAIN order : SameScore(scores[order[i]], scores[a])})]

\* Assets by rank and id.
ByRank(ranks) ==
    LET assets == DOMAIN ranks
    IN InOrder(assets, {p \in assets \X assets :
         ranks[p[1]] < ranks[p[2]] \/ (ranks[p[1]] = ranks[p[2]] /\ p[1] < p[2])})

\* Faulty variant: two assets share a category when their partitions gave it
\* the same label.
TiePairsByLabel(judged, scores, ranks, mode) ==
    LET order == ByRank(ranks)
        considered == IF mode = "none" THEN {}
                      ELSE {p \in Pairs(DOMAIN order) : mode = "all" \/ p[2] = p[1] + 1}
    IN {<<Smaller(order[p[1]], order[p[2]]), Max({order[p[1]], order[p[2]]})>> :
          p \in {q \in considered : judged[order[q[1]]].partition.category
                                  = judged[order[q[2]]].partition.category}}

\* _tie_pairs: consecutive pairs, all or none, of assets that were scored
\* against the same set of references.
TiePairs(judged, scores, ranks, mode) ==
    LET order == ByRank(ranks)
        considered == IF mode = "none" THEN {}
                      ELSE {p \in Pairs(DOMAIN order) : mode = "all" \/ p[2] = p[1] + 1}
    IN {<<Smaller(order[p[1]], order[p[2]]), Max({order[p[1]], order[p[2]]})>> :
          p \in {q \in considered : judged[order[q[1]]].partition.members
                                  = judged[order[q[2]]].partition.members}}

Seen(judged) ==
    (UNION {{judged[c].partition.all[n] : n \in DOMAIN judged[c].partition.all} :
               c \in DOMAIN judged}) \ {{}}

\* Tuples of references compared as Python compares them.
TupleBefore(a, b) ==
    \/ \E i \in 1..Smaller(Len(a), Len(b)) :
          a[i] < b[i] /\ \A j \in 1..(i - 1) : a[j] = b[j]
    \/ Len(a) < Len(b) /\ \A j \in 1..Len(a) : a[j] = b[j]

\* _board_categories: every category any candidate induced, in the order of
\* its members.
BoardCategories(judged) ==
    InOrder(Seen(judged), {p \in Seen(judged) \X Seen(judged) :
                              TupleBefore(Ascending(p[1]), Ascending(p[2]))})

Varies(judged) ==
    Cardinality({{judged[c].partition.all[n] : n \in DOMAIN judged[c].partition.all} :
                    c \in DOMAIN judged}) > 1

\* _board_tightness: each reference scored against the others.
Loo(d, refs, k) ==
    [r \in refs |-> PCount(d, refs \ {r}, r, k)]

\* _board_leverage: the sum of those counts with one reference removed, and the
\* order of the references by it (counts over n - 1 references, so sums compare
\* as means do); a board of two has none.
Leverage(d, refs, k) ==
    LET without == [r \in refs |->
                      MapThenSumSet(LAMBDA x : PCount(d, refs \ {r, x}, x, k), refs \ {r})]
    IN IF Cardinality(refs) < 3 THEN <<>>
       ELSE InOrder(refs, {p \in refs \X refs :
              \/ without[p[1]] > without[p[2]]
              \/ without[p[1]] = without[p[2]] /\ p[1] < p[2]})

Flags(d, board, groups, judged) ==
    LET loo == Loo(d, board.refs, board.k)
        neff == NEff(groups)
        n == Cardinality(board.refs)
    IN {f \in {"degenerate_board", "near_duplicate_references",
               "fewer_references_than_the_estimator_wants",
               "leverage_unavailable_on_a_two_reference_board",
               "category_partition_varies_by_candidate"} :
          \/ f = "degenerate_board" /\ Cardinality({loo[r] : r \in board.refs}) = 1
          \/ f = "near_duplicate_references" /\ neff[1] < n * neff[2]
          \/ f = "fewer_references_than_the_estimator_wants" /\ n <= board.kCap
          \/ f = "leverage_unavailable_on_a_two_reference_board"
               /\ Leverage(d, board.refs, board.k) = <<>>
          \/ f = "category_partition_varies_by_candidate" /\ Varies(judged)}

-----------------------------------------------------------------------------
\* _build_assets: scored assets by rank and id, then abstained ones by id.
BuildAssets(judged, categories, scores, intervals, ranks) ==
    LET id(c) == CHOOSE n \in DOMAIN categories :
                    categories[n] = judged[c].partition.members
        scored == ByRank(ranks)
        abstained == Ascending(DOMAIN judged \ DOMAIN scores)
    IN [n \in DOMAIN scored |->
          [asset |-> scored[n], state |-> "scored", category |-> id(scored[n]),
           nLocal |-> Cardinality(judged[scored[n]].partition.members),
           score |-> scores[scored[n]], style |-> scores[scored[n]],
           interval |-> intervals[scored[n]], rank |-> ranks[scored[n]],
           exemplars |-> judged[scored[n]].exemplars]]
       \o [n \in DOMAIN abstained |->
          [asset |-> abstained[n], state |-> "abstained", category |-> id(abstained[n]),
           reason |-> judged[abstained[n]].verdict, style |-> <<>>,
           exemplars |-> judged[abstained[n]].exemplars]]

\* The coarsest of fractions.
Coarsest(S) == CHOOSE p \in S : \A q \in S : AtLeast(p, q)

\* _cmd_rank, from the scored candidates: refuses when a category cannot carry
\* an interval or holds no reference at all; otherwise the report.
Report(d, board, groups, judged, alpha, mode) ==
    LET cands == DOMAIN judged
        admitted == {c \in cands : judged[c].verdict = "none"}
        members(c) == judged[c].partition.members
        scores == [c \in admitted |->
                     <<PCount(d, members(c), c, board.k), Cardinality(members(c)) + 1>>]
        intervals == [c \in admitted |->
                        [ends |-> LooInterval(d, members(c), c, board.k, board.level),
                         level |-> board.level]]
        ranks == CompetitionRanks(scores)
        pairs == TiePairs(judged, scores, ranks, mode)
        difference(p) == PairedInterval(d, members(p[1]), p[1], p[2], board.k, board.level)
        categories == BoardCategories(judged)
    IN IF \/ \E c \in admitted : Cardinality(members(c)) < 2
          \/ \E c \in cands : members(c) = {}
       THEN [refused |-> TRUE]
       ELSE [references |-> Ascending(board.refs), k |-> board.k, kCap |-> board.kCap,
             level |-> board.level, requested |-> alpha,
             supported |-> Coarsest({judged[c].supported : c \in cands}),
             categories |-> categories,
             assets |-> BuildAssets(judged, categories, scores, intervals, ranks),
             compared |-> pairs,
             ties |-> {p \in pairs : difference(p).low <= 0 /\ 0 <= difference(p).high},
             leverage |-> Leverage(d, board.refs, board.k),
             flags |-> Flags(d, board, groups, judged)]

RankWithin(d, h, board, groups, cands, alpha, mode) ==
    Report(d, board, groups,
           [c \in cands |-> ScoreCandidate(d, h, board, groups, c, alpha)], alpha, mode)

\* _cmd_rank
Rank(d, h, board, cands, alpha, mode) ==
    RankWithin(d, h, board, DuplicateGroups(d, board.refs, board.dupCut), cands, alpha, mode)

-----------------------------------------------------------------------------
\* report.py: the cross-field rules of a 1.1 report (the reference catalogue,
\* k, unique assets, complete and ordered exemplars, the repeated score, the
\* fit policy's level), and the candidate evidence of write_report.
UniqueExemplars(report) ==
    \A n \in DOMAIN report.assets : IsInjective(report.assets[n].exemplars)

ExemplarsOrdered(d, report, asset) ==
    /\ Len(asset.exemplars) = Smaller(3, Len(report.references))
    /\ ToSet(asset.exemplars) \subseteq ToSet(report.references)
    /\ \A i \in 1..(Len(asset.exemplars) - 1) :
          LET p == asset.exemplars[i]  q == asset.exemplars[i + 1]
          IN d[asset.asset][p] < d[asset.asset][q]
             \/ (d[asset.asset][p] = d[asset.asset][q] /\ p < q)

CrossFields(d, report) ==
    /\ IsInjective(report.references)
    /\ report.k = Smaller(report.kCap, Len(report.references) - 1)
    /\ IsInjective([n \in DOMAIN report.assets |-> report.assets[n].asset])
    /\ UniqueExemplars(report)
    /\ \A n \in DOMAIN report.assets :
          LET asset == report.assets[n]
          IN /\ ExemplarsOrdered(d, report, asset)
             /\ IF asset.state = "scored"
                  THEN asset.style = asset.score /\ asset.interval.level = report.level
                  ELSE asset.style = <<>>

\* write_report, the evidence being the assets the caller read.
Writes(d, report, evidence) ==
    /\ CrossFields(d, report)
    /\ IsInjective(evidence)
    /\ ToSet(evidence) = {report.assets[n].asset : n \in DOMAIN report.assets}
=============================================================================
