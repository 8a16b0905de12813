---------------------------- MODULE MCAlgorithms ----------------------------
(***************************************************************************)
(* The pure parts of the program over bounded inputs: the attempt reducer  *)
(* (MCAttemptState), conformal scoring, abstention, ranking and the board  *)
(* artifact.  A behaviour feeds the reducer one history, or picks one      *)
(* input of one algorithm and stops.                                       *)
(*                                                                         *)
(* Distances are arbitrary symmetric integers: adding a constant and       *)
(* scaling changes no comparison the code makes, so each such matrix       *)
(* stands for embeddings whose cosine distances are close to one another.  *)
(***************************************************************************)
EXTENDS MCAttemptState, MCConformal, Ranking, BrandBoard, MCCompositor

Start == [kind |-> "start"]

\* A symmetric matrix from its upper triangle.
Matrix(n, upper) ==
    [i \in 1..n |-> [j \in 1..n |->
        IF i = j THEN 0 ELSE upper[<<Min({i, j}), Max({i, j})>>]]]

Matrices(n, values) == {Matrix(n, u) : u \in [Pairs(1..n) -> values]}

Hashes == <<3, 1, 5, 2, 4>>

SuppliesReducer == input = Start /\ Supply /\ UNCHANGED input

Fresh == input = Start /\ history = <<>>

Pick(value) == input' = value /\ UNCHANGED history

PicksBag ==
    /\ Fresh
    /\ \E d \in Matrices(4, 1..3), k \in 1..3 :
           Pick([kind |-> "bag", bag |-> 1..4, d |-> d, k |-> k])

PicksPartition ==
    /\ Fresh
    /\ \E d \in Matrices(4, 1..3), h \in {<<1, 2, 3, 4>>, <<2, 4, 1, 3>>}, minSize \in 1..3 :
           Pick([kind |-> "partition", d |-> d, h |-> h, cut |-> 2, minSize |-> minSize])

\* Three references, up to their order, and two candidates; the report is the
\* run's, asked for every pair of assets.
PicksRank ==
    /\ Fresh
    /\ \E u \in [(Pairs(1..5) \ {<<4, 5>>}) -> {1, 3}],
          alpha \in {<<1, 4>>, <<1, 3>>}, minSize \in 1..2, dupCut \in {0, 1} :
           LET d == Matrix(5, u @@ (<<4, 5>> :> 1))
               board == [refs |-> 1..3, k |-> 2, kCap |-> 5, cut |-> 2, dupCut |-> dupCut,
                         minSize |-> minSize, level |-> <<1, 2>>, multiplier |-> <<3, 2>>]
           IN /\ d[1][2] <= d[1][3] /\ d[1][3] <= d[2][3]
              /\ Pick([kind |-> "rank", d |-> d, board |-> board, alpha |-> alpha,
                       report |-> Rank(d, Hashes, board, {4, 5}, alpha, "all")])

Fit == [k |-> 2, kCap |-> 5, cut |-> 2, dupCut |-> 1, minSize |-> 1,
        level |-> <<1, 2>>, multiplier |-> <<3, 2>>]

RowDistances(rows) ==
    [i \in DOMAIN rows |-> [j \in DOMAIN rows |->
        IF rows[i] < rows[j] THEN rows[j] - rows[i] ELSE rows[i] - rows[j]]]

\* kish_n_eff over the duplicate groups of the rows.
RowsNEff(rows, fit) ==
    NEff(DuplicateGroups(RowDistances(rows), DOMAIN rows, fit.dupCut))

\* A board of three references, and the same file with its columns mixed up or
\* its policy altered, the digest of its rows brought up to date.
PicksArtifact ==
    /\ Fresh
    /\ \E rows, newRows \in [1..3 -> 0..2], hashes \in {<<"a", "b", "c">>, <<"a", "a", "b">>},
          newHashes \in {<<"a", "b", "c">>, <<"b", "a", "c">>, <<"a", "b", "a">>},
          dupCut \in {1, 2}, cut \in {1, 2} :
           /\ \A i \in 1..2 : rows[i] <= rows[i + 1]
           /\ Pick([kind |-> "artifact", rows |-> rows, hashes |-> hashes,
                    newRows |-> newRows, newHashes |-> newHashes,
                    newFit |-> [Fit EXCEPT !.dupCut = dupCut, !.cut = cut]])

PicksMedium == Fresh /\ \E m \in Media : Pick([kind |-> "medium", medium |-> m])

PicksComposite ==
    /\ Fresh
    /\ \E e \in FirstEdits, taken \in Swaps : \E f \in Others(e) :
          Pick([kind |-> "composite", edit |-> e, other |-> f, taken |-> taken])

PicksEncoding ==
    /\ Fresh
    /\ \E w \in 1..4, h \in 1..4, block \in 1..14 :
          Pick([kind |-> "encoding", w |-> w, h |-> h, block |-> block])

AlgorithmsInit == MCInit /\ input = Start

AlgorithmsNext ==
    \/ SuppliesReducer \/ PicksBag \/ PicksArtifact \/ PicksPartition
    \/ PicksMedium \/ PicksComposite \/ PicksEncoding \/ PicksRank

AlgorithmsSpec == AlgorithmsInit /\ [][AlgorithmsNext]_<<history, input>>

-----------------------------------------------------------------------------
SwapItems(x, i) == [x EXCEPT ![i] = x[i + 1], ![i + 1] = x[i]]
SwapIn(S, i) == {IF j = i THEN i + 1 ELSE IF j = i + 1 THEN i ELSE j : j \in S}

CategorySets(d, h) ==
    LET clusters == Categories(d, 1..4, h, input.cut, input.minSize)
    IN {clusters[id] : id \in DOMAIN clusters}

\* Connected by a chain of pairs within the cut.
Linked(d, S, cut) ==
    \A A \in (SUBSET S) \ {{}, S} : \E i \in A, j \in S \ A : d[i][j] <= cut

\* References are grouped as a set.  partition_categories: exchanging two
\* neighbouring rows, the candidate's included, exchanges them in the categories
\* and changes nothing else, and no category is left below the minimum unless it
\* is alone.  duplicate_groups returns the connected components, whatever the
\* order in which close pairs are met: they partition the references, every one
\* is connected, and no close pair is split.
GroupingIgnoresOrder ==
    input.kind = "partition" =>
        /\ \A i \in 1..3 :
              LET swapped == [j \in 1..4 |-> SwapItems(SwapItems(input.d, i)[j], i)]
              IN CategorySets(swapped, SwapItems(input.h, i))
                   = {SwapIn(S, i) : S \in CategorySets(input.d, input.h)}
        /\ \A S \in CategorySets(input.d, input.h) :
              Cardinality(S) >= input.minSize \/ S = 1..4
        /\ \A cut \in 1..2 :
              LET groups == DuplicateGroups(input.d, 1..4, cut)
              IN /\ UNION groups = 1..4
                 /\ \A g \in groups : Linked(input.d, g, cut)
                 /\ \A f, g \in groups : f # g =>
                       f \cap g = {} /\ \A a \in f, b \in g : input.d[a][b] > cut

Reported == input.kind = "rank" /\ ~Refused(input.report)

\* What a scored asset was compared with could have shown it at the requested
\* level (ADR-0004, ADR-0005): the smallest p-value its category can express
\* is at most alpha.  And asking again at the report's supported alpha
\* refuses no asset for its resolution.
AlphaIsHonoured ==
    Reported =>
        LET report == input.report
            groups == DuplicateGroups(input.d, input.board.refs, input.board.dupCut)
        IN \A n \in DOMAIN report.assets :
              LET asset == report.assets[n]
              IN /\ asset.state = "scored" =>
                      AtLeast(input.alpha, <<1, asset.nLocal + 1>>)
                 /\ ScoreCandidate(input.d, Hashes, input.board, groups,
                        asset.asset, report.supported).verdict \in {"none", "far_outlier"}

\* The report of a run satisfies the writer's own rules, a rank is one more
\* than the number of better scores, an asset's category is the references it
\* was scored against, and ties were only sought between assets scored against
\* the same ones.
ReportIsCoherent ==
    Reported =>
        LET report == input.report
            scored == {n \in DOMAIN report.assets : report.assets[n].state = "scored"}
            category(a) == (CHOOSE x \in ToSet(report.assets) : x.asset = a).category
        IN /\ Writes(input.d, report, <<4, 5>>)
           /\ \A n \in scored :
                 /\ report.assets[n].rank = 1 + Cardinality({m \in scored :
                        Greater(report.assets[m].score, report.assets[n].score)})
                 /\ Cardinality(report.categories[report.assets[n].category])
                        = report.assets[n].nLocal
           /\ \A p \in report.compared : category(p[1]) = category(p[2])

\* Everything a score is computed from: the references with their rows, the
\* model, the policy and the effective size.
ScoredFrom(b) == <<Column([j \in DOMAIN b.rows |-> <<b.hashes[j], b.rows[j]>>]),
                   b.model, b.fit, b.neff>>

\* board_id binds everything scores depend on: a file that read_board accepts
\* under the id of another, and whose n_eff rank recomputes, holds the same
\* references with the same rows under the same policy, in whatever order.
\* And what write_board wrote is read back as it was built.
BoardIdentityBindsScores ==
    input.kind = "artifact" =>
        LET built == BuildBoard(<<"x", "y", "z">>, input.hashes, input.rows, "m", Fit,
                                RowsNEff(input.rows, Fit), <<>>)
            artifact == WriteBoard(built)
            edited == [artifact EXCEPT
                         !.rows = input.newRows, !.hashes = input.newHashes,
                         !.fit = input.newFit, !.neff = RowsNEff(input.newRows, input.newFit),
                         !.digest = EmbeddingDigest(input.newHashes, input.newRows)]
            read == ReadBoard(edited, FALSE, Fit)
        IN /\ ReadBoard(artifact, FALSE, Fit) = built
           /\ ~Refused(read) => ScoredFrom(read) = ScoredFrom(built)

\* An encoded image becomes a raster exactly when its container declares one
\* opaque sRGB still, whatever the order of the declarations, and the decoder
\* agrees; and the raster is the picture the way EXIF says it is shown, once.
CompilesAsDeclared ==
    input.kind = "medium" =>
        LET medium == input.medium
            image == medium.image
            result == Compile(medium, medium)
            declared == CASE medium.format = "PNG" -> DeclaredPng(medium.parts)
                          [] medium.format = "JPEG" -> DeclaredJpeg(medium.parts)
        IN /\ ~IsFailed(result) <=>
                /\ declared /\ image.readable /\ image.frames = 1 /\ image.opaque
                /\ ~image.warns /\ image.orientation \in 1..8
                /\ \/ image.mode \in {"RGB", "RGBA"}
                   \/ image.mode \in {"L", "LA"} /\ image.profile = <<>>
           /\ ~IsFailed(result) =>
                \A p \in DOMAIN image.px :
                    result.raster.px[Shown(image.orientation, p[1], p[2], image.w, image.h)]
                        = image.px[p]

RecordedAs(compiled, result, mask) ==
    IsFailed(compiled) =>
        /\ ~IsFailed(result)
        /\ result.judgment.state = "fail" /\ result.judgment.reason = compiled.error
        /\ LocalityNotRun(result.judgment, mask).state = "not_run"

\* A provider payload that its receipt binds and that does not compile is
\* recorded: verify_output_structure mints a structural judgment that fails with
\* the compiler's reason, and the locality judgment is paired with it.
FailureIsRecorded ==
    input.kind = "medium" =>
        LET medium == input.medium
            source == Raster("source", Picture(2, 1, 1))
            receipt == [attempt |-> "a1",
                        outputs |-> << [content |-> medium, claim |-> medium.format] >>]
        IN RecordedAs(Compile(medium, medium),
                      VerifyStructure(source, receipt, 1, medium, NoOccurrence),
                      RectangleMask(source, Rect(0, 0, 1, 1)))

\* The byte count that a canonical PNG is validated against is the length the
\* encoder produces: signature, IHDR, IDAT and IEND, with the deflate stream cut
\* into blocks that cover the scanlines and end, once, in a final one.
ByteCountIsEncoded ==
    input.kind = "encoding" =>
        LET filtered == input.h * (input.w * 3 + 1)
            blocks == StoredBlocks(filtered, input.block)
            deflate == 2 + MapThenSumSet(LAMBDA b : 5 + b.size, blocks) + 4
        IN /\ PngByteCount(input.w, input.h, input.block) = 8 + (12 + 13) + (12 + deflate) + 12
           /\ {b \in blocks : b.final} = {b \in blocks : \A c \in blocks : c.offset <= b.offset}
           /\ UNION {b.offset..(b.offset + b.size - 1) : b \in blocks} = 0..(filtered - 1)

\* The output of an edit: the source, with the crop of the raw picture resampled
\* into the region.
ShowsCrop(output, e, raw, source) ==
    \A p \in DOMAIN source.px :
        output.px[p] =
            IF In(p, e.region)
            THEN raw.px[<<e.crop.left + UnderCentre(p[1] - e.region.left,
                              Width(e.crop), Width(e.region)),
                          e.crop.top + UnderCentre(p[2] - e.region.top,
                              Height(e.crop), Height(e.region))>>]
            ELSE source.px[p]

AcceptedOnlyAs(result, e) ==
    /\ input.taken = {} => ~IsFailed(result)
    /\ ~IsFailed(result) =>
         ShowsCrop(result.output, e, Picture(e.size[1], e.size[2], e.raw),
                   Picture(3, 2, e.source))

\* Whatever mixture of two edits' artifacts Compose accepts, outside the region
\* the output is the source and inside it is the confirmed crop of the bytes the
\* provider's receipt binds, each pixel the one under the centre of its target;
\* an unmixed edit is accepted.
CompositeIsTheConfirmedCrop ==
    input.kind = "composite" =>
        AcceptedOnlyAs(Compose(Mixed(World(input.edit), World(input.other), input.taken)),
                       Handed(input))

RepeatedWith(x, c) ==
    [x EXCEPT !.confirmation = c,
              !.insert = CompileInsert(x.raster, x.raw, x.structural, x.locality, c)]

\* "one" repeats the confirmation of "first" when that one stands.
Resolved(first, one, other) ==
    /\ ~IsFailed(ResolveReplay(first, Compose(other).occurrence))
    /\ input.edit.at # input.other.at =>
         ResolveReplay(first,
             Compose(RepeatedWith(other,
                 ResolveConfirmation(one.confirmation, other.confirmation))).occurrence)
           = first

OneOutput(one, other) == Resolved(Compose(one).occurrence, one, other)

\* One operation has one output: two edits whose compositor keys agree resolve
\* to the first occurrence and never conflict, and an edit that repeats a
\* confirmation later, resolved to the first one, repeats its occurrence.
OneKeyOneOutput ==
    (input.kind = "composite" /\ input.taken = {}) =>
        OneOutput(World(input.edit), World(input.other))
=============================================================================
