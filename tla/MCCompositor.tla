----------------------------- MODULE MCCompositor -----------------------------
(***************************************************************************)
(* Encoded images and localized edits over bounded inputs.                 *)
(*                                                                         *)
(* A medium is a list of PNG chunks or JPEG markers with what the decoder  *)
(* makes of them.  An edit runs from the encoded source to the insert; an  *)
(* input hands Compose some artifacts of one edit and the others of an     *)
(* edit that differs from it in one respect.                               *)
(***************************************************************************)
EXTENDS Compositor

Part(kind, value) == [kind |-> kind, whole |-> TRUE, value |-> value]
Torn(kind) == [kind |-> kind, whole |-> FALSE, value |-> ""]
Header(kind, value) == Part(kind, value) @@ [w |-> 2, h |-> 1]
Exif(kind, orientation) == Part(kind, "small") @@ [orientation |-> orientation]
ICC(seq, total, part) ==
    Part("ICC", "") @@ [seq |-> seq, total |-> total, part |-> part]

PngParts ==
    {Part("sRGB", "srgb"), Part("sRGB", "bad"), Part("iCCP", "srgb"), Part("iCCP", "other"),
     Part("gAMA", "srgb"), Part("gAMA", "other"), Part("gAMA", "short"),
     Part("cHRM", "srgb"), Part("cHRM", "other"), Part("HDR", ""), Part("IDAT", ""),
     Exif("eXIf", 6), Exif("eXIf", 9), Part("text", ""), Torn("IDAT"),
     Header("IHDR", "rgb8"), Part("IEND", "empty")}

JpegParts ==
    {Header("SOF", "8 bits"), Header("SOF", "deep"), Part("EOI", ""), Part("RST", ""),
     ICC(1, 2, <<1>>), ICC(2, 2, <<2>>), ICC(1, 1, <<1, 2>>), ICC(1, 1, <<2, 1>>),
     [ICC(1, 2, <<1>>) EXCEPT !.value = "large"],
     Exif("Exif", 8), Part("MPF", ""), Part("APP", ""), Torn("APP")}

ScanParts ==
    {Part("stuffed", ""), Part("RST", ""), Part("SOS", ""), Part("EOI", ""), Part("APP", ""),
     ICC(1, 1, <<1, 2>>), Torn("SOS")}

UpTo(n, S) == UNION {[1..k -> S] : k \in 0..n}

Pngs ==
    {<<Header("IHDR", value)>> \o m \o <<end>> :
        m \in UpTo(2, PngParts) \cup [1..3 -> {p \in PngParts : p.value = "srgb"}],
        value \in {"rgb8"}, end \in {Part("IEND", "empty")}}
    \cup {<<Header("IHDR", v)>> \o m \o e :
             v \in {"rgb8", "depth", "method"}, m \in UpTo(1, PngParts),
             e \in {<<>>, <<Part("IEND", "empty")>>, <<Part("IEND", "full")>>,
                    <<Part("IDAT", ""), Part("IDAT", ""), Part("IDAT", ""),
                      Part("IEND", "empty")>>}}

Jpegs ==
    {h \o f \o <<Part("SOS", "")>> \o t \o <<Part("EOI", "")>> :
        h \in UpTo(2, JpegParts), f \in {<<>>, <<Header("SOF", "8 bits")>>},
        t \in UpTo(1, ScanParts)}

Picture(w, h, first) ==
    [w |-> w, h |-> h,
     px |-> [p \in (0..(w - 1)) \X (0..(h - 1)) |-> first + p[2] * w + p[1]]]

\* What the decoder finds in whole parts: the orientation of the EXIF block and
\* the colour profile that was embedded.
Facts == [readable |-> TRUE, frames |-> 1, opaque |-> TRUE, mode |-> "RGB", warns |-> FALSE]

OddFacts ==
    {[Facts EXCEPT !.readable = FALSE], [Facts EXCEPT !.frames = 2],
     [Facts EXCEPT !.opaque = FALSE], [Facts EXCEPT !.mode = "CMYK"],
     [Facts EXCEPT !.mode = "L"], [Facts EXCEPT !.mode = "LA"], [Facts EXCEPT !.warns = TRUE]}

Decoded(parts, facts) ==
    LET exif == {i \in DOMAIN parts : parts[i].kind \in {"eXIf", "Exif"}}
        embedded == {i \in DOMAIN parts : parts[i].kind \in {"iCCP", "ICC"}}
    IN facts @@ Picture(2, 1, 1)
       @@ [orientation |-> IF exif = {} THEN 1 ELSE parts[Min(exif)].orientation,
           profile |-> IF embedded = {} THEN <<>> ELSE Pinned]

Medium(format, parts, facts) ==
    [format |-> format, parts |-> parts, image |-> Decoded(parts, facts)]

Media ==
    {Medium("PNG", p, Facts) : p \in Pngs} \cup {Medium("JPEG", p, Facts) : p \in Jpegs}
    \cup {Medium("PNG", p, f) : p \in {q \in Pngs : Len(q) <= 3}, f \in OddFacts}

-----------------------------------------------------------------------------
Of(parts, kinds) == {i \in DOMAIN parts : parts[i].kind \in kinds}
AtMostOne(S) == Cardinality(S) <= 1

\* The PNG profile, with no order but that of the first and the last chunk.
DeclaredPng(parts) ==
    LET n == Len(parts)
        profiles == Of(parts, {"iCCP"})
    IN /\ n <= MaxParts
       /\ \A i \in 1..n : parts[i].whole
       /\ Of(parts, {"IHDR"}) = {1} /\ parts[1].value = "rgb8"
       /\ Of(parts, {"IEND"}) = {n} /\ parts[n].value = "empty"
       /\ Of(parts, {"text", "animation", "unknown critical", "HDR"}) = {}
       /\ \A k \in {"sRGB", "iCCP", "gAMA", "cHRM", "eXIf"} : AtMostOne(Of(parts, {k}))
       /\ \A i \in Of(parts, {"sRGB", "iCCP", "gAMA", "cHRM"}) : parts[i].value = "srgb"
       /\ Of(parts, {"gAMA", "cHRM"}) # {} => Of(parts, {"sRGB"}) # {}
       /\ AtMostOne(Of(parts, {"sRGB", "iCCP"}))

\* The JPEG profile: application data only before the scan, one EOI after it,
\* and a colour profile within its bound that is complete and, in the order of its
\* numbers, the registered one.
DeclaredJpeg(parts) ==
    LET n == Len(parts)
        scan == Min(Of(parts, {"SOS"}))
        frames == {i \in Of(parts, {"SOF"}) : i < scan}
        profile == Of(parts, {"ICC"})
        total == parts[Min(profile)].total
    IN /\ Of(parts, {"SOS"}) # {}
       /\ Cardinality(DOMAIN parts \ Of(parts, {"stuffed"})) <= MaxParts
       /\ \A i \in 1..n : parts[i].whole
       /\ {i \in Of(parts, {"EOI"}) : i > scan} = {n}
       /\ \A i \in Of(parts, {"ICC", "Exif", "APP", "MPF"}) : i < scan
       /\ Of(parts, {"MPF"}) = {} /\ AtMostOne(Of(parts, {"Exif"}))
       /\ frames # {} /\ parts[Max(frames)].value = "8 bits"
       /\ \A i \in profile : parts[i].value # "large"
       /\ profile # {} =>
            /\ \A i \in profile : parts[i].total = total
            /\ {parts[i].seq : i \in profile} = 1..total /\ Cardinality(profile) = total
            /\ FlattenSeq([k \in 1..total |->
                  parts[CHOOSE i \in profile : parts[i].seq = k].part]) = Pinned

\* Where EXIF puts the stored pixel <<x, y>> of a picture w by h: the visual
\* side of its row 0 and of its column 0.
Shown(o, x, y, w, h) ==
    LET row == CASE o \in {1, 2} -> <<2, y>> [] o \in {3, 4} -> <<2, h - 1 - y>>
                 [] o \in {5, 8} -> <<1, y>> [] OTHER -> <<1, h - 1 - y>>
        column == CASE o = 1 \/ o = 4 -> x [] o = 2 \/ o = 3 -> w - 1 - x
                    [] o = 5 \/ o = 6 -> x [] OTHER -> w - 1 - x
    IN IF row[1] = 2 THEN <<column, row[2]>> ELSE <<row[2], column>>

-----------------------------------------------------------------------------
Rect(l, t, r, b) == [left |-> l, top |-> t, right |-> r, bottom |-> b]

Edits ==
    [source : {0, 20}, raw : {20, 40}, size : {<<3, 2>>, <<4, 3>>},
     crop : {Rect(0, 0, 3, 2), Rect(1, 0, 2, 2)},
     region : {Rect(1, 0, 3, 2), Rect(0, 1, 2, 2)},
     session : {"s1", "s2"}, at : {1, 2}]

FirstEdits ==
    {e \in Edits : e.source = 0 /\ e.crop.left = 0 /\ e.session = "s1" /\ e.at = 1}

Aspects == {"source", "raw", "size", "crop", "region", "session", "at"}

Others(e) ==
    {f \in Edits : \E a \in Aspects : \A b \in Aspects : (f[b] # e[b]) <=> b = a}

\* What one edit produces, each artifact by the code that makes it: the source
\* and the packet, the provider's output, its two judgments, the confirmation
\* and the insert.
Confirm(e, source, mask, packet, raw, seen, locality) ==
    [principal |-> "user", session |-> e.session, intent |-> packet, raw |-> raw,
     raster |-> seen.raster, structural |-> seen.judgment, locality |-> locality,
     crop |-> e.crop, target |-> TargetRegion(e.region, source, mask), at |-> e.at]

Confirmed(source, mask, packet, raw, seen, locality, confirmation) ==
    [source |-> source, mask |-> mask, packet |-> packet,
     bundle |-> [packet |-> packet, receipts |-> {raw.receipt}, outputs |-> {raw}],
     raw |-> raw, bytes |-> raw.content,
     raster |-> seen.raster, structural |-> seen.judgment, locality |-> locality,
     confirmation |-> confirmation,
     insert |-> CompileInsert(seen.raster, raw, seen.judgment, locality, confirmation)]

Judged(e, source, mask, packet, raw, seen, locality) ==
    Confirmed(source, mask, packet, raw, seen, locality,
              Confirm(e, source, mask, packet, raw, seen, locality))

Verified(e, source, mask, packet, raw, seen) ==
    Judged(e, source, mask, packet, raw, seen,
           RawLocality(source, seen.raster, mask, raw, seen))

Provided(e, source, mask, packet, raw) ==
    Verified(e, source, mask, packet, raw,
             VerifyStructure(source, raw.receipt, 1, raw.content, raw))

Output(packet, receipt) ==
    [attempt |-> "a1", receipt |-> receipt, index |-> 1, intent |-> packet,
     content |-> receipt.outputs[1].content,
     media |-> CompileMedia(receipt, 1, receipt.outputs[1].content).inspection,
     eligible |-> TRUE]

ReceiptOf(bytes) ==
    [attempt |-> "a1", outputs |-> << [content |-> bytes, claim |-> "PNG"] >>]

Packet(e, source, mask) ==
    [principal |-> "user", session |-> e.session, source |-> source,
     mask |-> mask, region |-> e.region]

Asked(e, source, mask, packet) ==
    Provided(e, source, mask, packet,
             Output(packet, ReceiptOf(EncodePng(Picture(e.size[1], e.size[2], e.raw)))))

FromSource(e, source, mask) == Asked(e, source, mask, Packet(e, source, mask))

World(e) ==
    LET bytes == EncodePng(Picture(3, 2, e.source))
        source == Compile(bytes, bytes).raster
    IN FromSource(e, source, RectangleMask(source, e.region))

Artifacts == <<"source", "mask", "packet", "bundle", "raw", "bytes", "raster", "structural",
               "locality", "confirmation", "insert">>

\* One artifact, or everything from one artifact on.
Swaps == {{}} \cup {{Artifacts[i]} : i \in 1..11}
         \cup {{Artifacts[j] : j \in i..11} : i \in 2..10}

Mixed(one, other, taken) ==
    [f \in ToSet(Artifacts) |-> IF f \in taken THEN other[f] ELSE one[f]]

\* The edit whose confirmation is handed over.
Handed(in) == IF "confirmation" \in in.taken THEN in.other ELSE in.edit

\* The sample of a span under the centre of a target pixel.
UnderCentre(i, sourceSpan, targetSpan) ==
    CHOOSE s \in 0..(sourceSpan - 1) :
        /\ 2 * targetSpan * s <= (2 * i + 1) * sourceSpan
        /\ (2 * i + 1) * sourceSpan < 2 * targetSpan * (s + 1)
=============================================================================
