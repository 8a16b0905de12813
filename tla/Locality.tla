------------------------------ MODULE Locality ------------------------------
(***************************************************************************)
(* Encoded image to canonical raster, and the two locality verifiers       *)
(* (src/moodboard/locality.py, locality_contracts.py).                     *)
(*                                                                         *)
(* A payload is [format, parts, image]: the chunks of a PNG after its      *)
(* signature or the markers of a JPEG after its SOI, which the preflight   *)
(* scans, and what the decoder (external) makes of the same bytes.  A part *)
(* is [kind, whole, value]; a colour is the one the pinned profile gives   *)
(* it; pixels are indexed <<x, y>> from 0.                                 *)
(* A digest is modelled as the value it is computed from, so an artifact   *)
(* carries the artifacts it binds, and validating one (its digest against  *)
(* its fields) is what the value's own shape still has to satisfy.         *)
(***************************************************************************)
EXTENDS Integers, Sequences, FiniteSets, SequencesExt, FiniteSetsExt

CONSTANTS MaxSide, MaxPixels, MaxParts    \* the compiler manifest's bounds

ASSUME BoundsAssumption == {MaxSide, MaxPixels, MaxParts} \subseteq Nat

Failed(code) == [error |-> code]
IsFailed(r) == "error" \in DOMAIN r

\* The first code of a table of <<condition, code>>: the order of the checks.
FirstError(table) ==
    LET hits == {i \in DOMAIN table : table[i][1]}
    IN IF hits = {} THEN "none" ELSE table[Min(hits)][2]

\* _check_dimensions
DimensionError(w, h) ==
    FirstError(<< <<w <= 0 \/ h <= 0, "decode_failed">>,
                  <<w > MaxSide \/ h > MaxSide \/ w * h > MaxPixels,
                    "decode_limit_exceeded">> >>)

-----------------------------------------------------------------------------
\* _preflight_png, one chunk: what stops the scan, and what only withdraws the
\* support of the colour contract.
PngStart == [error |-> "none", n |-> 0, ended |-> FALSE, w |-> 0, h |-> 0, color |-> TRUE,
             srgb |-> FALSE, iccp |-> FALSE, gAMA |-> "none", cHRM |-> "none",
             exif |-> FALSE]

PartSize(c) == IF c.kind \in {"IHDR", "SOF"} THEN DimensionError(c.w, c.h) ELSE "none"

PngError(s, c, final) ==
    FirstError(<<
        <<s.n + 1 > MaxParts, "decode_limit_exceeded">>,
        <<~c.whole, "decode_failed">>,
        <<c.kind \in {"unknown critical", "animation", "text"}, "unsupported_format">>,
        <<c.kind = "IHDR" /\ s.n > 0, "decode_failed">>,
        <<PartSize(c) # "none", PartSize(c)>>,
        <<c.kind = "IHDR" /\ c.value = "method", "unsupported_format">>,
        <<c.kind = "iCCP" /\ c.value = "large", "decode_limit_exceeded">>,
        <<c.kind = "eXIf" /\ s.exif, "malformed_orientation">>,
        <<c.kind = "eXIf" /\ c.value = "large", "decode_limit_exceeded">>,
        <<c.kind = "IEND" /\ (c.value # "empty" \/ ~final), "decode_failed">> >>)

PngColor(s, c) ==
    CASE c.kind = "HDR" -> FALSE
      [] c.kind = "IHDR" -> c.value # "depth"
      [] c.kind = "sRGB" -> ~s.srgb /\ c.value = "srgb"
      [] c.kind = "iCCP" -> ~s.iccp /\ c.value = "srgb"
      [] c.kind \in {"gAMA", "cHRM"} -> s[c.kind] = "none" /\ c.value # "short"
      [] OTHER -> TRUE

PngStep(s, c, final) ==
    LET error == PngError(s, c, final)
        declares == c.kind \in {"gAMA", "cHRM"} /\ c.value # "short"
    IN IF s.error # "none" \/ s.ended THEN s
       ELSE IF error # "none" THEN [s EXCEPT !.error = error]
       ELSE [s EXCEPT !.n = @ + 1,
                      !.ended = c.kind = "IEND",
                      !.w = IF c.kind = "IHDR" THEN c.w ELSE @,
                      !.h = IF c.kind = "IHDR" THEN c.h ELSE @,
                      !.color = @ /\ PngColor(s, c),
                      !.srgb = @ \/ (c.kind = "sRGB" /\ c.value = "srgb"),
                      !.iccp = @ \/ c.kind = "iCCP",
                      !.gAMA = IF c.kind = "gAMA" /\ declares THEN c.value ELSE @,
                      !.cHRM = IF c.kind = "cHRM" /\ declares THEN c.value ELSE @,
                      !.exif = @ \/ c.kind = "eXIf"]

\* Faulty variant: gamma and chromaticities alone declare the colour space.
PngDeclaresLoosely(s) ==
    /\ s.color /\ ~(s.srgb /\ s.iccp)
    /\ \A k \in {"gAMA", "cHRM"} : s[k] \in {"none", "srgb"}

\* What the declarations must say of one another.
PngDeclares(s) ==
    /\ s.color /\ ~(s.srgb /\ s.iccp)
    /\ \A k \in {"gAMA", "cHRM"} : s[k] = "none" \/ (s.srgb /\ s[k] = "srgb")

PngContainer(s) ==
    IF s.error # "none" THEN Failed(s.error)
    ELSE IF s.w = 0 \/ ~s.ended THEN Failed("decode_failed")
    ELSE [format |-> "PNG", w |-> s.w, h |-> s.h, color |-> PngDeclares(s)]

PreflightPng(parts) ==
    LET after[n \in 0..Len(parts)] ==
          IF n = 0 THEN PngStart ELSE PngStep(after[n - 1], parts[n], n = Len(parts))
    IN PngContainer(after[Len(parts)])

-----------------------------------------------------------------------------
\* _preflight_jpeg, one marker before the scan.  A colour profile comes in
\* numbered segments [seq, total, part]; parts is what was kept by number.
JpegStart == [error |-> "none", n |-> 0, scan |-> 0, w |-> 0, h |-> 0, deep |-> FALSE,
              color |-> TRUE, total |-> 0, parts |-> <<>>, exif |-> FALSE]

Bare == {"SOI", "EOI", "RST", "TEM"}     \* markers without a length

ProfileFits(s, c) ==
    /\ c.seq \in 1..c.total
    /\ c.seq \notin DOMAIN s.parts
    /\ s.total \in {0, c.total}

\* What is kept of a profile is bounded: a segment is large when it brings the
\* kept bytes past the bound.
Overflows(s, c) == c.kind = "ICC" /\ c.value = "large" /\ ProfileFits(s, c)

JpegError(s, c) ==
    FirstError(<<
        <<s.n + 1 > MaxParts, "decode_limit_exceeded">>,
        <<c.kind \notin Bare /\ ~c.whole, "decode_failed">>,
        <<PartSize(c) # "none", PartSize(c)>>,
        <<c.kind = "MPF", "unsupported_format">>,
        <<Overflows(s, c), "decode_limit_exceeded">>,
        <<c.kind = "Exif" /\ s.exif, "malformed_orientation">>,
        <<c.kind = "Exif" /\ c.value = "large", "decode_limit_exceeded">> >>)

Keep(parts, c) ==
    [n \in DOMAIN parts \cup {c.seq} |-> IF n = c.seq THEN c.part ELSE parts[n]]

JpegStep(s, c, i) ==
    LET error == JpegError(s, c)
        keeps == c.kind = "ICC" /\ ProfileFits(s, c)
    IN IF s.error # "none" \/ s.scan # 0 THEN s
       ELSE IF error # "none" THEN [s EXCEPT !.error = error]
       ELSE [s EXCEPT !.n = @ + 1,
                      !.scan = IF c.kind = "SOS" THEN i ELSE 0,
                      !.w = IF c.kind = "SOF" THEN c.w ELSE @,
                      !.h = IF c.kind = "SOF" THEN c.h ELSE @,
                      !.deep = IF c.kind = "SOF" THEN c.value = "deep" ELSE @,
                      !.color = @ /\ (c.kind = "ICC" => keeps),
                      !.total = IF keeps THEN c.total ELSE @,
                      !.parts = IF keeps THEN Keep(@, c) ELSE @,
                      !.exif = @ \/ c.kind = "Exif"]

\* _jpeg_terminal_eoi: the first EOI after the scan starts; stuffed bytes are
\* no marker, restart markers are counted, and no application data may follow.
ScanError(n, c) ==
    FirstError(<<
        <<n > MaxParts, "decode_limit_exceeded">>,
        <<c.kind \notin Bare /\ ~c.whole, "decode_failed">>,
        <<c.kind = "Exif", "malformed_orientation">>,
        <<c.kind = "ICC", "unsupported_color_contract">>,
        <<c.kind \in {"MPF", "APP"}, "unsupported_format">> >>)

ScanStep(s, c, i) ==
    LET error == ScanError(s.n + 1, c)
    IN IF s.error # "none" \/ s.eoi # 0 \/ c.kind = "stuffed" THEN s
       ELSE IF error # "none" THEN [s EXCEPT !.error = error]
       ELSE [s EXCEPT !.n = @ + 1, !.eoi = IF c.kind = "EOI" THEN i ELSE 0]

TerminalEOI(parts, start, counted) ==
    LET after[n \in start..Len(parts)] ==
          IF n = start THEN [error |-> "none", n |-> counted, eoi |-> 0]
          ELSE ScanStep(after[n - 1], parts[n], n)
    IN after[Len(parts)]

Pinned == <<1, 2>>     \* the registered sRGB profile, which two segments can hold

JpegContainer(parts, s) ==
    LET tail == TerminalEOI(parts, s.scan, s.n)
    IN IF Last(parts).kind # "EOI" THEN Failed("decode_failed")
       ELSE IF s.error # "none" THEN Failed(s.error)
       ELSE IF s.scan = 0 THEN Failed("decode_failed")
       ELSE IF tail.error # "none" THEN Failed(tail.error)
       ELSE IF tail.eoi # Len(parts) \/ s.w = 0 THEN Failed("decode_failed")
       ELSE [format |-> "JPEG", w |-> s.w, h |-> s.h,
             color |-> /\ s.color /\ ~s.deep
                       /\ s.total # 0 => /\ DOMAIN s.parts = 1..s.total
                                         /\ FlattenSeq(s.parts) = Pinned]

PreflightJpeg(parts) ==
    LET after[n \in 0..(Len(parts) - 1)] ==
          IF n = 0 THEN JpegStart ELSE JpegStep(after[n - 1], parts[n], n)
    IN JpegContainer(parts, after[Len(parts) - 1])

\* _preflight: the signature chooses the scan (the bound on the bytes is left out
\* with the bytes).
Preflight(payload) ==
    CASE payload.format = "PNG" -> PreflightPng(payload.parts)
      [] payload.format = "JPEG" -> PreflightJpeg(payload.parts)
      [] OTHER -> Failed("unsupported_format")

-----------------------------------------------------------------------------
\* _apply_orientation: the eight EXIF orientations, applied once.
Turns(o) == o \in 5..8

Orient(image) ==
    LET w == image.w - 1
        h == image.h - 1
        at(x, y) == CASE image.orientation = 2 -> <<w - x, y>>
                      [] image.orientation = 3 -> <<w - x, h - y>>
                      [] image.orientation = 4 -> <<x, h - y>>
                      [] image.orientation = 5 -> <<y, x>>
                      [] image.orientation = 6 -> <<y, h - x>>
                      [] image.orientation = 7 -> <<w - y, h - x>>
                      [] image.orientation = 8 -> <<w - y, x>>
                      [] OTHER -> <<x, y>>
        width == IF Turns(image.orientation) THEN image.h ELSE image.w
        height == IF Turns(image.orientation) THEN image.w ELSE image.h
    IN [w |-> width, h |-> height,
        px |-> [p \in (0..(width - 1)) \X (0..(height - 1)) |-> image.px[at(p[1], p[2])]]]

\* _build_raster: the raster binds the bytes it was compiled from.
Raster(content, image) ==
    [content |-> content, w |-> image.w, h |-> image.h, px |-> image.px]

\* validate_raster_artifact
RasterOK(raster) == DOMAIN raster.px = (0..(raster.w - 1)) \X (0..(raster.h - 1))

\* _inspection: the dimensions before the orientation is known are the coded
\* ones.
Inspection(image, w, h) ==
    [frames |-> image.frames, w |-> w, h |-> h, mode |-> image.mode, opaque |-> image.opaque]

NotInspected == [frames |-> 0]

\* _convert_color: an embedded profile is the pinned one, on an RGB mode.
ColorError(image) ==
    FirstError(<<
        <<image.mode \notin {"L", "LA", "RGB", "RGBA"}, "unsupported_color_contract">>,
        <<image.profile # <<>> /\ (image.mode \notin {"RGB", "RGBA"}
                                   \/ image.profile # Pinned),
          "unsupported_color_contract">> >>)

\* _compile_locked: the decoded image against its container, in the order of the
\* checks.
DecodeError(image, container) ==
    FirstError(<<
        <<~image.readable, "decode_failed">>,
        <<image.w # container.w \/ image.h # container.h, "decode_failed">>,
        <<image.frames # 1, "unsupported_frame_count">>,
        <<image.orientation \notin 1..8, "malformed_orientation">>,
        <<~image.opaque, "non_opaque">>,
        <<~container.color, "unsupported_color_contract">>,
        <<ColorError(image) # "none", ColorError(image)>>,
        <<image.warns, "unsafe_decoder_warning">> >>)

Decode(payload, image, error) ==
    LET oriented == Orient(image)
        coded == Inspection(image, image.w, image.h)
        observed == Inspection(image, oriented.w, oriented.h)
    IN IF error # "none"
       THEN [error |-> error,
             inspection |-> CASE error = "decode_failed" -> NotInspected
                              [] error \in {"unsupported_frame_count",
                                            "malformed_orientation"} -> coded
                              [] OTHER -> observed]
       ELSE [inspection |-> observed, raster |-> Raster(payload, oriented)]

CompileContainer(payload, container) ==
    IF IsFailed(container) THEN [error |-> container.error, inspection |-> NotInspected]
    ELSE Decode(payload, payload.image, DecodeError(payload.image, container))

\* _compile: the payload against its claimed digest before anything is parsed.
Compile(payload, claimed) ==
    IF payload # claimed
    THEN [error |-> "content_sha256_mismatch", inspection |-> NotInspected]
    ELSE CompileContainer(payload, Preflight(payload))

-----------------------------------------------------------------------------
\* A rectangle [left, right) x [top, bottom) of a raster.
Inside(bounds, w, h) ==
    /\ 0 <= bounds.left /\ bounds.left < bounds.right /\ bounds.right <= w
    /\ 0 <= bounds.top /\ bounds.top < bounds.bottom /\ bounds.bottom <= h

In(p, bounds) ==
    /\ bounds.left <= p[1] /\ p[1] < bounds.right
    /\ bounds.top <= p[2] /\ p[2] < bounds.bottom

\* validate_mask_artifact: a binary plane over the whole raster, neither side
\* of it empty.
MaskOK(mask) ==
    /\ DOMAIN mask.bits = (0..(mask.w - 1)) \X (0..(mask.h - 1))
    /\ {mask.bits[p] : p \in DOMAIN mask.bits} = {0, 1}

\* compile_rectangle_mask
RectangleMask(source, bounds) ==
    LET mask == [w |-> source.w, h |-> source.h, source |-> source,
                 bits |-> [p \in DOMAIN source.px |-> IF In(p, bounds) THEN 1 ELSE 0]]
    IN IF ~Inside(bounds, source.w, source.h) \/ ~MaskOK(mask)
       THEN Failed("invalid_bounds") ELSE mask

-----------------------------------------------------------------------------
\* A receipt is [attempt, outputs], each output [content, claim]; an occurrence
\* is [attempt, receipt, index, intent, content, media, eligible].
\* compile_provider_output_media: the receipt binds the bytes, the claimed type
\* agrees with the signature, then the compiler's verdict (no remaining-work
\* budget: the verifiers pass none).
CompileMedia(receipt, index, payload) ==
    IF index \notin DOMAIN receipt.outputs THEN Failed("contract_mismatch")
    ELSE IF receipt.outputs[index].content # payload THEN Failed("provider_payload_mismatch")
    ELSE IF receipt.outputs[index].claim \notin {"none", payload.format}
            /\ payload.format \in {"PNG", "JPEG"}
         THEN Failed("provider_payload_mismatch")
    ELSE Compile(payload, payload)

\* _occurrence_binding: the occurrence names this receipt's output and records
\* what was measured of it now.
OccurrenceBinds(occurrence, receipt, index, payload, media) ==
    /\ occurrence.attempt = receipt.attempt
    /\ occurrence.receipt = receipt
    /\ occurrence.index = index
    /\ occurrence.eligible
    /\ occurrence.content = payload
    /\ occurrence.media = media.inspection

StructuralFailures ==
    {"decode_failed", "decode_limit_exceeded", "malformed_orientation",
     "unsupported_format", "unsafe_decoder_warning", "unsupported_frame_count",
     "non_opaque", "unsupported_color_contract"}

Measured(source, inspection, compiled) ==
    [sourceW |-> source.w, sourceH |-> source.h, compiled |-> compiled,
     inspection |-> inspection]

NoOccurrence == [none |-> TRUE]
NoRaster == [none |-> TRUE]

\* _validate_constraint, _validate_structural_constraint (judgment.py): what a
\* structural judgment must satisfy before it is sealed.  The inspection is
\* complete or absent by construction.
StructuralJudgmentOK(j) ==
    LET seen == j.measured.inspection
        decoded == seen # NotInspected
        compiled == j.measured.compiled
        sameSize == seen.w = j.measured.sourceW /\ seen.h = j.measured.sourceH
    IN /\ "occurrence" \in DOMAIN j.subject
             <=> (j.state = "pass" \/ j.reason = "dimension_mismatch")
       /\ compiled <=> j.raster # NoRaster
       /\ compiled => /\ decoded /\ seen.frames = 1 /\ seen.opaque
                      /\ seen.mode \in {"L", "LA", "RGB", "RGBA"}
                      /\ j.state = "pass" \/ j.reason = "dimension_mismatch"
       /\ j.state = "pass" => compiled /\ sameSize
       /\ j.reason = "dimension_mismatch" => compiled /\ ~sameSize
       /\ j.reason \in {"decode_failed", "decode_limit_exceeded"} => ~decoded
       /\ j.reason \in {"unsafe_decoder_warning", "unsupported_frame_count", "non_opaque",
                        "unsupported_color_contract"} => decoded
       /\ j.reason = "unsupported_frame_count" => seen.frames # 1
       /\ j.reason = "non_opaque" => ~seen.opaque

\* verify_output_structure: bytes that do not compile fail without an
\* occurrence, bytes that do need one that binds them; a compiled output of
\* other dimensions fails but keeps its raster.
JudgeStructure(source, receipt, index, payload, occurrence, media) ==
    LET judged(subject, state, reason, raster, compiled) ==
            LET judgment == [verifier |-> "structure", subject |-> subject, state |-> state,
                             reason |-> reason, source |-> source, content |-> payload,
                             raster |-> raster,
                             measured |-> Measured(source, media.inspection, compiled)]
            IN IF StructuralJudgmentOK(judgment)
               THEN [judgment |-> judgment, raster |-> raster]
               ELSE Failed("contract_mismatch")
    IN IF ~RasterOK(source) THEN Failed("contract_mismatch")
       ELSE IF IsFailed(media)
         THEN IF media.error \notin StructuralFailures THEN Failed(media.error)
              ELSE IF occurrence # NoOccurrence THEN Failed("invalid_payload_has_occurrence")
              ELSE judged([attempt |-> receipt.attempt, index |-> index, receipt |-> receipt],
                          "fail", media.error, NoRaster, FALSE)
       ELSE IF occurrence = NoOccurrence THEN Failed("output_occurrence_required")
       ELSE IF ~OccurrenceBinds(occurrence, receipt, index, payload, media)
         THEN Failed("output_occurrence_mismatch")
       ELSE IF media.raster.w = source.w /\ media.raster.h = source.h
         THEN judged([occurrence |-> occurrence], "pass", "none", media.raster, TRUE)
       ELSE judged([occurrence |-> occurrence], "fail", "dimension_mismatch",
                   media.raster, TRUE)

VerifyStructure(source, receipt, index, payload, occurrence) ==
    JudgeStructure(source, receipt, index, payload, occurrence,
                   CompileMedia(receipt, index, payload))

\* validate_locality_blocking_pair (judgment.py)
BlockingPair(structural, locality) ==
    /\ structural.verifier = "structure" /\ structural.state = "fail"
    /\ locality.verifier = "locality" /\ locality.state = "not_run"
    /\ locality.subject = structural.subject
    /\ locality.blocking = structural
    /\ locality.source = structural.source

\* build_locality_not_run: paired with one structural failure.
LocalityNotRun(structural, mask) ==
    IF \/ structural.verifier # "structure" \/ structural.state # "fail"
       \/ structural.source # mask.source
    THEN Failed("contract_mismatch")
    ELSE LET blocked == [verifier |-> "locality", subject |-> structural.subject,
                         state |-> "not_run", source |-> mask.source, mask |-> mask,
                         blocking |-> structural]
         IN IF BlockingPair(structural, blocked) THEN blocked ELSE Failed("contract_mismatch")

\* _measure_outside_mask_rgb_exact
ChangedOutside(source, output, mask) ==
    {p \in DOMAIN mask.bits : mask.bits[p] = 0 /\ source.px[p] # output.px[p]}

\* verify_outside_mask_rgb_exact
VerifyOutsideMask(source, output, mask, occurrence, structural) ==
    IF \/ ~occurrence.eligible
       \/ structural.verifier # "structure" \/ structural.state # "pass"
       \/ structural.subject # [occurrence |-> occurrence]
       \/ structural.source # source \/ structural.raster # output
       \/ structural.content # occurrence.content \/ output.content # occurrence.content
       \/ source.w # output.w \/ source.h # output.h
       \/ mask.source # source
    THEN Failed("contract_mismatch")
    ELSE LET changed == ChangedOutside(source, output, mask)
         IN [verifier |-> "locality", subject |-> structural.subject,
             state |-> IF changed = {} THEN "pass" ELSE "fail",
             source |-> source, mask |-> mask, output |-> output,
             changed |-> Cardinality(changed)]
=============================================================================
