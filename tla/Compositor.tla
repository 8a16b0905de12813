----------------------------- MODULE Compositor -----------------------------
(***************************************************************************)
(* The deterministic compositor (src/moodboard/compositor.py): a confirmed *)
(* crop of the raw provider output, resampled to the edit rectangle and    *)
(* pasted over the source.  Everything the caller hands in is replayed     *)
(* from what it is bound to before a pixel is copied.                      *)
(*                                                                         *)
(* A packet is [principal, session, source, mask, region]; its identity is *)
(* itself, like every other digest's (see Locality).  A provider bundle is *)
(* [packet, receipts, outputs].                                            *)
(***************************************************************************)
EXTENDS Locality

Width(bounds) == bounds.right - bounds.left
Height(bounds) == bounds.bottom - bounds.top

\* compute_target_region_id
TargetRegion(bounds, source, mask) ==
    [bounds |-> bounds, source |-> source, mask |-> mask]

\* _expected_preview: what the user was shown.
Preview(c) ==
    [intent |-> c.intent, raw |-> c.raw, raster |-> c.raster, structural |-> c.structural,
     locality |-> c.locality, crop |-> c.crop, target |-> c.target]

\* compute_confirmation_key: the time of the confirmation is not part of it.
ConfirmationKey(c) == <<c.principal, c.session, c.intent, Preview(c)>>

\* resolve_insert_confirmation_replay: the first confirmation of a key stands.
ResolveConfirmation(existing, candidate) ==
    IF ConfirmationKey(existing) = ConfirmationKey(candidate) THEN existing ELSE candidate

\* validate_insert_compile_confirmation: the derived fields are functions of the
\* rest, which leaves the bounds.
MaxRegion == 32768
MaxPngPixels == 16777216

ConfirmationOK(c) ==
    /\ Inside(c.target.bounds, MaxRegion, MaxRegion)
    /\ Width(c.target.bounds) * Height(c.target.bounds) <= MaxPngPixels

\* validate_insert_artifact
InsertOK(insert) ==
    /\ DOMAIN insert.px = (0..(insert.w - 1)) \X (0..(insert.h - 1))
    /\ insert.w * insert.h <= MaxPngPixels
    /\ Inside(insert.crop, MaxRegion, MaxRegion)

-----------------------------------------------------------------------------
\* _canonical_png_bytes: the scanlines cut into stored blocks, the one that
\* reaches the end marked final.
StoredBlocks(filtered, block) ==
    LET size(k) == IF filtered - k * block < block THEN filtered - k * block ELSE block
        offsets == {k \in 0..filtered : k * block < filtered}
    IN {[offset |-> k * block, size |-> size(k),
         final |-> k * block + size(k) = filtered] : k \in offsets}

\* Faulty variant: one block more than the full ones.
ByteCountRoundedUp(w, h, block) ==
    h * (w * 3 + 1) + 5 * (((h * (w * 3 + 1)) \div block) + 1) + 63

\* _canonical_png_byte_count: the scanlines, five bytes of framing for each
\* block, and 63 for the signature, the chunks and the zlib envelope.
PngByteCount(w, h, block) ==
    LET filtered == h * (w * 3 + 1)
    IN filtered + 5 * ((filtered + block - 1) \div block) + 63

\* encode_canonical_png: one still frame without a profile, whose bytes are a
\* function of the pixels.
EncodePng(raster) ==
    [format |-> "PNG",
     parts |-> << [kind |-> "IHDR", whole |-> TRUE, value |-> "rgb8",
                   w |-> raster.w, h |-> raster.h],
                  [kind |-> "IDAT", whole |-> TRUE, value |-> ""],
                  [kind |-> "IEND", whole |-> TRUE, value |-> "empty"] >>,
     image |-> [readable |-> TRUE, w |-> raster.w, h |-> raster.h, px |-> raster.px,
                frames |-> 1, orientation |-> 1, opaque |-> TRUE, mode |-> "RGB",
                profile |-> <<>>, warns |-> FALSE]]

\* validate_png_artifact: nothing but the encoding of its own pixels.
PngOK(png) == png = EncodePng(png.image)

-----------------------------------------------------------------------------
\* Faulty variant: the insert and its confirmation are left out.
ReplayKeyWithoutInsert(occurrence) ==
    <<occurrence.intent, [f \in DOMAIN occurrence.lineage \ {"insert", "confirmation"} |->
                            occurrence.lineage[f]]>>

\* compute_compositor_replay_key: the lineage and the producer, which is fixed.
ReplayKey(occurrence) == <<occurrence.intent, occurrence.lineage>>

\* validate_compositor_output_occurrence, with the PNG bytes: they are canonical
\* and compile to the raster the occurrence names.
OccurrenceOK(occurrence, png) ==
    /\ PngOK(png)
    /\ occurrence.original = png
    /\ Compile(png, png) = [inspection |-> Inspection(png.image, png.image.w, png.image.h),
                            raster |-> occurrence.output]

\* resolve_compositor_replay: the same operation returns the prior occurrence,
\* and must name the same bytes.
ResolveReplay(existing, candidate) ==
    IF ~OccurrenceOK(existing, existing.original)
       \/ ~OccurrenceOK(candidate, candidate.original)
    THEN Failed("output_binding_mismatch")
    ELSE IF ReplayKey(existing) # ReplayKey(candidate) THEN candidate
    ELSE IF existing = candidate THEN existing
    ELSE Failed("replay_conflict")

-----------------------------------------------------------------------------
\* _validate_raw_compiler_inputs: the two judgments are of this output, and the
\* confirmation names them all.  A structural pass needs measured locality, a
\* dimension mismatch needs the not-run paired with it.
RawInputsBind(raster, raw, structural, locality, c) ==
    /\ raw.eligible
    /\ raster.content = raw.content
    /\ raster.w = raw.media.w /\ raster.h = raw.media.h
    /\ structural.verifier = "structure"
    /\ structural.subject = [occurrence |-> raw]
    /\ structural.content = raw.content /\ structural.raster = raster
    /\ structural.measured.compiled /\ structural.measured.inspection = raw.media
    /\ \/ /\ structural.state = "pass"
          /\ locality.verifier = "locality" /\ locality.state \in {"pass", "fail"}
          /\ locality.subject = structural.subject
          /\ locality.output = raster
       \/ /\ structural.state = "fail" /\ structural.reason = "dimension_mismatch"
          /\ BlockingPair(structural, locality)
    /\ c.intent = raw.intent /\ c.raw = raw /\ c.raster = raster
    /\ c.structural = structural /\ c.locality = locality
    /\ structural.source = c.target.source
    /\ locality.source = c.target.source /\ locality.mask = c.target.mask

\* Faulty variant: the corner of the target pixel is sampled, not its centre.
CornerOffset(i, sourceSpan, targetSpan) == (i * sourceSpan) \div targetSpan

\* _nearest_source_offset
NearestOffset(i, sourceSpan, targetSpan) ==
    Min({sourceSpan - 1, ((2 * i + 1) * sourceSpan) \div (2 * targetSpan)})

\* compile_raw_crop_nearest
CompileInsert(raster, raw, structural, locality, c) ==
    LET w == Width(c.target.bounds)
        h == Height(c.target.bounds)
    IN IF ~RawInputsBind(raster, raw, structural, locality, c) THEN Failed("mismatch")
       ELSE IF ~Inside(c.crop, raster.w, raster.h) THEN Failed("bounds_invalid")
       ELSE [confirmation |-> c, intent |-> c.intent, raw |-> raw, raster |-> raster,
             structural |-> structural, locality |-> locality, crop |-> c.crop,
             target |-> c.target, w |-> w, h |-> h,
             px |-> [p \in (0..(w - 1)) \X (0..(h - 1)) |->
                       raster.px[<<c.crop.left + NearestOffset(p[1], Width(c.crop), w),
                                   c.crop.top + NearestOffset(p[2], Height(c.crop), h)>>]]]

\* _provider_bundle_documents: the bundle is of this packet.
BundleOK(bundle, packet) ==
    /\ bundle.packet = packet
    /\ \A o \in bundle.outputs : o.receipt \in bundle.receipts /\ o.intent = packet

\* The raw locality verdict, measured again.
RawLocality(source, raster, mask, raw, replayed) ==
    IF replayed.judgment.state = "pass"
    THEN VerifyOutsideMask(source, raster, mask, raw, replayed.judgment)
    ELSE LocalityNotRun(replayed.judgment, mask)

\* Both verdicts on the raw output, measured again, are the ones handed in.
VerdictsReplay(x, replayed) ==
    /\ ~IsFailed(replayed)
    /\ replayed.raster = x.raster /\ replayed.judgment = x.structural
    /\ RawLocality(x.source, x.raster, x.mask, x.raw, replayed) = x.locality

\* compose_source_backed_rect_replace, up to the copying: what each of the
\* caller's eleven artifacts x must agree with.
AncestryReplays(x) ==
    /\ RasterOK(x.source) /\ MaskOK(x.mask)
    /\ InsertOK(x.insert) /\ ConfirmationOK(x.confirmation)
    /\ BundleOK(x.bundle, x.packet)
    /\ x.raw \in x.bundle.outputs /\ x.raw.eligible
    /\ VerdictsReplay(x, VerifyStructure(x.source, x.raw.receipt, x.raw.index,
                                         x.bytes, x.raw))

PacketBinds(x) ==
    /\ x.packet.source = x.source /\ x.packet.mask = x.mask
    /\ x.packet.region = x.confirmation.target.bounds
    /\ x.confirmation.target.source = x.source /\ x.confirmation.target.mask = x.mask
    /\ x.confirmation.principal = x.packet.principal
    /\ x.confirmation.session = x.packet.session
    /\ x.confirmation.intent = x.packet
    /\ x.insert.confirmation = x.confirmation
    /\ RectangleMask(x.source, x.packet.region) = x.mask
    /\ x.insert.w = Width(x.packet.region) /\ x.insert.h = Height(x.packet.region)

\* The copying: the insert's rows over the source's.
Paste(source, insert, bounds) ==
    [p \in DOMAIN source.px |->
        IF In(p, bounds) THEN insert.px[<<p[1] - bounds.left, p[2] - bounds.top>>]
        ELSE source.px[p]]

\* verify_compositor_output_structure: the occurrence binds the source and the
\* output has its dimensions.
CompositorStructure(source, occurrence, output) ==
    IF \/ ~OccurrenceOK(occurrence, occurrence.original) \/ occurrence.output # output
       \/ occurrence.lineage.source # source
       \/ source.w # output.w \/ source.h # output.h
    THEN Failed("output_binding_mismatch")
    ELSE [verifier |-> "structure", subject |-> [occurrence |-> occurrence],
          state |-> "pass", source |-> source, content |-> occurrence.original,
          raster |-> output]

\* _verify_compositor_locality
CompositorLocality(source, output, mask, occurrence, structural) ==
    IF \/ structural.subject # [occurrence |-> occurrence]
       \/ structural.source # source \/ structural.raster # output
       \/ mask.source # source
    THEN Failed("judgment_mismatch")
    ELSE LET changed == ChangedOutside(source, output, mask)
         IN [verifier |-> "locality", subject |-> structural.subject,
             state |-> IF changed = {} THEN "pass" ELSE "fail",
             source |-> source, mask |-> mask, output |-> output,
             changed |-> Cardinality(changed)]

\* The copied pixels as a canonical PNG that is compiled again: the output's own
\* structural and locality judgments must be passes.
Produce(x, png, compiled) ==
    LET output == compiled.raster
        occurrence ==
            [intent |-> x.packet, original |-> png, output |-> output,
             lineage |-> [source |-> x.source, mask |-> x.mask, raw |-> x.raw,
                          raster |-> x.raster, structural |-> x.structural,
                          locality |-> x.locality, insert |-> x.insert,
                          confirmation |-> x.insert.confirmation]]
        structural == CompositorStructure(x.source, occurrence, output)
        locality == CompositorLocality(x.source, output, x.mask, occurrence, structural)
    IN IF IsFailed(compiled) THEN Failed("encoder_replay_failed")
       ELSE IF output.px # png.image.px THEN Failed("encoder_replay_failed")
       ELSE IF ~OccurrenceOK(occurrence, png) THEN Failed("output_binding_mismatch")
       ELSE IF IsFailed(structural) THEN structural
       ELSE IF IsFailed(locality) THEN locality
       ELSE IF locality.state # "pass" THEN Failed("producer_failure")
       ELSE [insert |-> x.insert, png |-> png, output |-> output,
             occurrence |-> occurrence, structural |-> structural, locality |-> locality]

\* compose_source_backed_rect_replace
Compose(x) ==
    LET replay == CompileInsert(x.raster, x.raw, x.structural, x.locality, x.confirmation)
        png == EncodePng([w |-> x.source.w, h |-> x.source.h,
                          px |-> Paste(x.source, x.insert, x.packet.region)])
    IN IF ~AncestryReplays(x) THEN Failed("ancestry")
       ELSE IF IsFailed(replay) THEN replay
       ELSE IF replay # x.insert THEN Failed("insert_mismatch")
       ELSE IF ~PacketBinds(x) THEN Failed("packet")
       ELSE Produce(x, png, Compile(png, png))
=============================================================================
