----------------------------- MODULE BrandBoard -----------------------------
(***************************************************************************)
(* The brand.mb artifact (src/moodboard/board.py): what a board is, what   *)
(* its identity binds, and what write_board and read_board refuse.         *)
(*                                                                         *)
(* A board is a record whose reference columns (ids, hashes, rows,         *)
(* locations) run in parallel; an artifact is what the archive holds.  A   *)
(* digest is modelled as the value it is computed from: a sorted list of   *)
(* entries is the bag of them.  NoDigest stands for an absent one.         *)
(***************************************************************************)
EXTENDS Integers, Sequences, FiniteSets, Bags, SequencesExt

NoDigest == "absent"
FormatVersion == 3
LegacyVersions == {1, 2}

Column(s) == ToBag(s)

\* _reference_embedding_digest: every content hash with its own row.
EmbeddingDigest(hashes, rows) ==
    Column([i \in DOMAIN hashes |-> <<hashes[i], rows[i]>>])

\* _reference_asset_location_digest: hash, ContentRef and byte identity of each
\* reference; the Khive entity id is not part of it.
LocationDigest(hashes, locations) ==
    Column([i \in DOMAIN hashes |->
        <<hashes[i], locations[i].content, locations[i].identity>>])

\* Faulty variant: the rows are bound as a set of their own, not to their hashes.
UnpairedHash(hashes, rows, model, fit) ==
    <<Column(hashes), Column(rows), model,
      <<fit.k, fit.kCap, fit.cut, fit.dupCut, fit.minSize, fit.level, fit.multiplier>> >>

\* board_hash: the references, their rows, the model and the fit policy; not
\* the ids, the name, the build time, n_eff or the multiplier's source.
BoardHash(hashes, rows, model, fit) ==
    <<Column(hashes), EmbeddingDigest(hashes, rows), model,
      <<fit.k, fit.kCap, fit.cut, fit.dupCut, fit.minSize, fit.level, fit.multiplier>> >>

\* The version-1 identity of formats 1 and 2: no rows, and the cuts and k only.
LegacyBoardHash(hashes, model, fit) ==
    <<Column(hashes), model, <<fit.k, fit.cut, fit.dupCut>> >>

-----------------------------------------------------------------------------
\* _validate_board_metadata_fields; n_eff is a fraction in [1, n].
MetadataOK(fit, neff, n) ==
    /\ n >= 2
    /\ fit.kCap >= 1
    /\ fit.k = IF fit.kCap < n - 1 THEN fit.kCap ELSE n - 1
    /\ fit.minSize >= 1
    /\ fit.cut >= 0 /\ fit.dupCut >= 0
    /\ 0 < fit.level[1] /\ fit.level[1] < fit.level[2]
    /\ fit.multiplier[1] >= 0
    /\ neff[1] >= neff[2] /\ neff[1] <= n * neff[2]

\* _validate_reference_identity: parallel columns, unique ids (hashes may repeat).
IdentityOK(ids, hashes) == Len(hashes) = Len(ids) /\ IsInjective(ids)

Complete(locations, n) == locations = <<>> \/ Len(locations) = n

\* build_board, with the caller's n_eff.
BuildBoard(ids, hashes, rows, model, fit, neff, locations) ==
    IF /\ IdentityOK(ids, hashes)
       /\ MetadataOK(fit, neff, Len(ids))
       /\ Len(rows) = Len(ids)
       /\ Complete(locations, Len(ids))
    THEN [id |-> BoardHash(hashes, rows, model, fit), ids |-> ids, hashes |-> hashes,
          rows |-> rows, model |-> model, fit |-> fit, neff |-> neff,
          digest |-> EmbeddingDigest(hashes, rows), locations |-> locations,
          locationDigest |-> IF locations = <<>> THEN NoDigest
                             ELSE LocationDigest(hashes, locations),
          verified |-> TRUE]
    ELSE [refused |-> TRUE]

Refused(b) == "refused" \in DOMAIN b

\* write_board: only a verified board whose digests and id are recomputed from
\* its own fields becomes an artifact.
WriteBoard(b) ==
    IF /\ b.verified
       /\ IdentityOK(b.ids, b.hashes)
       /\ MetadataOK(b.fit, b.neff, Len(b.ids))
       /\ Len(b.rows) = Len(b.hashes)
       /\ b.digest = EmbeddingDigest(b.hashes, b.rows)
       /\ b.id = BoardHash(b.hashes, b.rows, b.model, b.fit)
       /\ b.locationDigest = IF b.locations = <<>> THEN NoDigest
                             ELSE LocationDigest(b.hashes, b.locations)
    THEN [version |-> FormatVersion, id |-> b.id, ids |-> b.ids, hashes |-> b.hashes,
          rows |-> b.rows, model |-> b.model, fit |-> b.fit, neff |-> b.neff,
          digest |-> b.digest, locations |-> b.locations,
          locationDigest |-> b.locationDigest]
    ELSE [refused |-> TRUE]

-----------------------------------------------------------------------------
\* read_board, the parts of it.

VersionOK(a, allowLegacy) ==
    \/ a.version = FormatVersion
    \/ a.version \in LegacyVersions /\ allowLegacy

\* Closed columns, a k that has neighbours, an n_eff above zero; a verified
\* artifact is held to the writer's rules as well.
StructureOK(a) ==
    /\ a.ids # <<>>
    /\ IdentityOK(a.ids, a.hashes)
    /\ a.fit.k >= 0 /\ a.fit.k < Len(a.ids)
    /\ a.neff[1] > 0
    /\ a.version = FormatVersion => MetadataOK(a.fit, a.neff, Len(a.ids))
    /\ Len(a.rows) = Len(a.ids)

\* Version 1 carries no locations, version 2 must, version 3 may; a verified
\* artifact's locations carry their digest.
LocationsOK(a) ==
    /\ a.version = 1 => a.locations = <<>>
    /\ a.version = 2 => Len(a.locations) = Len(a.ids)
    /\ Complete(a.locations, Len(a.ids))
    /\ (a.version = FormatVersion /\ a.locations # <<>>) =>
          a.locationDigest = LocationDigest(a.hashes, a.locations)

\* The digest of the rows and the claimed id, recomputed.
IntegrityOK(a) ==
    IF a.version \in LegacyVersions
      THEN a.id = LegacyBoardHash(a.hashes, a.model, a.fit)
      ELSE /\ a.digest = EmbeddingDigest(a.hashes, a.rows)
           /\ a.id = BoardHash(a.hashes, a.rows, a.model, a.fit)

\* The board read back; a legacy one is marked unverified, without digests and
\* with the default policy where its format had none.
ReadBoard(a, allowLegacy, defaults) ==
    IF ~(VersionOK(a, allowLegacy) /\ StructureOK(a) /\ LocationsOK(a) /\ IntegrityOK(a))
      THEN [refused |-> TRUE]
      ELSE LET legacy == a.version \in LegacyVersions
           IN [id |-> a.id, ids |-> a.ids, hashes |-> a.hashes, rows |-> a.rows,
               model |-> a.model,
               fit |-> IF legacy THEN [defaults EXCEPT !.k = a.fit.k, !.cut = a.fit.cut,
                                                       !.dupCut = a.fit.dupCut]
                       ELSE a.fit,
               neff |-> a.neff,
               digest |-> IF legacy THEN NoDigest ELSE a.digest,
               locations |-> a.locations,
               locationDigest |-> IF legacy \/ a.locations = <<>> THEN NoDigest
                                  ELSE a.locationDigest,
               verified |-> ~legacy]
=============================================================================
