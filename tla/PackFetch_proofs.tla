--------------------------- MODULE PackFetch_proofs ---------------------------
(***************************************************************************)
(* Proofs about PackFetch and the PackLoader in it, for any artifacts,     *)
(* paths, images and references, any replacements and any crashes.         *)
(*                                                                         *)
(* The inductive invariant follows a fetch to its load: the file is in the *)
(* cache, where nobody but a fetch writes, and only if there is none; so   *)
(* what is loaded is what was fetched, or was cut off.                     *)
(***************************************************************************)
EXTENDS PackFetch, WellFoundedInduction, TLAPS

\* What a load has read passed the checks of its stage.
StageInv ==
  load # None =>
    /\ load.stage = "metadata" => load.metadata # None
    /\ load.stage = "handoff" =>
         /\ load.metadata # None /\ SoundMetadata(load.metadata)
         /\ load.handoff # None /\ SoundHandoff(load.handoff)
    /\ load.stage = "opened" => load.bytes # None

\* If nobody touched its path, the path still holds what the load has read.
FreshInv ==
  load # None /\ ~load.touched =>
    /\ load.stage \in {"metadata", "handoff"} =>
         disk[load.path] \in Artifacts /\ disk[load.path].metadata = load.metadata
    /\ load.stage = "metadata" => disk[load.path].handoff # None
    /\ load.stage = "handoff" => disk[load.path].handoff = load.handoff

\* A fetch is followed by its load, of the file that it wrote or found; nobody else
\* writes to the cache, so that the file stays what it was when its bytes were read.
HandedInv ==
  /\ fetch = None \/ load = None
  /\ fetch # None =>
       IF fetch.stage = "resolve" THEN source = None
       ELSE source # None /\ source.data = fetch.data
  /\ load # None /\ source # None =>
       /\ load.path = CachePath[source.data]
       /\ load.stage \in {"start", "opened"}
       /\ load.stage = "opened" => load.bytes = disk[load.path]

\* A file of the cache is whole or was cut off.
WholeInv ==
  \A a \in Artifacts : disk[CachePath[a]] \in {a, Torn, None}

IInv ==
  /\ TypeOK /\ StageInv /\ FreshInv /\ HandedInv /\ WholeInv
  /\ CacheHoldsWhatItNames /\ FetchedIsLoaded /\ PulledIsPinned

-----------------------------------------------------------------------------
(***************************************************************************)
(* The checks of a load.                                                   *)
(***************************************************************************)

\* Metadata without an error is sound, and no other is.
LEMMA MetadataErrors ==
  ASSUME NEW m \in Metadata
  PROVE  MetadataError(m) = None <=> SoundMetadata(m)
BY LoaderAssumption DEF MetadataError, SoundMetadata, Metadata, CheckCodes

LEMMA HandoffErrors ==
  ASSUME NEW h \in Handoff
  PROVE  HandoffError(h) = None <=> SoundHandoff(h)
BY LoaderAssumption DEF HandoffError, SoundHandoff, Handoff, CheckCodes

LEMMA FilesErrors ==
  ASSUME NEW flows, NEW schemas \in SUBSET SchemaFile
  PROVE  FilesError(flows, schemas) = None <=>
           flows # {} /\ schemas # {} /\ \A s \in schemas : s.json
BY LoaderAssumption DEF FilesError, CheckCodes, SchemaFile

\* A failure is no pack, and has the fields of one.
LEMMA FailureIs ==
  ASSUME NEW code, NEW p, NEW t
  PROVE  LET r == [error |-> code, path |-> p, touched |-> t]
         IN ~IsPack(r) /\ DOMAIN r = {"error", "path", "touched"}
BY DEF IsPack

LEMMA PackIs ==
  ASSUME NEW r \in Pack
  PROVE  IsPack(r)
BY DEF IsPack, Pack

\* What an artifact consists of.
LEMMA ArtifactParts ==
  ASSUME NEW a \in Artifacts
  PROVE  /\ a \in Artifact /\ a # None /\ a # Torn
         /\ a.zip \in BOOLEAN
         /\ a.metadata \in Metadata \cup {None} /\ a.handoff \in Handoff \cup {None}
         /\ a.flows \subseteq FlowName /\ a.schemas \subseteq SchemaFile
BY LoaderAssumption DEF Artifact

LEMMA LoadParts ==
  ASSUME NEW l \in Load
  PROVE  /\ l = [path |-> l.path, stage |-> l.stage, bytes |-> l.bytes,
                 metadata |-> l.metadata, handoff |-> l.handoff, touched |-> l.touched]
         /\ l.path \in Paths /\ l.stage \in {"start", "metadata", "handoff", "opened"}
         /\ l.bytes \in Artifacts \cup {Torn, None}
         /\ l.metadata \in Metadata \cup {None} /\ l.handoff \in Handoff \cup {None}
         /\ l.touched \in BOOLEAN /\ l # None
BY LoaderAssumption DEF Load

\* A load after its metadata, its handoff or its bytes have been read.
LEMMA MetadataRead ==
  ASSUME NEW l \in Load, NEW m
  PROVE  [l EXCEPT !.stage = "metadata", !.metadata = m] =
           [path |-> l.path, stage |-> "metadata", bytes |-> l.bytes, metadata |-> m,
            handoff |-> l.handoff, touched |-> l.touched]
<1> DEFINE staged == [path |-> l.path, stage |-> "metadata", bytes |-> l.bytes,
                      metadata |-> l.metadata, handoff |-> l.handoff,
                      touched |-> l.touched]
<1>1. [l EXCEPT !.stage = "metadata"] = staged
  BY LoadParts DEF Load
<1>2. [staged EXCEPT !.metadata = m] =
        [path |-> l.path, stage |-> "metadata", bytes |-> l.bytes, metadata |-> m,
         handoff |-> l.handoff, touched |-> l.touched]
  OBVIOUS
<1>3. [l EXCEPT !.stage = "metadata", !.metadata = m] =
        [[l EXCEPT !.stage = "metadata"] EXCEPT !.metadata = m]
  OBVIOUS
<1> HIDE DEF staged
<1> QED  BY <1>1, <1>2, <1>3

LEMMA HandoffRead ==
  ASSUME NEW l \in Load, NEW h
  PROVE  [l EXCEPT !.stage = "handoff", !.handoff = h] =
           [path |-> l.path, stage |-> "handoff", bytes |-> l.bytes,
            metadata |-> l.metadata, handoff |-> h, touched |-> l.touched]
<1> DEFINE staged == [path |-> l.path, stage |-> "handoff", bytes |-> l.bytes,
                      metadata |-> l.metadata, handoff |-> l.handoff,
                      touched |-> l.touched]
<1>1. [l EXCEPT !.stage = "handoff"] = staged
  BY LoadParts DEF Load
<1>2. [staged EXCEPT !.handoff = h] =
        [path |-> l.path, stage |-> "handoff", bytes |-> l.bytes,
         metadata |-> l.metadata, handoff |-> h, touched |-> l.touched]
  OBVIOUS
<1>3. [l EXCEPT !.stage = "handoff", !.handoff = h] =
        [[l EXCEPT !.stage = "handoff"] EXCEPT !.handoff = h]
  OBVIOUS
<1> HIDE DEF staged
<1> QED  BY <1>1, <1>2, <1>3

LEMMA BytesRead ==
  ASSUME NEW l \in Load, NEW b
  PROVE  [l EXCEPT !.stage = "opened", !.bytes = b] =
           [path |-> l.path, stage |-> "opened", bytes |-> b, metadata |-> l.metadata,
            handoff |-> l.handoff, touched |-> l.touched]
<1> DEFINE staged == [path |-> l.path, stage |-> "opened", bytes |-> l.bytes,
                      metadata |-> l.metadata, handoff |-> l.handoff,
                      touched |-> l.touched]
<1>1. [l EXCEPT !.stage = "opened"] = staged
  BY LoadParts DEF Load
<1>2. [staged EXCEPT !.bytes = b] =
        [path |-> l.path, stage |-> "opened", bytes |-> b, metadata |-> l.metadata,
         handoff |-> l.handoff, touched |-> l.touched]
  OBVIOUS
<1>3. [l EXCEPT !.stage = "opened", !.bytes = b] =
        [[l EXCEPT !.stage = "opened"] EXCEPT !.bytes = b]
  OBVIOUS
<1> HIDE DEF staged
<1> QED  BY <1>1, <1>2, <1>3

\* What is held is an artifact, unless it is missing.
LEMMA HeldIs ==
  ASSUME LoaderTypeOK, load # None
  PROVE  /\ load \in Load /\ load.path \in Paths
         /\ disk[load.path] \in Artifacts \cup {Torn, None}
         /\ ~Missing => Held \in Artifacts /\ Held # None /\ Held # Torn
BY LoadParts, ArtifactParts, LoaderAssumption DEF LoaderTypeOK, Missing, Held

\* Soundness of a path, by the form of what it holds.
LEMMA SoundByForm ==
  ASSUME NEW p \in Paths
  PROVE  /\ Form[p] = "other" => ~SoundAt(p)
         /\ disk[p] \in {None, Torn} => ~SoundAt(p)
         /\ Form[p] = "dir" =>
              (SoundAt(p) <=>
                 /\ disk[p] \notin {None, Torn}
                 /\ disk[p].metadata # None /\ SoundMetadata(disk[p].metadata)
                 /\ disk[p].handoff # None /\ SoundHandoff(disk[p].handoff)
                 /\ DirFlows(disk[p]) # {} /\ DirSchemas(disk[p]) # {}
                 /\ \A s \in DirSchemas(disk[p]) : s.json)
         /\ Form[p] = "gtpack" =>
              (SoundAt(p) <=>
                 /\ disk[p] \notin {None, Torn} /\ disk[p].zip
                 /\ disk[p].metadata # None /\ SoundMetadata(disk[p].metadata)
                 /\ disk[p].handoff # None /\ SoundHandoff(disk[p].handoff)
                 /\ PackFlows(disk[p]) # {} /\ PackSchemas(disk[p]) # {}
                 /\ \A s \in PackSchemas(disk[p]) : s.json)
<1>1. CASE Form[p] = "other"
  BY <1>1 DEF SoundAt
<1>2. CASE Form[p] = "dir"
  BY <1>2 DEF SoundAt, DirFlows, DirSchemas
<1>3. CASE Form[p] = "gtpack"
  BY <1>3 DEF SoundAt, PackFlows, PackSchemas
<1> QED  BY <1>1, <1>2, <1>3, LoaderAssumption

-----------------------------------------------------------------------------
(***************************************************************************)
(* The steps of a load.                                                    *)
(***************************************************************************)

\* What is promised of the result when a load ends.
Concluded ==
  /\ IsPack(result') => IsSound(result')
  /\ ~load.touched => (IsPack(result') <=> SoundAt(load.path))

\* A step of a load keeps what is known of it, and ends it as promised.
Proceeds ==
  /\ LoaderTypeOK' /\ StageInv' /\ FreshInv'
  /\ disk' = disk /\ replaced' = replaced
  /\ load' = None => Concluded
  /\ load' # None => load'.path = load.path /\ load'.touched = load.touched

LEMMA FailureProceeds ==
  ASSUME LoaderTypeOK, load # None, NEW code, Fail(code), UNCHANGED <<disk, replaced>>,
         ~load.touched => ~SoundAt(load.path)
  PROVE  Proceeds /\ load' = None /\ ~IsPack(result')
<1>1. ~IsPack(result') /\ DOMAIN result' = {"error", "path", "touched"}
  BY FailureIs DEF Fail, Finish
<1>2. load' = None /\ LoaderTypeOK'
  BY <1>1 DEF Fail, Finish, LoaderTypeOK
<1> QED  BY <1>1, <1>2 DEF Proceeds, Concluded, StageInv, FreshInv

LEMMA PackProceeds ==
  ASSUME LoaderTypeOK, load # None, NEW r \in Pack, Finish(r), UNCHANGED <<disk, replaced>>,
         IsSound(r), ~load.touched => SoundAt(load.path)
  PROVE  Proceeds
<1>1. result' = r /\ load' = None /\ IsPack(r)
  BY PackIs DEF Finish
<1>2. LoaderTypeOK'
  BY <1>1 DEF LoaderTypeOK
<1> QED  BY <1>1, <1>2 DEF Proceeds, Concluded, StageInv, FreshInv

LEMMA UnsupportedProceeds ==
  ASSUME LoaderTypeOK, Unsupported
  PROVE  Proceeds
<1>1. ~SoundAt(load.path)
  BY HeldIs, SoundByForm DEF Unsupported
<1> QED  BY <1>1, FailureProceeds DEF Unsupported

LEMMA MetadataProceeds ==
  ASSUME LoaderTypeOK, ReadMetadata
  PROVE  Proceeds
<1>1. /\ load # None /\ load \in Load /\ Form[load.path] = "dir" /\ load.path \in Paths
      /\ Held = disk[load.path] /\ UNCHANGED <<disk, replaced>>
  BY HeldIs DEF ReadMetadata, Is, Held
<1>2. CASE Missing \/ Held.metadata = None
  <2>1. ~SoundAt(load.path)
    BY <1>1, <1>2, SoundByForm DEF Missing
  <2> QED  BY <1>1, <1>2, <2>1, FailureProceeds DEF ReadMetadata
<1>3. CASE ~Missing /\ Held.metadata # None /\ Held.handoff = None
  <2>1. ~SoundAt(load.path)
    BY <1>1, <1>3, SoundByForm
  <2> QED  BY <1>1, <1>3, <2>1, FailureProceeds DEF ReadMetadata
<1>4. CASE ~Missing /\ Held.metadata # None /\ Held.handoff # None
  <2>1. Held \in Artifacts /\ Held.metadata \in Metadata
    BY <1>1, <1>4, HeldIs, ArtifactParts
  <2>2. load' = [load EXCEPT !.stage = "metadata", !.metadata = Held.metadata]
        /\ result' = result
    BY <1>4 DEF ReadMetadata
  <2>3. load' = [path |-> load.path, stage |-> "metadata", bytes |-> load.bytes,
                 metadata |-> Held.metadata, handoff |-> load.handoff,
                 touched |-> load.touched]
    BY <1>1, <2>2, MetadataRead
  <2>4. load' \in Load
    BY <1>1, <2>1, <2>3, LoadParts DEF Load
  <2>5. LoaderTypeOK'
    BY <1>1, <2>2, <2>4 DEF LoaderTypeOK
  <2>6. /\ load'.stage = "metadata" /\ load'.path = load.path
        /\ load'.metadata = Held.metadata /\ load'.touched = load.touched /\ load' # None
    BY <2>3, <2>4, LoadParts
  <2>7. StageInv' /\ FreshInv'
    BY <1>1, <1>4, <2>1, <2>6 DEF StageInv, FreshInv
  <2> QED  BY <1>1, <2>5, <2>6, <2>7 DEF Proceeds
<1> QED  BY <1>2, <1>3, <1>4

LEMMA HandoffProceeds ==
  ASSUME LoaderTypeOK, StageInv, FreshInv, ReadHandoff
  PROVE  Proceeds
<1>1. /\ load # None /\ load \in Load /\ Form[load.path] = "dir" /\ load.path \in Paths
      /\ load.stage = "metadata"
      /\ Held = disk[load.path] /\ UNCHANGED <<disk, replaced>>
  BY HeldIs DEF ReadHandoff, Is, Held
<1>2. load.metadata \in Metadata
  BY <1>1, LoadParts DEF StageInv
<1>3. ~load.touched =>
        Held \in Artifacts /\ Held.metadata = load.metadata /\ Held.handoff # None
  BY <1>1 DEF FreshInv
<1>4. CASE Missing \/ Held.handoff = None
  <2>1. ~load.touched => ~SoundAt(load.path)
    BY <1>1, <1>4, SoundByForm DEF Missing
  <2> QED  BY <1>1, <1>4, <2>1, FailureProceeds DEF ReadHandoff
<1>5. CASE ~Missing /\ Held.handoff # None /\ MetadataError(load.metadata) # None
  <2>1. ~load.touched => ~SoundAt(load.path)
    BY <1>1, <1>2, <1>3, <1>5, SoundByForm, MetadataErrors
  <2> QED  BY <1>1, <1>5, <2>1, FailureProceeds DEF ReadHandoff
<1>6. CASE /\ ~Missing /\ Held.handoff # None /\ MetadataError(load.metadata) = None
           /\ HandoffError(Held.handoff) # None
  <2>1. Held.handoff \in Handoff
    BY <1>1, <1>6, HeldIs, ArtifactParts
  <2>2. ~load.touched => ~SoundAt(load.path)
    BY <1>1, <1>6, <2>1, SoundByForm, HandoffErrors
  <2> QED  BY <1>1, <1>6, <2>2, FailureProceeds DEF ReadHandoff
<1>7. CASE /\ ~Missing /\ Held.handoff # None /\ MetadataError(load.metadata) = None
           /\ HandoffError(Held.handoff) = None
  <2>1. Held \in Artifacts /\ Held.handoff \in Handoff
    BY <1>1, <1>7, HeldIs, ArtifactParts
  <2>2. load' = [load EXCEPT !.stage = "handoff", !.handoff = Held.handoff]
        /\ result' = result
    BY <1>7 DEF ReadHandoff
  <2>3. load' = [path |-> load.path, stage |-> "handoff", bytes |-> load.bytes,
                 metadata |-> load.metadata, handoff |-> Held.handoff,
                 touched |-> load.touched]
    BY <1>1, <2>2, HandoffRead
  <2>4. load' \in Load
    BY <1>1, <2>1, <2>3, LoadParts DEF Load
  <2>5. LoaderTypeOK'
    BY <1>1, <2>2, <2>4 DEF LoaderTypeOK
  <2>6. /\ load'.stage = "handoff" /\ load'.path = load.path
        /\ load'.metadata = load.metadata /\ load'.handoff = Held.handoff
        /\ load'.touched = load.touched /\ load' # None
    BY <2>3, <2>4, LoadParts
  <2>7. SoundMetadata(load.metadata) /\ SoundHandoff(Held.handoff)
    BY <1>2, <1>7, <2>1, MetadataErrors, HandoffErrors
  <2>8. load.metadata # None
    BY <1>2, LoaderAssumption
  <2>9. StageInv'
    BY <1>7, <2>6, <2>7, <2>8 DEF StageInv
  <2>10. FreshInv'
    BY <1>1, <1>3, <2>1, <2>6 DEF FreshInv
  <2> QED  BY <1>1, <2>5, <2>6, <2>9, <2>10 DEF Proceeds
<1> QED  BY <1>4, <1>5, <1>6, <1>7

LEMMA FilesProceeds ==
  ASSUME LoaderTypeOK, StageInv, FreshInv, ReadFiles
  PROVE  Proceeds
<1> DEFINE flows == IF Missing THEN {} ELSE DirFlows(Held)
           schemas == IF Missing THEN {} ELSE DirSchemas(Held)
           pack == [path |-> load.path, metadata |-> load.metadata,
                    handoff |-> load.handoff, flows |-> flows, schemas |-> schemas,
                    packDigest |-> load.handoff, touched |-> load.touched,
                    sourceDigest |-> IF load.metadata.sourceDigest THEN "declared"
                                     ELSE "path"]
<1>1. /\ load # None /\ load \in Load /\ Form[load.path] = "dir" /\ load.path \in Paths
      /\ load.stage = "handoff"
      /\ Held = disk[load.path] /\ UNCHANGED <<disk, replaced>>
  BY HeldIs DEF ReadFiles, Is, Held
<1>2. /\ load.metadata \in Metadata /\ SoundMetadata(load.metadata)
      /\ load.handoff \in Handoff /\ SoundHandoff(load.handoff)
  BY <1>1, LoadParts DEF StageInv
<1>3. ~load.touched =>
        /\ Held \in Artifacts /\ Held.metadata = load.metadata
        /\ Held.handoff = load.handoff
  BY <1>1 DEF FreshInv
<1>4. flows \subseteq FlowName /\ schemas \subseteq SchemaFile
  BY <1>1, HeldIs, ArtifactParts DEF DirFlows, DirSchemas
<1>5. ~load.touched => ~Missing /\ flows = DirFlows(Held) /\ schemas = DirSchemas(Held)
  BY <1>3, ArtifactParts DEF Missing
<1>6. ~load.touched =>
        (SoundAt(load.path) <=> FilesError(flows, schemas) = None)
  <2> HIDE DEF flows, schemas
  <2>1. load.metadata # None /\ load.handoff # None
    BY <1>2, LoaderAssumption
  <2> QED  BY <1>1, <1>2, <1>3, <1>4, <1>5, <2>1, SoundByForm, FilesErrors DEF Missing
<1>7. CASE FilesError(flows, schemas) # None
  <2>1. Fail(FilesError(flows, schemas))
    BY <1>7 DEF ReadFiles
  <2> HIDE DEF flows, schemas
  <2> QED  BY <1>1, <1>6, <1>7, <2>1, FailureProceeds
<1>8. CASE FilesError(flows, schemas) = None
  <2>1. Finish(pack)
    BY <1>8 DEF ReadFiles
  <2>2. flows # {} /\ schemas # {} /\ \A s \in schemas : s.json
    <3> HIDE DEF flows, schemas
    <3> QED  BY <1>4, <1>8, FilesErrors
  <2> HIDE DEF flows, schemas
  <2>3. pack \in Pack
    BY <1>1, <1>2, <1>4, LoadParts DEF Pack
  <2>4. IsSound(pack)
    BY <1>2, <2>2 DEF IsSound
  <2> HIDE DEF pack
  <2> QED  BY <1>1, <1>6, <1>8, <2>1, <2>3, <2>4, PackProceeds
<1> QED  BY <1>7, <1>8

LEMMA BytesProceed ==
  ASSUME LoaderTypeOK, ReadBytes
  PROVE  Proceeds /\ (load' # None => load'.stage = "opened" /\ load'.bytes = Held)
<1>1. /\ load # None /\ load \in Load /\ Form[load.path] = "gtpack"
      /\ load.path \in Paths /\ Held = disk[load.path]
      /\ Held \in Artifacts \cup {Torn, None} /\ UNCHANGED <<disk, replaced>>
  BY HeldIs DEF ReadBytes, Is, Held
<1>2. CASE Held = None
  <2>1. ~SoundAt(load.path)
    BY <1>1, <1>2, SoundByForm
  <2> QED  BY <1>1, <1>2, <2>1, FailureProceeds DEF ReadBytes
<1>3. CASE Held # None
  <2>1. load' = [load EXCEPT !.stage = "opened", !.bytes = Held] /\ result' = result
    BY <1>3 DEF ReadBytes
  <2>2. load' = [path |-> load.path, stage |-> "opened", bytes |-> Held,
                 metadata |-> load.metadata, handoff |-> load.handoff,
                 touched |-> load.touched]
    BY <1>1, <2>1, BytesRead
  <2>3. load' \in Load
    BY <1>1, <2>2, LoadParts DEF Load
  <2>4. LoaderTypeOK'
    BY <1>1, <2>1, <2>3 DEF LoaderTypeOK
  <2>5. /\ load'.stage = "opened" /\ load'.path = load.path /\ load'.bytes = Held
        /\ load'.touched = load.touched /\ load' # None
    BY <2>2, <2>3, LoadParts
  <2>6. StageInv' /\ FreshInv'
    BY <1>3, <2>5 DEF StageInv, FreshInv
  <2> QED  BY <1>1, <2>4, <2>5, <2>6 DEF Proceeds
<1> QED  BY <1>2, <1>3

\* An opened .gtpack without an error is sound, and no other is.
LEMMA PackErrors ==
  ASSUME NEW a \in Artifacts
  PROVE  PackError(a) = None <=>
           /\ a.metadata # None /\ SoundMetadata(a.metadata)
           /\ a.handoff # None /\ SoundHandoff(a.handoff)
           /\ PackFlows(a) # {} /\ PackSchemas(a) # {}
           /\ \A s \in PackSchemas(a) : s.json
<1>1. "missing_operala_yaml" # None /\ "missing_operala_handoff" # None
  BY LoaderAssumption DEF CheckCodes
<1>2. CASE a.metadata = None \/ a.handoff = None
  BY <1>1, <1>2 DEF PackError
<1>3. CASE a.metadata # None /\ a.handoff # None
  <2>1. a.metadata \in Metadata /\ a.handoff \in Handoff
    BY <1>3, ArtifactParts
  <2>2. PackSchemas(a) \subseteq SchemaFile
    BY ArtifactParts DEF PackSchemas
  <2> QED  BY <1>3, <2>1, <2>2, MetadataErrors, HandoffErrors, FilesErrors DEF PackError
<1> QED  BY <1>2, <1>3

LEMMA OpenProceeds ==
  ASSUME LoaderTypeOK, StageInv, OpenPack
  PROVE  /\ Proceeds /\ load' = None
         /\ IsPack(result') => /\ result'.packDigest = load.bytes
                              /\ Held \in Artifacts
                              /\ result'.handoff = Held.handoff
                              /\ result'.metadata = Held.metadata
<1> DEFINE pack == [path |-> load.path, metadata |-> Held.metadata,
                    handoff |-> Held.handoff, flows |-> PackFlows(Held),
                    schemas |-> PackSchemas(Held), packDigest |-> load.bytes,
                    touched |-> load.touched,
                    sourceDigest |-> IF Held.metadata.sourceDigest THEN "declared"
                                     ELSE "metadata"]
<1>1. /\ load # None /\ load \in Load /\ Form[load.path] = "gtpack"
      /\ load.path \in Paths /\ load.stage = "opened"
      /\ Held = disk[load.path] /\ UNCHANGED <<disk, replaced>>
  BY HeldIs DEF OpenPack, Is, Held
<1>2. load.bytes \in Artifacts \cup {Torn}
  BY <1>1, LoadParts DEF StageInv
<1>3. CASE Missing \/ ~Held.zip
  <2>1. ~SoundAt(load.path)
    BY <1>1, <1>3, SoundByForm DEF Missing
  <2>2. Fail("invalid_gtpack")
    BY <1>3 DEF OpenPack
  <2> QED  BY <1>1, <2>1, <2>2, FailureProceeds
<1>4. CASE ~Missing /\ Held.zip /\ PackError(Held) # None
  <2>1. Held \in Artifacts
    BY <1>1, <1>4, HeldIs
  <2>2. ~SoundAt(load.path)
    BY <1>1, <1>4, <2>1, SoundByForm, PackErrors
  <2>3. Fail(PackError(Held))
    BY <1>4 DEF OpenPack
  <2> QED  BY <1>1, <2>2, <2>3, FailureProceeds
<1>5. CASE ~Missing /\ Held.zip /\ PackError(Held) = None
  <2>1. Held \in Artifacts /\ Held # None /\ Held # Torn
    BY <1>1, <1>5, HeldIs
  <2>2. /\ Held.metadata # None /\ SoundMetadata(Held.metadata)
        /\ Held.handoff # None /\ SoundHandoff(Held.handoff)
        /\ PackFlows(Held) # {} /\ PackSchemas(Held) # {}
        /\ \A s \in PackSchemas(Held) : s.json
    BY <1>5, <2>1, PackErrors
  <2>3. SoundAt(load.path)
    BY <1>1, <1>5, <2>1, <2>2, SoundByForm
  <2>4. Finish(pack)
    BY <1>5 DEF OpenPack
  <2>5. /\ Held.metadata \in Metadata /\ Held.handoff \in Handoff
        /\ PackFlows(Held) \subseteq FlowName /\ PackSchemas(Held) \subseteq SchemaFile
    BY <2>1, <2>2, ArtifactParts DEF PackFlows, PackSchemas
  <2>6. pack \in Pack
    BY <1>1, <1>2, <2>5, LoadParts DEF Pack
  <2>7. IsSound(pack)
    BY <2>2 DEF IsSound
  <2>8. /\ pack.packDigest = load.bytes /\ pack.handoff = Held.handoff
        /\ pack.metadata = Held.metadata
    OBVIOUS
  <2> HIDE DEF pack
  <2>9. Proceeds
    BY <1>1, <2>3, <2>4, <2>6, <2>7, PackProceeds
  <2> QED  BY <2>1, <2>4, <2>8, <2>9 DEF Finish
<1> QED  BY <1>3, <1>4, <1>5

LEMMA LoadProceeds ==
  ASSUME LoaderTypeOK, StageInv, FreshInv, LoadStep
  PROVE  Proceeds
BY UnsupportedProceeds, MetadataProceeds, HandoffProceeds, FilesProceeds, BytesProceed,
   OpenProceeds
   DEF LoadStep

-----------------------------------------------------------------------------
(***************************************************************************)
(* The choice of a layer: what the loop of select_layer holds after each   *)
(* layer, by a least counterexample.                                       *)
(***************************************************************************)
Before == {p \in Nat \X Nat : p[1] < p[2]}

LEMMA NoneBeforeForever == IsWellFoundedOn(Before, Nat)
BY NatLessThanWellFounded DEF OpToRel, Before

LEMMA Least ==
  ASSUME NEW S, S \subseteq Nat, S # {}
  PROVE  \E n \in S : \A k \in S : n <= k
<1>1. PICK n \in S : \A k \in S : ~ (<<k, n>> \in Before)
  <2>1. \E n \in S : \A k \in S : ~ (<<k, n>> \in Before)
    BY NoneBeforeForever, WFMin
  <2> QED  BY <2>1
<1>2. ASSUME NEW k \in S  PROVE n <= k
  <2>1. ~ (<<k, n>> \in Before) /\ <<k, n>> \in Nat \X Nat
    BY <1>1
  <2>2. ~ (k < n)
    BY <2>1 DEF Before
  <2> QED  BY <2>2
<1> QED  BY <1>2

LEMMA Greatest ==
  ASSUME NEW S, S \subseteq Nat, S # {}, NEW b \in Nat, \A n \in S : n <= b
  PROVE  \E n \in S : \A k \in S : n >= k
<1> DEFINE below == {b - n : n \in S}
<1>1. below \subseteq Nat /\ below # {}
  <2>1. \A n \in S : n \in Nat /\ n <= b /\ b - n \in Nat
    OBVIOUS
  <2>2. PICK n \in S : TRUE
    OBVIOUS
  <2>3. b - n \in below
    OBVIOUS
  <2> QED  BY <2>1, <2>3
<1>2. PICK d \in below : \A e \in below : d <= e
  <2> HIDE DEF below
  <2> QED  BY <1>1, Least
<1>3. PICK n \in S : d = b - n
  OBVIOUS
<1>4. ASSUME NEW k \in S  PROVE n >= k
  <2>1. b - k \in below
    OBVIOUS
  <2>2. b - n <= b - k
    BY <1>2, <1>3, <2>1
  <2>3. n \in Nat /\ k \in Nat
    OBVIOUS
  <2> HIDE DEF below
  <2> QED  BY <2>2, <2>3
<1> QED  BY <1>4

\* A rank is a number: of the places of a media type there is a last one.
LEMMA RankIs ==
  ASSUME FetchAssumption, NEW media
  PROVE  Rank(media) \in Nat
<1> DEFINE at == {n \in 1..Len(Preferred) : Preferred[n] = media}
           last == CHOOSE n \in at : \A k \in at : n >= k
<1>1. Len(Preferred) \in Nat
  BY DEF FetchAssumption
<1>2. at \subseteq Nat /\ \A n \in at : n <= Len(Preferred)
  BY <1>1
<1>3. Rank(media) = IF at = {} THEN Len(Preferred) + 1 ELSE last
  BY DEF Rank
<1> HIDE DEF at
<1>4. at # {} => last \in at
  BY <1>1, <1>2, Greatest
<1> HIDE DEF last
<1>5. CASE at = {}
  BY <1>1, <1>3, <1>5
<1>6. CASE at # {}
  <2>1. last \in Nat
    BY <1>2, <1>4, <1>6
  <2> QED  BY <1>3, <1>6, <2>1
<1> QED  BY <1>5, <1>6

\* What the loop holds after the layer i, if f says what it held before.
Kept(layers, f, i) ==
  IF i = 1 THEN 1
  ELSE IF Rank(layers[i].media) < Rank(layers[f[i - 1]].media) THEN i
  ELSE f[i - 1]

\* There is a function that says so for every layer.
LEMMA LoopEnds ==
  ASSUME NEW L \in Nat, NEW layers
  PROVE  \E f : f = [i \in 1..L |-> Kept(layers, f, i)]
<1> DEFINE Loop(n) == \E f : f = [i \in 1..n |-> Kept(layers, f, i)]
           bad == {n \in Nat : ~Loop(n)}
<1>1. Loop(0)
  <2>1. <<>> = [i \in 1..0 |-> Kept(layers, <<>>, i)]
    OBVIOUS
  <2> QED  BY <2>1
<1>2. ASSUME NEW n \in Nat, n # 0, Loop(n - 1)
      PROVE  Loop(n)
  <2>1. PICK f : f = [i \in 1..(n - 1) |-> Kept(layers, f, i)]
    BY <1>2
  <2> DEFINE g == [i \in 1..n |-> IF i = n THEN Kept(layers, f, n) ELSE f[i]]
  <2>2. ASSUME NEW i \in 1..n  PROVE g[i] = Kept(layers, g, i)
    <3>1. CASE i = 1
      BY <2>1, <3>1 DEF Kept
    <3>2. CASE i # 1
      <4>1. i - 1 \in 1..n /\ i - 1 # n /\ i - 1 \in 1..(n - 1)
        BY <3>2
      <4>2. g[i - 1] = f[i - 1]
        BY <4>1
      <4>3. Kept(layers, g, i) = Kept(layers, f, i)
        BY <4>2 DEF Kept
      <4>4. g[i] = Kept(layers, f, i)
        <5>1. CASE i = n
          BY <5>1
        <5>2. CASE i # n
          <6>1. i \in 1..(n - 1)
            BY <5>2
          <6> QED  BY <2>1, <5>2, <6>1
        <5> QED  BY <5>1, <5>2
      <4> QED  BY <4>3, <4>4
    <3> QED  BY <3>1, <3>2
  <2>3. g = [i \in 1..n |-> g[i]]
    OBVIOUS
  <2> HIDE DEF g
  <2>4. g = [i \in 1..n |-> Kept(layers, g, i)]
    BY <2>2, <2>3
  <2> QED  BY <2>4
<1> HIDE DEF Loop
<1>3. bad = {}
  <2> SUFFICES ASSUME bad # {}  PROVE FALSE
    OBVIOUS
  <2>1. PICK n \in bad : \A k \in bad : n <= k
    BY Least
  <2>2. n # 0
    BY <1>1
  <2>3. n - 1 \in Nat /\ ~ (n <= n - 1)
    BY <2>2
  <2>4. Loop(n - 1)
    BY <2>1, <2>3
  <2> QED  BY <1>2, <2>2, <2>4
<1>4. Loop(L)
  BY <1>3
<1> QED  BY <1>4 DEF Loop

\* It is the first of lowest rank so far.
FirstOfLowest(layers, n, m) ==
  /\ n \in 1..m
  /\ \A k \in 1..m :
       IF k < n THEN Rank(layers[n].media) < Rank(layers[k].media)
       ELSE Rank(layers[n].media) <= Rank(layers[k].media)

LEMMA LoopKeepsFirst ==
  ASSUME FetchAssumption, NEW L \in Nat, NEW layers, NEW f,
         f = [i \in 1..L |-> Kept(layers, f, i)]
  PROVE  \A m \in 1..L : FirstOfLowest(layers, f[m], m)
<1> DEFINE r(n) == Rank(layers[n].media)
           bad == {m \in 1..L : ~FirstOfLowest(layers, f[m], m)}
<1>1. \A n : r(n) \in Nat
  BY RankIs
<1>2. \A i \in 1..L : f[i] = IF i = 1 THEN 1 ELSE IF r(i) < r(f[i - 1]) THEN i ELSE f[i - 1]
  BY DEF Kept
<1>3. \A n, m : FirstOfLowest(layers, n, m) <=>
                  /\ n \in 1..m
                  /\ \A k \in 1..m : IF k < n THEN r(n) < r(k) ELSE r(n) <= r(k)
  BY DEF FirstOfLowest
<1> HIDE DEF r
<1>4. ASSUME NEW m \in 1..L, m # 1 => FirstOfLowest(layers, f[m - 1], m - 1)
      PROVE  FirstOfLowest(layers, f[m], m)
  <2>1. CASE m = 1
    <3>1. f[m] = 1 /\ \A k \in 1..1 : k = 1
      BY <1>2, <2>1
    <3> QED  BY <1>1, <1>3, <2>1, <3>1
  <2>2. CASE m # 1
    <3> DEFINE b == f[m - 1]
    <3>1. /\ b \in 1..(m - 1)
          /\ \A k \in 1..(m - 1) : IF k < b THEN r(b) < r(k) ELSE r(b) <= r(k)
      BY <1>3, <1>4, <2>2
    <3>2. f[m] = IF r(m) < r(b) THEN m ELSE b
      BY <1>2, <2>2
    <3>3. /\ m \in Nat /\ b \in Nat /\ b < m /\ b \in 1..m /\ m \in 1..m
          /\ \A k \in 1..m : k \in Nat /\ (k \in 1..(m - 1) \/ k = m)
      BY <3>1
    <3> HIDE DEF b
    <3>4. CASE r(m) < r(b)
      <4>1. ASSUME NEW k \in 1..m
            PROVE  IF k < m THEN r(m) < r(k) ELSE r(m) <= r(k)
        <5>1. CASE k = m
          BY <1>1, <3>3, <5>1
        <5>2. CASE k # m
          <6>1. k \in 1..(m - 1) /\ r(b) <= r(k)
            BY <1>1, <3>1, <3>3, <5>2
          <6> QED  BY <1>1, <3>4, <6>1
        <5> QED  BY <5>1, <5>2
      <4> QED  BY <1>3, <3>2, <3>3, <3>4, <4>1
    <3>5. CASE ~ (r(m) < r(b))
      <4>1. ASSUME NEW k \in 1..m
            PROVE  IF k < b THEN r(b) < r(k) ELSE r(b) <= r(k)
        <5>1. CASE k = m
          <6>1. ~ (k < b) /\ r(b) <= r(k)
            BY <1>1, <3>3, <3>5, <5>1
          <6> QED  BY <6>1
        <5>2. CASE k # m
          BY <3>1, <3>3, <5>2
        <5> QED  BY <5>1, <5>2
      <4> QED  BY <1>3, <3>2, <3>3, <3>5, <4>1
    <3> QED  BY <3>4, <3>5
  <2> QED  BY <2>1, <2>2
<1>5. bad = {}
  <2> SUFFICES ASSUME bad # {}  PROVE FALSE
    OBVIOUS
  <2>1. bad \subseteq Nat
    OBVIOUS
  <2>2. PICK m \in bad : \A k \in bad : m <= k
    BY <2>1, Least
  <2>3. m # 1 => m - 1 \notin bad /\ m - 1 \in 1..L
    BY <2>2
  <2> QED  BY <1>4, <2>3
<1> QED  BY <1>5

\* select_layer takes the first of the layers that no other layer is preferred to.
LEMMA SelectLayerIs ==
  ASSUME FetchAssumption, NEW layers \in Seq([media : MediaTypes, data : Artifacts]),
         layers # <<>>
  PROVE  FirstOfLowest(layers, SelectLayer(layers), Len(layers))
<1> DEFINE L == Len(layers)
           Loop(f) == f = [n \in 1..Len(layers) |->
                           IF n = 1 THEN 1
                           ELSE IF Rank(layers[n].media) < Rank(layers[f[n - 1]].media)
                           THEN n
                           ELSE f[n - 1]]
           best == CHOOSE f : Loop(f)
<1>1. L \in Nat /\ L \in 1..L
  OBVIOUS
<1>2. SelectLayer(layers) = best[Len(layers)]
  BY DEF SelectLayer
<1>3. best = [n \in 1..L |-> Kept(layers, best, n)]
  <2>1. \E f : Loop(f)
    BY <1>1, LoopEnds DEF Kept
  <2> HIDE DEF Loop
  <2>2. Loop(best)
    BY <2>1
  <2> QED  BY <2>2 DEF Loop, Kept
<1> HIDE DEF best
<1>4. \A m \in 1..L : FirstOfLowest(layers, best[m], m)
  <2> HIDE DEF L
  <2> QED  BY <1>1, <1>3, LoopKeepsFirst
<1> QED  BY <1>1, <1>2, <1>4

-----------------------------------------------------------------------------
(***************************************************************************)
(* The records of a fetch.                                                 *)
(***************************************************************************)
LEMMA FetchParts ==
  ASSUME NEW f \in Fetch
  PROVE  /\ f = [ref |-> f.ref, stage |-> f.stage, data |-> f.data] /\ f # None
         /\ f.ref \in References /\ f.stage \in {"resolve", "write", "writing"}
         /\ f.data \in Artifacts \cup {None}
BY FetchAssumption DEF Fetch

LEMMA SourceParts ==
  ASSUME NEW s \in Source
  PROVE  /\ s.ref \in References /\ s.image \in Images \cup {None}
         /\ s.data \in Artifacts /\ s # None
BY FetchAssumption DEF Source

\* What a reference names, by its scheme.
LEMMA ReferenceParts ==
  ASSUME NEW ref \in References
  PROVE  /\ ref.scheme \in {"oci", "repo", "store", "http"} => ref.target \in Targets
         /\ ref.scheme \in {"oci", "repo", "store"} => ref.pinned \in Images \cup {None}
         /\ ref.scheme = "file" => ref.path \in LocalPaths
BY FetchAssumption DEF Reference

LEMMA MemberIs ==
  ASSUME NEW S, NEW s \in Seq(S), NEW n \in 1..Len(s)
  PROVE  s[n] \in S
OBVIOUS

LEMMA ImageParts ==
  ASSUME NEW image \in Images
  PROVE  /\ image # None /\ image.told \in BOOLEAN
         /\ image.layers \in Seq([media : MediaTypes, data : Artifacts])
         /\ \A n \in 1..Len(image.layers) : image.layers[n].data \in Artifacts
<1>1. /\ image \in [layers : Seq([media : MediaTypes, data : Artifacts]), told : BOOLEAN]
      /\ image # None
  BY FetchAssumption DEF Image
<1> DEFINE layers == image.layers
<1>2. layers \in Seq([media : MediaTypes, data : Artifacts]) /\ image.told \in BOOLEAN
  BY <1>1
<1>3. \A n \in 1..Len(layers) : layers[n].data \in Artifacts
  <2> HIDE DEF layers
  <2> TAKE n \in 1..Len(layers)
  <2>1. layers[n] \in [media : MediaTypes, data : Artifacts]
    BY <1>2, MemberIs
  <2> QED  BY <2>1
<1> QED  BY <1>1, <1>2, <1>3

\* A path of the cache is of one artifact, is that of a .gtpack, and no client's.
LEMMA CachePaths ==
  ASSUME NEW a \in Artifacts
  PROVE  /\ CachePath[a] \in Paths /\ CachePath[a] \in Cached
         /\ CachePath[a] \notin LocalPaths /\ Form[CachePath[a]] = "gtpack"
         /\ \A b \in Artifacts : CachePath[a] = CachePath[b] => a = b
BY FetchAssumption DEF Cached, LocalPaths

LEMMA BeginIs ==
  ASSUME NEW p \in Paths, Begin(p)
  PROVE  /\ load' \in Load /\ load' # None /\ load'.path = p
         /\ load'.stage = "start" /\ load'.touched = FALSE
<1>1. load' \in Load
  BY DEF Begin, Load
<1> QED  BY <1>1, LoadParts DEF Begin

\* A step that leaves the loader alone, or begins a load or ends one in a failure
\* without writing to the disk, keeps what is known of the load.
LEMMA LoaderKept ==
  ASSUME IInv, disk' = disk, replaced' = replaced,
         \/ load' = load
         \/ load' = None
         \/ \E p \in Paths : Begin(p),
         \/ result' = result
         \/ \E code, p, t : result' = [error |-> code, path |-> p, touched |-> t]
  PROVE  LoaderTypeOK' /\ StageInv' /\ FreshInv' /\ WholeInv'
<1>1. IF IsPack(result') THEN result' \in Pack
      ELSE DOMAIN result' = {"error", "path", "touched"}
  <2>1. CASE result' = result
    BY <2>1 DEF IInv, TypeOK, LoaderTypeOK
  <2>2. CASE \E code, p, t : result' = [error |-> code, path |-> p, touched |-> t]
    BY <2>2, FailureIs
  <2> QED  BY <2>1, <2>2
<1>2. load' \in Load \cup {None}
  BY BeginIs DEF IInv, TypeOK, LoaderTypeOK
<1>3. LoaderTypeOK'
  BY <1>1, <1>2 DEF IInv, TypeOK, LoaderTypeOK
<1>4. StageInv' /\ FreshInv'
  <2>1. CASE load' = load
    BY <2>1 DEF IInv, StageInv, FreshInv
  <2>2. CASE load' = None
    BY <2>2 DEF StageInv, FreshInv
  <2>3. CASE \E p \in Paths : Begin(p)
    <3>1. load'.stage = "start"
      BY <2>3, BeginIs
    <3> QED  BY <3>1 DEF StageInv, FreshInv
  <2> QED  BY <2>1, <2>2, <2>3
<1>5. WholeInv'
  BY DEF IInv, WholeInv
<1> QED  BY <1>3, <1>4, <1>5

-----------------------------------------------------------------------------
(***************************************************************************)
(* Each action keeps the invariant.                                        *)
(***************************************************************************)
LEMMA InitHolds ==
  ASSUME Init
  PROVE  IInv
<1>1. PICK a \in Artifacts : disk = [p \in Paths |-> IF p \in Cached THEN None ELSE a]
  BY DEF Init
<1>2. TypeOK
  <2>1. ~IsPack(result) /\ DOMAIN result = {"error", "path", "touched"}
    BY FailureIs DEF Init, Nothing
  <2>2. LoaderTypeOK
    BY <1>1, <2>1, LoaderAssumption DEF Init, LoaderTypeOK
  <2> QED  BY <2>2, FetchAssumption DEF Init, TypeOK
<1>3. \A b \in Artifacts : disk[CachePath[b]] = None
  BY <1>1, CachePaths
<1>4. StageInv /\ FreshInv /\ HandedInv
  BY DEF Init, StageInv, FreshInv, HandedInv
<1>5. WholeInv /\ CacheHoldsWhatItNames
  BY <1>3 DEF WholeInv, CacheHoldsWhatItNames
<1>6. FetchedIsLoaded /\ PulledIsPinned
  BY DEF Init, FetchedIsLoaded, PulledIsPinned
<1> QED  BY <1>2, <1>4, <1>5, <1>6 DEF IInv

LEMMA StartFetchKeeps ==
  ASSUME IInv, NEW ref \in References, StartFetch(ref)
  PROVE  IInv'
<1>1. /\ load = None /\ fetch = None /\ load' = None /\ source' = None
      /\ UNCHANGED <<disk, replaced, load, result, remote, cut>>
  BY DEF StartFetch, Idle, loaderVars
<1>2. LoaderTypeOK' /\ StageInv' /\ FreshInv' /\ WholeInv'
  BY <1>1, LoaderKept
<1>3. fetch' \in Fetch /\ fetch' # None /\ fetch'.stage = "resolve"
  <2>1. fetch' \in Fetch
    BY DEF StartFetch, Fetch
  <2> QED  BY <2>1, FetchParts DEF StartFetch
<1>4. fetches' \in 0..MaxFetches
  BY FetchAssumption DEF StartFetch, IInv, TypeOK
<1>5. TypeOK'
  BY <1>1, <1>2, <1>3, <1>4 DEF IInv, TypeOK
<1>6. HandedInv' /\ FetchedIsLoaded' /\ PulledIsPinned'
  BY <1>1, <1>3 DEF HandedInv, FetchedIsLoaded, PulledIsPinned
<1>7. CacheHoldsWhatItNames'
  BY <1>1 DEF IInv, CacheHoldsWhatItNames
<1> QED  BY <1>2, <1>5, <1>6, <1>7 DEF IInv

LEMMA StartLoadKeeps ==
  ASSUME IInv, NEW p \in LocalPaths, StartLoad(p)
  PROVE  IInv'
<1>1. /\ load = None /\ fetch = None /\ fetch' = None /\ source' = None
      /\ UNCHANGED <<disk, replaced, result, remote, fetch, cut>>
      /\ p \in Paths /\ Begin(p)
  BY DEF StartLoad, Idle, LocalPaths
<1>2. LoaderTypeOK' /\ StageInv' /\ FreshInv' /\ WholeInv'
  BY <1>1, LoaderKept
<1>3. load' # None
  BY <1>1, BeginIs
<1>4. fetches' \in 0..MaxFetches
  BY FetchAssumption DEF StartLoad, IInv, TypeOK
<1>5. TypeOK'
  BY <1>1, <1>2, <1>4 DEF IInv, TypeOK
<1>6. HandedInv' /\ FetchedIsLoaded' /\ PulledIsPinned'
  BY <1>1 DEF HandedInv, FetchedIsLoaded, PulledIsPinned
<1>7. CacheHoldsWhatItNames'
  BY <1>1 DEF IInv, CacheHoldsWhatItNames
<1> QED  BY <1>2, <1>5, <1>6, <1>7 DEF IInv

LEMMA FetchFailsKeeps ==
  ASSUME IInv, fetch # None, fetch.stage = "resolve", NEW code, FetchFails(code)
  PROVE  IInv'
<1>1. /\ load = None /\ load' = None /\ fetch' = None /\ source = None /\ source' = None
      /\ result' = [error |-> code, path |-> None, touched |-> FALSE]
      /\ UNCHANGED <<disk, replaced, load, remote, fetches, cut>>
  BY DEF FetchFails, IInv, HandedInv
<1>2. LoaderTypeOK' /\ StageInv' /\ FreshInv' /\ WholeInv'
  BY <1>1, LoaderKept
<1>3. TypeOK'
  BY <1>1, <1>2 DEF IInv, TypeOK
<1>4. HandedInv' /\ FetchedIsLoaded' /\ PulledIsPinned'
  BY <1>1 DEF HandedInv, FetchedIsLoaded, PulledIsPinned
<1>5. CacheHoldsWhatItNames'
  BY <1>1 DEF IInv, CacheHoldsWhatItNames
<1> QED  BY <1>2, <1>3, <1>4, <1>5 DEF IInv

\* The bytes that were got are those of an artifact; of a pull the rules hold.
LEMMA GotKeeps ==
  ASSUME IInv, fetch # None, fetch.stage = "resolve",
         NEW image \in Images \cup {None}, NEW data \in Artifacts, Got(image, data),
         image # None =>
           /\ fetch.ref.pinned \in {None, image}
           /\ \E n : /\ FirstOfLowest(image.layers, n, Len(image.layers))
                     /\ data = image.layers[n].data
  PROVE  IInv'
<1>1. /\ load = None /\ fetch \in Fetch /\ fetch.ref \in References
      /\ UNCHANGED <<disk, replaced, load, result, remote, fetches, cut>>
  BY FetchParts DEF Got, loaderVars, IInv, TypeOK, HandedInv
<1>2. LoaderTypeOK' /\ StageInv' /\ FreshInv' /\ WholeInv'
  BY <1>1, LoaderKept
<1>3. fetch' = [ref |-> fetch.ref, stage |-> "write", data |-> data]
  <2> DEFINE staged == [ref |-> fetch.ref, stage |-> "write", data |-> fetch.data]
  <2>1. [fetch EXCEPT !.stage = "write"] = staged
    BY <1>1 DEF Fetch
  <2>2. [staged EXCEPT !.data = data] = [ref |-> fetch.ref, stage |-> "write", data |-> data]
    OBVIOUS
  <2>3. fetch' = [[fetch EXCEPT !.stage = "write"] EXCEPT !.data = data]
    BY DEF Got
  <2> HIDE DEF staged
  <2> QED  BY <2>1, <2>2, <2>3
<1>4. fetch' \in Fetch /\ fetch' # None /\ fetch'.stage = "write" /\ fetch'.data = data
  <2>1. fetch' \in Fetch
    BY <1>1, <1>3 DEF Fetch
  <2> QED  BY <1>3, <2>1, FetchParts
<1>5. /\ source' \in Source /\ source' # None /\ source'.data = data
      /\ source'.image = image /\ source'.ref = fetch.ref
  <2>1. source' \in Source
    BY <1>1 DEF Got, Source
  <2> QED  BY <2>1, SourceParts DEF Got
<1>6. TypeOK'
  BY <1>1, <1>2, <1>4, <1>5 DEF IInv, TypeOK
<1>7. HandedInv'
  BY <1>1, <1>4, <1>5 DEF HandedInv
<1>8. CacheHoldsWhatItNames'
  BY <1>1 DEF IInv, CacheHoldsWhatItNames
<1>9. FetchedIsLoaded'
  BY <1>4 DEF FetchedIsLoaded, Idle
<1>10. PulledIsPinned'
  <2> SUFFICES ASSUME image # None
               PROVE  PulledIsPinned'
    BY <1>5 DEF PulledIsPinned
  <2>1. PICK n : /\ FirstOfLowest(image.layers, n, Len(image.layers))
                 /\ data = image.layers[n].data
    OBVIOUS
  <2> QED  BY <1>5, <2>1 DEF PulledIsPinned, FirstOfLowest
<1> QED  BY <1>2, <1>6, <1>7, <1>8, <1>9, <1>10 DEF IInv

LEMMA FetchLocalKeeps ==
  ASSUME IInv, FetchLocal
  PROVE  IInv'
<1> DEFINE p == fetch.ref.path
<1>1. /\ fetch # None /\ fetch.stage = "resolve" /\ p \in LocalPaths /\ p \in Paths
      /\ load = None /\ source = None
  BY FetchParts, ReferenceParts
     DEF FetchLocal, Resolving, IInv, TypeOK, HandedInv, LocalPaths
<1> HIDE DEF p
<1>2. CASE disk[p] \in Artifacts /\ Got(None, disk[p])
  BY <1>1, <1>2, GotKeeps
<1>3. CASE /\ fetch' = None /\ Begin(p)
           /\ UNCHANGED <<disk, replaced, result, remote, fetches, cut, source>>
  <2>1. LoaderTypeOK' /\ StageInv' /\ FreshInv' /\ WholeInv'
    BY <1>1, <1>3, LoaderKept
  <2>2. load' # None
    BY <1>1, <1>3, BeginIs
  <2>3. TypeOK'
    BY <1>3, <2>1 DEF IInv, TypeOK
  <2>4. HandedInv' /\ FetchedIsLoaded' /\ PulledIsPinned'
    BY <1>1, <1>3, <2>2 DEF HandedInv, FetchedIsLoaded, PulledIsPinned
  <2>5. CacheHoldsWhatItNames'
    BY <1>1, <1>3 DEF IInv, CacheHoldsWhatItNames
  <2> QED  BY <2>1, <2>3, <2>4, <2>5 DEF IInv
<1> QED  BY <1>2, <1>3 DEF FetchLocal, p

LEMMA FetchHttpKeeps ==
  ASSUME IInv, FetchHttp
  PROVE  IInv'
<1> DEFINE image == remote[fetch.ref.target]
<1>1. /\ fetch # None /\ fetch.stage = "resolve" /\ image \in Images
      /\ image.layers # <<>>
  BY FetchParts, ReferenceParts DEF FetchHttp, Resolving, IInv, TypeOK
<1>2. Got(None, image.layers[1].data)
  BY DEF FetchHttp
<1> HIDE DEF image
<1>3. image.layers[1].data \in Artifacts
  BY <1>1, ImageParts
<1> QED  BY <1>1, <1>2, <1>3, GotKeeps

LEMMA PullOciKeeps ==
  ASSUME IInv, PullOci
  PROVE  IInv'
<1> DEFINE image == remote[fetch.ref.target]
           n == SelectLayer(image.layers)
<1>1. /\ fetch # None /\ fetch.stage = "resolve" /\ image \in Images
      /\ image.layers # <<>>
  BY FetchParts, ReferenceParts DEF PullOci, Resolving, IInv, TypeOK
<1>2. IF Verify(fetch.ref.pinned, image) THEN Got(image, image.layers[n].data)
      ELSE FetchFails("pack_digest_mismatch")
  BY DEF PullOci
<1> HIDE DEF image
<1>3. FirstOfLowest(image.layers, n, Len(image.layers))
  BY <1>1, ImageParts, SelectLayerIs, FetchAssumption
<1> HIDE DEF n
<1>4. image.layers[n].data \in Artifacts /\ image # None
  BY <1>1, <1>3, ImageParts DEF FirstOfLowest
<1>5. CASE Verify(fetch.ref.pinned, image)
  <2>1. fetch.ref.pinned \in {None, image}
    BY <1>5 DEF Verify
  <2> QED  BY <1>1, <1>2, <1>3, <1>4, <1>5, <2>1, GotKeeps
<1>6. CASE ~Verify(fetch.ref.pinned, image)
  BY <1>1, <1>2, <1>6, FetchFailsKeeps
<1> QED  BY <1>5, <1>6

LEMMA ResolveFailsKeeps ==
  ASSUME IInv, ResolveFails
  PROVE  IInv'
<1>1. fetch # None /\ fetch.stage = "resolve" /\ \E code : FetchFails(code)
  BY DEF ResolveFails, Resolving
<1> QED  BY <1>1, FetchFailsKeeps

\* What has been got: the bytes, the source they were got from, and where they go.
LEMMA GotIs ==
  ASSUME IInv, fetch # None, fetch.stage # "resolve"
  PROVE  /\ fetch \in Fetch /\ load = None /\ source # None /\ source.data = fetch.data
         /\ fetch.data \in Artifacts
         /\ CachePath[fetch.data] \in Paths /\ CachePath[fetch.data] \in Cached
<1>1. /\ fetch \in Fetch /\ load = None /\ source # None /\ source.data = fetch.data
      /\ source \in Source
  BY DEF IInv, TypeOK, HandedInv
<1>2. fetch.data \in Artifacts
  BY <1>1, SourceParts
<1> QED  BY <1>1, <1>2, CachePaths

\* Handing over a file that is whole or was cut off keeps all but what is said of
\* the cache, whose files other than this one are as before.
LEMMA HandKeeps ==
  ASSUME IInv, fetch # None, fetch.stage # "resolve", Hand(CachePath[fetch.data]),
         UNCHANGED cut,
         \/ disk' = disk /\ fetch.stage = "write"
         \/ disk' = [disk EXCEPT ![CachePath[fetch.data]] = fetch.data]
  PROVE  IInv'
<1> DEFINE d == fetch.data
           p == CachePath[d]
<1>1. /\ fetch \in Fetch /\ load = None /\ source # None /\ source.data = d
      /\ d \in Artifacts /\ p \in Paths /\ p \in Cached
  BY GotIs
<1>2. /\ fetch' = None /\ Begin(p)
      /\ UNCHANGED <<replaced, result, remote, fetches, source, cut>>
  BY DEF Hand
<1>3. disk' = disk \/ disk' = [disk EXCEPT ![p] = d]
  OBVIOUS
<1>4. /\ load' \in Load /\ load' # None /\ load'.path = p
      /\ load'.stage = "start" /\ load'.touched = FALSE
  BY <1>1, <1>2, BeginIs
<1>5. ASSUME NEW a \in Artifacts
      PROVE  disk'[CachePath[a]] \in {a, None} \/ CachePath[a] \in cut'
  <2>1. /\ CachePath[a] \in Paths /\ (CachePath[a] = p => a = d)
        /\ disk \in [Paths -> Artifacts \cup {Torn, None}]
    BY <1>1, CachePaths DEF IInv, TypeOK, LoaderTypeOK
  <2>2. \/ disk[CachePath[a]] \in {a, None}
        \/ CachePath[a] \in cut
        \/ fetch.stage = "writing" /\ a = d
    BY DEF IInv, CacheHoldsWhatItNames
  <2>3. CASE disk' = disk /\ fetch.stage = "write"
    BY <1>2, <2>2, <2>3
  <2>4. CASE disk' = [disk EXCEPT ![p] = d]
    <3>1. disk'[CachePath[a]] = IF CachePath[a] = p THEN d ELSE disk[CachePath[a]]
      BY <1>1, <2>1, <2>4
    <3>2. CASE a = d
      BY <3>1, <3>2
    <3>3. CASE a # d
      BY <1>2, <2>1, <2>2, <3>1, <3>3
    <3> QED  BY <3>2, <3>3
  <2> QED  BY <2>3, <2>4
<1> HIDE DEF d, p
<1>6. LoaderTypeOK'
  BY <1>1, <1>2, <1>3, <1>4 DEF IInv, TypeOK, LoaderTypeOK
<1>7. TypeOK'
  BY <1>2, <1>6 DEF IInv, TypeOK
<1>8. StageInv' /\ FreshInv'
  BY <1>4 DEF StageInv, FreshInv
<1>9. HandedInv'
  BY <1>1, <1>2, <1>4 DEF HandedInv, p
<1>10. ASSUME NEW a \in Artifacts
       PROVE  disk'[CachePath[a]] \in {a, Torn, None}
  <2>1. /\ CachePath[a] \in Paths /\ (CachePath[a] = p => a = d)
        /\ disk \in [Paths -> Artifacts \cup {Torn, None}]
        /\ disk[CachePath[a]] \in {a, Torn, None}
    BY <1>1, CachePaths DEF IInv, TypeOK, LoaderTypeOK, WholeInv, p
  <2> QED  BY <1>1, <1>3, <2>1
<1>11. FetchedIsLoaded'
  BY <1>4 DEF FetchedIsLoaded, Idle
<1>12. PulledIsPinned'
  BY <1>2 DEF IInv, PulledIsPinned
<1>13. CacheHoldsWhatItNames' /\ WholeInv'
  BY <1>5, <1>10 DEF CacheHoldsWhatItNames, WholeInv
<1> QED  BY <1>7, <1>8, <1>9, <1>11, <1>12, <1>13 DEF IInv

LEMMA BeginWriteKeeps ==
  ASSUME IInv, BeginWrite
  PROVE  IInv'
<1> DEFINE d == fetch.data
           p == CachePath[d]
<1>1. /\ fetch \in Fetch /\ fetch # None /\ fetch.stage = "write"
      /\ load = None /\ source # None /\ source.data = d
      /\ d \in Artifacts /\ p \in Paths /\ p \in Cached
  BY GotIs DEF BeginWrite
<1>2. CASE disk[p] # None
  BY <1>1, <1>2, HandKeeps DEF BeginWrite
<1>3. CASE disk[p] = None
  <2>1. /\ disk' = [disk EXCEPT ![p] = Torn]
        /\ fetch' = [fetch EXCEPT !.stage = "writing"]
        /\ UNCHANGED <<replaced, load, result, remote, fetches, cut, source>>
    BY <1>3 DEF BeginWrite
  <2>2. /\ fetch' \in Fetch /\ fetch' # None /\ fetch'.stage = "writing"
        /\ fetch'.data = d
    <3>1. fetch' = [ref |-> fetch.ref, stage |-> "writing", data |-> d]
      BY <1>1, <2>1 DEF Fetch
    <3>2. fetch' \in Fetch
      BY <1>1, <3>1 DEF Fetch
    <3> QED  BY <3>1, <3>2, FetchParts
  <2> HIDE DEF d
  <2>3. ASSUME NEW a \in Artifacts
        PROVE  /\ disk'[CachePath[a]] \in {a, Torn, None}
               /\ \/ disk'[CachePath[a]] \in {a, None}
                  \/ CachePath[a] \in cut
                  \/ a = d
    <3>1. /\ CachePath[a] \in Paths /\ (CachePath[a] = p => a = d)
          /\ disk \in [Paths -> Artifacts \cup {Torn, None}]
          /\ disk[CachePath[a]] \in {a, Torn, None}
      BY <1>1, CachePaths DEF IInv, TypeOK, LoaderTypeOK, WholeInv
    <3>2. disk[CachePath[a]] \in {a, None} \/ CachePath[a] \in cut
      BY <1>1 DEF IInv, CacheHoldsWhatItNames
    <3>3. disk'[CachePath[a]] = IF CachePath[a] = p THEN Torn ELSE disk[CachePath[a]]
      BY <1>1, <2>1, <3>1
    <3> QED  BY <3>1, <3>2, <3>3
  <2> HIDE DEF p
  <2>4. LoaderTypeOK'
    BY <1>1, <2>1 DEF IInv, TypeOK, LoaderTypeOK
  <2>5. TypeOK'
    BY <2>1, <2>2, <2>4 DEF IInv, TypeOK
  <2>6. StageInv' /\ FreshInv'
    BY <1>1, <2>1 DEF StageInv, FreshInv
  <2>7. HandedInv'
    BY <1>1, <2>1, <2>2 DEF HandedInv
  <2>8. WholeInv' /\ CacheHoldsWhatItNames'
    BY <2>1, <2>2, <2>3 DEF WholeInv, CacheHoldsWhatItNames
  <2>9. FetchedIsLoaded'
    BY <2>2 DEF FetchedIsLoaded, Idle
  <2>10. PulledIsPinned'
    BY <2>1 DEF IInv, PulledIsPinned
  <2> QED  BY <2>5, <2>6, <2>7, <2>8, <2>9, <2>10 DEF IInv
<1> QED  BY <1>2, <1>3

LEMMA EndWriteKeeps ==
  ASSUME IInv, EndWrite
  PROVE  IInv'
BY HandKeeps DEF EndWrite

\* A write that ends half way, by an error or with the daemon: the path is cut off.
LEMMA CutKeeps ==
  ASSUME IInv, fetch' = None, UNCHANGED disk,
         cut' = IF fetch # None /\ fetch.stage = "writing"
                THEN cut \cup {CachePath[fetch.data]} ELSE cut
  PROVE  CacheHoldsWhatItNames' /\ cut' \subseteq Cached
<1>1. ASSUME NEW a \in Artifacts
      PROVE  disk[CachePath[a]] \in {a, None} \/ CachePath[a] \in cut'
  BY DEF IInv, CacheHoldsWhatItNames
<1>2. cut' \subseteq Cached
  BY GotIs DEF IInv, TypeOK
<1> QED  BY <1>1, <1>2 DEF CacheHoldsWhatItNames

LEMMA WriteFailsKeeps ==
  ASSUME IInv, WriteFails
  PROVE  IInv'
<1>1. /\ fetch' = None /\ load = None /\ load' = None
      /\ result' = [error |-> "pack_fetch_failed", path |-> None, touched |-> FALSE]
      /\ UNCHANGED <<disk, replaced, load, remote, fetches, source>>
  BY GotIs DEF WriteFails
<1>2. LoaderTypeOK' /\ StageInv' /\ FreshInv' /\ WholeInv'
  BY <1>1, LoaderKept
<1>3. CacheHoldsWhatItNames' /\ cut' \subseteq Cached
  BY <1>1, CutKeeps DEF WriteFails
<1>4. TypeOK'
  BY <1>1, <1>2, <1>3 DEF IInv, TypeOK
<1>5. HandedInv' /\ PulledIsPinned'
  BY <1>1 DEF IInv, HandedInv, PulledIsPinned
<1>6. FetchedIsLoaded'
  BY <1>1, FailureIs DEF FetchedIsLoaded
<1> QED  BY <1>2, <1>3, <1>4, <1>5, <1>6 DEF IInv

LEMMA CrashKeeps ==
  ASSUME IInv, Crash
  PROVE  IInv'
<1>1. /\ fetch' = None /\ load' = None /\ source' = None
      /\ UNCHANGED <<disk, replaced, result, remote, fetches>>
  BY DEF Crash
<1>2. LoaderTypeOK' /\ StageInv' /\ FreshInv' /\ WholeInv'
  BY <1>1, LoaderKept
<1>3. CacheHoldsWhatItNames' /\ cut' \subseteq Cached
  BY <1>1, CutKeeps DEF Crash
<1>4. TypeOK'
  BY <1>1, <1>2, <1>3 DEF IInv, TypeOK
<1>5. HandedInv' /\ PulledIsPinned' /\ FetchedIsLoaded'
  BY <1>1 DEF HandedInv, PulledIsPinned, FetchedIsLoaded
<1> QED  BY <1>2, <1>3, <1>4, <1>5 DEF IInv

LEMMA PublishKeeps ==
  ASSUME IInv, NEW target \in Targets, NEW image \in Images \cup {None},
         Publish(target, image)
  PROVE  IInv'
<1>1. /\ remote' = [remote EXCEPT ![target] = image] /\ replaced' = replaced + 1
      /\ replaced < MaxReplaced
      /\ UNCHANGED <<disk, load, result, fetch, fetches, cut, source>>
  BY DEF Publish
<1>2. replaced' \in 0..MaxReplaced
  BY <1>1, LoaderAssumption DEF IInv, TypeOK, LoaderTypeOK
<1>3. TypeOK'
  BY <1>1, <1>2 DEF IInv, TypeOK, LoaderTypeOK, IsPack
<1>4. StageInv' /\ FreshInv' /\ HandedInv' /\ WholeInv'
  BY <1>1 DEF IInv, StageInv, FreshInv, HandedInv, WholeInv
<1>5. CacheHoldsWhatItNames'
  BY <1>1 DEF IInv, CacheHoldsWhatItNames
<1>6. FetchedIsLoaded' /\ PulledIsPinned'
  BY <1>1 DEF IInv, FetchedIsLoaded, PulledIsPinned, Idle, IsPack
<1> QED  BY <1>3, <1>4, <1>5, <1>6 DEF IInv

LEMMA TouchedIs ==
  ASSUME NEW l \in Load
  PROVE  /\ [l EXCEPT !.touched = TRUE] \in Load
         /\ [l EXCEPT !.touched = TRUE].touched = TRUE
         /\ [l EXCEPT !.touched = TRUE].path = l.path
         /\ [l EXCEPT !.touched = TRUE].stage = l.stage
         /\ [l EXCEPT !.touched = TRUE].bytes = l.bytes
         /\ [l EXCEPT !.touched = TRUE].metadata = l.metadata
         /\ [l EXCEPT !.touched = TRUE].handoff = l.handoff
BY DEF Load

LEMMA ReplaceKeeps ==
  ASSUME IInv, NEW p \in LocalPaths, NEW a \in Artifacts \cup {None},
         Replace(p, a), UNCHANGED fetchVars
  PROVE  IInv'
<1>1. /\ replaced < MaxReplaced /\ replaced' = replaced + 1
      /\ disk' = [disk EXCEPT ![p] = a]
      /\ load' = IF load # None /\ load.path = p THEN [load EXCEPT !.touched = TRUE]
                 ELSE load
      /\ UNCHANGED <<result, remote, fetch, fetches, cut, source>> /\ p \in Paths
  BY DEF Replace, fetchVars, LocalPaths
<1>2. replaced' \in 0..MaxReplaced
  BY <1>1, LoaderAssumption DEF IInv, TypeOK, LoaderTypeOK
<1>3. /\ load \in Load \cup {None} /\ disk \in [Paths -> Artifacts \cup {Torn, None}]
      /\ \A q \in Paths : disk'[q] = IF q = p THEN a ELSE disk[q]
      /\ load # None => load.path \in Paths
  BY <1>1, LoadParts DEF IInv, TypeOK, LoaderTypeOK
<1>4. /\ load' \in Load \cup {None}
      /\ load' = None <=> load = None
      /\ load # None =>
           /\ load'.path = load.path /\ load'.stage = load.stage /\ load'.bytes = load.bytes
           /\ load'.metadata = load.metadata /\ load'.handoff = load.handoff
           /\ ~load'.touched => ~load.touched /\ load.path # p
  <2>1. CASE load # None /\ load.path = p
    BY <1>1, <1>3, <2>1, TouchedIs, LoadParts
  <2>2. CASE ~ (load # None /\ load.path = p)
    BY <1>1, <1>3, <2>2
  <2> QED  BY <2>1, <2>2
<1>5. disk' \in [Paths -> Artifacts \cup {Torn, None}]
  BY <1>1, <1>3
<1>6. TypeOK'
  BY <1>1, <1>2, <1>4, <1>5 DEF IInv, TypeOK, LoaderTypeOK, IsPack
<1>7. StageInv'
  BY <1>4 DEF IInv, StageInv
<1>8. FreshInv'
  <2> SUFFICES ASSUME load' # None, ~load'.touched
               PROVE  /\ load'.stage \in {"metadata", "handoff"} =>
                           /\ disk'[load'.path] \in Artifacts
                           /\ disk'[load'.path].metadata = load'.metadata
                      /\ load'.stage = "metadata" => disk'[load'.path].handoff # None
                      /\ load'.stage = "handoff" =>
                           disk'[load'.path].handoff = load'.handoff
    BY DEF FreshInv
  <2>1. disk'[load'.path] = disk[load.path]
    BY <1>3, <1>4
  <2> QED  BY <1>4, <2>1 DEF IInv, FreshInv
<1>9. \A b \in Artifacts : disk'[CachePath[b]] = disk[CachePath[b]]
  BY <1>3, CachePaths
<1>10. HandedInv'
  <2>1. source \in Source \cup {None}
    BY DEF IInv, TypeOK
  <2> QED  BY <1>1, <1>4, <1>9, <2>1, SourceParts DEF IInv, HandedInv
<1>11. WholeInv' /\ CacheHoldsWhatItNames'
  BY <1>1, <1>9 DEF IInv, WholeInv, CacheHoldsWhatItNames
<1>12. FetchedIsLoaded' /\ PulledIsPinned'
  BY <1>1, <1>4 DEF IInv, FetchedIsLoaded, PulledIsPinned, Idle, IsPack
<1> QED  BY <1>6, <1>7, <1>8, <1>10, <1>11, <1>12 DEF IInv

\* A load of what was fetched reads a file of the cache, which is whole: what it
\* reads is what was fetched.
LEMMA LoadKeeps ==
  ASSUME IInv, LoadStep, UNCHANGED fetchVars
  PROVE  IInv'
<1>1. /\ Proceeds /\ load # None /\ fetch = None
      /\ UNCHANGED <<disk, replaced, remote, fetch, fetches, cut, source>>
  <2>1. load # None
    BY DEF LoadStep, Unsupported, ReadMetadata, ReadHandoff, ReadFiles, ReadBytes,
           OpenPack, Is
  <2> QED  BY <2>1, LoadProceeds DEF IInv, TypeOK, HandedInv, Proceeds, fetchVars
<1>2. TypeOK' /\ StageInv' /\ FreshInv'
  BY <1>1 DEF IInv, TypeOK, Proceeds
<1>3. WholeInv' /\ CacheHoldsWhatItNames'
  BY <1>1 DEF IInv, WholeInv, CacheHoldsWhatItNames
<1>4. PulledIsPinned'
  BY <1>1 DEF IInv, PulledIsPinned
<1>5. HandedInv' /\ FetchedIsLoaded'
  <2>1. CASE source = None
    BY <1>1, <2>1 DEF IInv, HandedInv, FetchedIsLoaded
  <2>2. CASE source # None
    <3>1. /\ source.data \in Artifacts /\ load.path = CachePath[source.data]
          /\ load.stage \in {"start", "opened"}
          /\ load.stage = "opened" => load.bytes = disk[load.path]
          /\ Form[load.path] = "gtpack" /\ Held = disk[load.path]
          /\ Held \in {source.data, Torn, None}
      BY <1>1, <2>2, SourceParts, CachePaths
         DEF IInv, TypeOK, HandedInv, WholeInv, Held
    <3>2. ReadBytes \/ OpenPack
      BY <3>1 DEF LoadStep, Unsupported, ReadMetadata, ReadHandoff, ReadFiles, Is
    <3>3. CASE ReadBytes
      <4>1. load' # None =>
              load'.path = load.path /\ load'.stage = "opened" /\ load'.bytes = Held
        BY <3>3, BytesProceed DEF IInv, TypeOK, Proceeds
      <4>2. load' = None => ~IsPack(result')
        <5> SUFFICES ASSUME load' = None  PROVE ~IsPack(result')
          OBVIOUS
        <5>1. Held = None
          <6> SUFFICES ASSUME Held # None  PROVE FALSE
            OBVIOUS
          <6>1. load' = [load EXCEPT !.stage = "opened", !.bytes = Held]
            BY <3>3 DEF ReadBytes
          <6>2. load \in Load
            BY <1>1 DEF IInv, TypeOK, LoaderTypeOK
          <6>3. load' \in Load
            BY <3>1, <6>1, <6>2, BytesRead, LoadParts DEF Load
          <6> QED  BY <6>3, LoadParts
        <5> QED  BY <3>3, <5>1, FailureIs DEF ReadBytes, Fail, Finish
      <4>3. HandedInv'
        BY <1>1, <3>1, <4>1 DEF HandedInv
      <4>4. FetchedIsLoaded'
        BY <4>2 DEF FetchedIsLoaded, Idle
      <4> QED  BY <4>3, <4>4
    <3>4. CASE OpenPack
      <4>1. /\ load' = None
            /\ IsPack(result') =>
                 /\ result'.packDigest = load.bytes /\ Held \in Artifacts
                 /\ result'.handoff = Held.handoff /\ result'.metadata = Held.metadata
        BY <3>4, OpenProceeds DEF IInv, TypeOK
      <4>2. load.bytes = Held
        BY <1>1, <3>1, <3>4 DEF OpenPack, Is
      <4>3. IsPack(result') => Held = source.data
        BY <3>1, <4>1, ArtifactParts
      <4>4. HandedInv'
        BY <1>1, <4>1 DEF HandedInv
      <4>5. FetchedIsLoaded'
        BY <1>1, <4>1, <4>2, <4>3 DEF FetchedIsLoaded
      <4> QED  BY <4>4, <4>5
    <3> QED  BY <3>2, <3>3, <3>4
  <2> QED  BY <2>1, <2>2
<1> QED  BY <1>2, <1>3, <1>4, <1>5 DEF IInv

LEMMA StutterKeeps ==
  ASSUME IInv, UNCHANGED vars
  PROVE  IInv'
<1>1. UNCHANGED <<disk, replaced, load, result, remote, fetch, fetches, cut, source>>
  BY DEF vars, loaderVars, fetchVars
<1>2. TypeOK'
  BY <1>1 DEF IInv, TypeOK, LoaderTypeOK, IsPack
<1>3. StageInv' /\ FreshInv' /\ HandedInv' /\ WholeInv'
  BY <1>1 DEF IInv, StageInv, FreshInv, HandedInv, WholeInv
<1>4. CacheHoldsWhatItNames' /\ FetchedIsLoaded' /\ PulledIsPinned'
  BY <1>1 DEF IInv, CacheHoldsWhatItNames, FetchedIsLoaded, PulledIsPinned, Idle, IsPack
<1> QED  BY <1>2, <1>3, <1>4 DEF IInv

LEMMA StepKeeps ==
  ASSUME IInv, [Next]_vars
  PROVE  IInv'
<1>1. ASSUME NEW ref \in References, StartFetch(ref)  PROVE IInv'
  BY <1>1, StartFetchKeeps
<1>2. ASSUME NEW p \in LocalPaths, StartLoad(p)  PROVE IInv'
  BY <1>2, StartLoadKeeps
<1>3. CASE FetchStep
  BY <1>3, ResolveFailsKeeps, FetchLocalKeeps, FetchHttpKeeps, PullOciKeeps,
     BeginWriteKeeps, EndWriteKeeps, WriteFailsKeeps
     DEF FetchStep
<1>4. CASE LoadStep /\ UNCHANGED fetchVars
  BY <1>4, LoadKeeps
<1>5. ASSUME NEW p \in LocalPaths, NEW a \in Artifacts \cup {None},
             Replace(p, a) /\ UNCHANGED fetchVars
      PROVE  IInv'
  BY <1>5, ReplaceKeeps
<1>6. ASSUME NEW target \in Targets, NEW image \in Images \cup {None},
             Publish(target, image)
      PROVE  IInv'
  BY <1>6, PublishKeeps
<1>7. CASE Crash
  BY <1>7, CrashKeeps
<1>8. CASE UNCHANGED vars
  BY <1>8, StutterKeeps
<1> QED  BY <1>1, <1>2, <1>3, <1>4, <1>5, <1>6, <1>7, <1>8 DEF Next

-----------------------------------------------------------------------------
(***************************************************************************)
(* What is shown.                                                          *)
(***************************************************************************)
\* The inductive invariant holds for any artifacts, paths, images and references.
THEOREM Invariance == Spec => []IInv
<1>1. Init => IInv
  BY InitHolds
<1>2. IInv /\ [Next]_vars => IInv'
  BY StepKeeps
<1> QED  BY <1>1, <1>2, PTL DEF Spec

\* What is kept of a fetch and of a load is of its type (fetch_pack_ref,
\* load_operational_pack).
THEOREM TypeCorrect == Spec => []TypeOK
<1>1. IInv => TypeOK
  BY DEF IInv
<1> QED  BY <1>1, Invariance, PTL

\* A file of the cache holds what its name is the digest of, unless a write of it
\* is going on or was cut off (write_to_cache).
THEOREM CacheIsWhole == Spec => []CacheHoldsWhatItNames
<1>1. IInv => CacheHoldsWhatItNames
  BY DEF IInv
<1> QED  BY <1>1, Invariance, PTL

\* What is loaded after a fetch is what was fetched, and its digest says so
\* (fetch_pack_ref, load_pilot_gtpack).
THEOREM FetchedPackIsLoaded == Spec => []FetchedIsLoaded
<1>1. IInv => FetchedIsLoaded
  BY DEF IInv
<1> QED  BY <1>1, Invariance, PTL

\* What is pulled is of the image that the reference pins, and is the first of the
\* layers that no other is preferred to (verify_digest, select_layer).
THEOREM PulledLayerIsPinned == Spec => []PulledIsPinned
<1>1. IInv => PulledIsPinned
  BY DEF IInv
<1> QED  BY <1>1, Invariance, PTL

\* A load ends in a sound pack or in an error, and in a pack exactly if its path
\* is sound, if nobody replaced it meanwhile (load_handoff_dir, load_pilot_gtpack).
THEOREM SoundPacksLoad == Spec => LoadsIfSound
<1>1. IInv /\ [Next]_vars => [LoadStep /\ load' = None => Concluded]_loaderVars
  <2> SUFFICES ASSUME IInv, LoadStep, load' = None
               PROVE  Concluded
    OBVIOUS
  <2> QED  BY LoadProceeds DEF IInv, TypeOK, Proceeds
<1>2. Spec => [][LoadStep /\ load' = None => Concluded]_loaderVars
  BY <1>1, Invariance, PTL DEF Spec
<1> QED  BY <1>2 DEF LoadsIfSound, Concluded

=============================================================================
