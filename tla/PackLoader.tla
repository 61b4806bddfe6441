----------------------------- MODULE PackLoader -----------------------------
(***************************************************************************)
(* load_operational_pack: a handoff directory, read file by file, or a     *)
(* .gtpack, read twice, becomes an operational pack or an error.  Others   *)
(* may replace what a path holds between two reads.  A digest is modelled  *)
(* by what it is the digest of.                                            *)
(***************************************************************************)
EXTENDS Naturals, FiniteSets

CONSTANTS
  Paths,        \* paths of files and directories
  Form,         \* Form[p]: "dir", "gtpack" (by its extension) or "other"
  Artifacts,    \* what a path may hold
  Torn,         \* what a write that was cut off leaves: no artifact
  None,         \* the absent value
  MaxReplaced   \* bound: how often what a path holds is replaced

\* operala.yaml: which of the checks it passes, and whether it declares a digest.
Metadata == [yaml : BOOLEAN, schema : BOOLEAN, capability : BOOLEAN,
             sorx : {"runtime-provided", "other", None},
             requires : BOOLEAN, consumes : BOOLEAN, sourceDigest : BOOLEAN]

\* operala-handoff.json; no tells versions apart.
Handoff == [no : Nat, json : BOOLEAN, secret : BOOLEAN]

\* Files of flows/ by their name, and of schemas/.
FlowName == {"flow.yaml", "x.flow.yaml", "readme"}
SchemaFile == [nested : BOOLEAN, json : BOOLEAN]

Artifact == [zip : BOOLEAN, metadata : Metadata \cup {None},
             handoff : Handoff \cup {None},
             flows : SUBSET FlowName, schemas : SUBSET SchemaFile]

VARIABLES
  disk,       \* what each path holds, None if nothing
  replaced,   \* how often that was replaced
  load,       \* the load under way, None if there is none
  result      \* of the last load: a pack, or an error code

loaderVars == <<disk, replaced, load, result>>

\* What a load has read so far; touched observes that its path was replaced.
Load == [path : Paths, stage : {"start", "metadata", "handoff", "opened"},
         bytes : Artifacts \cup {Torn, None}, metadata : Metadata \cup {None},
         handoff : Handoff \cup {None}, touched : BOOLEAN]

\* An OperationalPack, with the path and the observation of its load.
Pack == [path : Paths, metadata : Metadata, handoff : Handoff,
         flows : SUBSET FlowName, schemas : SUBSET SchemaFile,
         packDigest : Artifacts \cup {Torn} \cup Handoff,
         sourceDigest : {"declared", "metadata", "path"}, touched : BOOLEAN]

\* The codes of the checks.
CheckCodes == {"invalid_operala_yaml", "invalid_handoff_schema", "missing_capability",
               "missing_sorx_binding", "invalid_sorx_binding",
               "invalid_capability_requirement", "invalid_event_subscription",
               "json_error", "secret_like_value", "missing_flows",
               "missing_input_schemas", "missing_operala_yaml",
               "missing_operala_handoff"}

ASSUME LoaderAssumption ==
  /\ Form \in [Paths -> {"dir", "gtpack", "other"}]
  /\ Artifacts \subseteq Artifact
  /\ MaxReplaced \in Nat
  /\ None \notin Metadata \cup Handoff \cup Artifact \cup Paths \cup Load
  /\ None \notin CheckCodes \cup {"runtime-provided", "other"}
  /\ Torn \notin Artifact \cup {None}

\* A failure is a record of its code, the path and the observation.
IsPack(r) == "error" \notin DOMAIN r

LoaderTypeOK ==
  /\ disk \in [Paths -> Artifacts \cup {Torn, None}]
  /\ replaced \in 0..MaxReplaced
  /\ load \in Load \cup {None}
  /\ IF IsPack(result) THEN result \in Pack
     ELSE DOMAIN result = {"error", "path", "touched"}

Nothing == [error |-> "none", path |-> None, touched |-> FALSE]

-----------------------------------------------------------------------------
(***************************************************************************)
(* The checks.  An error code, None if there is none.                      *)
(***************************************************************************)

\* Mutant: the binding is not looked at.
MetadataErrorUnbound(m) ==
  IF ~m.yaml THEN "invalid_operala_yaml"
  ELSE IF ~m.schema THEN "invalid_handoff_schema"
  ELSE IF ~m.capability THEN "missing_capability"
  ELSE IF ~m.requires THEN "invalid_capability_requirement"
  ELSE IF ~m.consumes THEN "invalid_event_subscription"
  ELSE None

\* parse_metadata and validate_metadata
MetadataError(m) ==
  IF ~m.yaml THEN "invalid_operala_yaml"
  ELSE IF ~m.schema THEN "invalid_handoff_schema"
  ELSE IF ~m.capability THEN "missing_capability"
  ELSE IF m.sorx = None THEN "missing_sorx_binding"
  ELSE IF m.sorx # "runtime-provided" THEN "invalid_sorx_binding"
  ELSE IF ~m.requires THEN "invalid_capability_requirement"
  ELSE IF ~m.consumes THEN "invalid_event_subscription"
  ELSE None

HandoffError(h) ==
  IF ~h.json THEN "json_error"
  ELSE IF h.secret THEN "secret_like_value"
  ELSE None

FilesError(flows, schemas) ==
  IF flows = {} THEN "missing_flows"
  ELSE IF schemas = {} THEN "missing_input_schemas"
  ELSE IF \E s \in schemas : ~s.json THEN "json_error"
  ELSE None

\* collect_files: files of the directory itself whose name ends so.
DirFlows(a) == a.flows \cap {"flow.yaml", "x.flow.yaml"}
DirSchemas(a) == {s \in a.schemas : ~s.nested}

\* Mutant: only schemas of the directory itself are taken.
PackSchemasTop(a) == {s \in a.schemas : ~s.nested}

\* In a .gtpack the name must end with ".flow.yaml", and schemas may be nested.
PackFlows(a) == a.flows \cap {"x.flow.yaml"}
PackSchemas(a) == a.schemas

-----------------------------------------------------------------------------
Finish(r) ==
  /\ result' = r
  /\ load' = None

Fail(code) ==
  Finish([error |-> code, path |-> load.path, touched |-> load.touched])

Begin(p) ==
  load' = [path |-> p, stage |-> "start", bytes |-> None, metadata |-> None,
           handoff |-> None, touched |-> FALSE]

Held == disk[load.path]
Is(form, stage) == load # None /\ Form[load.path] = form /\ load.stage = stage
Missing == Held \in {None, Torn}

\* Neither a directory nor a .gtpack.
Unsupported ==
  /\ load # None /\ Form[load.path] = "other"
  /\ Fail("unsupported_artifact")
  /\ UNCHANGED <<disk, replaced>>

\* What is not a directory is not read as one.  load_handoff_dir: both files must be
\* there, then the metadata is read ...
ReadMetadata ==
  /\ Is("dir", "start")
  /\ IF Missing THEN Fail("unsupported_artifact")
     ELSE IF Held.metadata = None THEN Fail("missing_operala_yaml")
     ELSE IF Held.handoff = None THEN Fail("missing_operala_handoff")
     ELSE /\ load' = [load EXCEPT !.stage = "metadata", !.metadata = Held.metadata]
          /\ UNCHANGED result
  /\ UNCHANGED <<disk, replaced>>

\* ... and the handoff, and the two are checked ...
ReadHandoff ==
  /\ Is("dir", "metadata")
  /\ IF Missing \/ Held.handoff = None THEN Fail("io_error")
     ELSE IF MetadataError(load.metadata) # None THEN Fail(MetadataError(load.metadata))
     ELSE IF HandoffError(Held.handoff) # None THEN Fail(HandoffError(Held.handoff))
     ELSE /\ load' = [load EXCEPT !.stage = "handoff", !.handoff = Held.handoff]
          /\ UNCHANGED result
  /\ UNCHANGED <<disk, replaced>>

\* ... then flows and schemas are collected.  The digest is that of the handoff.
ReadFiles ==
  /\ Is("dir", "handoff")
  /\ LET flows == IF Missing THEN {} ELSE DirFlows(Held)
         schemas == IF Missing THEN {} ELSE DirSchemas(Held)
     IN IF FilesError(flows, schemas) # None THEN Fail(FilesError(flows, schemas))
        ELSE Finish([path |-> load.path, metadata |-> load.metadata,
                     handoff |-> load.handoff, flows |-> flows, schemas |-> schemas,
                     packDigest |-> load.handoff, touched |-> load.touched,
                     sourceDigest |-> IF load.metadata.sourceDigest THEN "declared"
                                      ELSE "path"])
  /\ UNCHANGED <<disk, replaced>>

\* Mutant: the bytes are not read for the digest.
ReadBytesNever ==
  /\ Is("gtpack", "start")
  /\ IF Held = None THEN Fail("io_error")
     ELSE /\ load' = [load EXCEPT !.stage = "opened"]
          /\ UNCHANGED result
  /\ UNCHANGED <<disk, replaced>>

\* load_pilot_gtpack: the bytes are read for the digest ...
ReadBytes ==
  /\ Is("gtpack", "start")
  /\ IF Held = None THEN Fail("io_error")
     ELSE /\ load' = [load EXCEPT !.stage = "opened", !.bytes = Held]
          /\ UNCHANGED result
  /\ UNCHANGED <<disk, replaced>>

\* The first error in an opened .gtpack.
PackError(a) ==
  IF a.metadata = None THEN "missing_operala_yaml"
  ELSE IF a.handoff = None THEN "missing_operala_handoff"
  ELSE IF MetadataError(a.metadata) # None THEN MetadataError(a.metadata)
  ELSE IF HandoffError(a.handoff) # None THEN HandoffError(a.handoff)
  ELSE FilesError(PackFlows(a), PackSchemas(a))

\* ... and read again, by open_pack, for its files.
OpenPack ==
  /\ Is("gtpack", "opened")
  /\ IF Missing \/ ~Held.zip THEN Fail("invalid_gtpack")
     ELSE IF PackError(Held) # None THEN Fail(PackError(Held))
     ELSE Finish([path |-> load.path, metadata |-> Held.metadata,
                  handoff |-> Held.handoff, flows |-> PackFlows(Held),
                  schemas |-> PackSchemas(Held), packDigest |-> load.bytes,
                  touched |-> load.touched,
                  sourceDigest |-> IF Held.metadata.sourceDigest THEN "declared"
                                   ELSE "metadata"])
  /\ UNCHANGED <<disk, replaced>>

LoadStep ==
  Unsupported \/ ReadMetadata \/ ReadHandoff \/ ReadFiles \/ ReadBytes \/ OpenPack

\* Somebody puts another artifact in the place of one, or takes it away.
Replace(p, a) ==
  /\ replaced < MaxReplaced
  /\ replaced' = replaced + 1
  /\ disk' = [disk EXCEPT ![p] = a]
  /\ load' = IF load # None /\ load.path = p THEN [load EXCEPT !.touched = TRUE]
             ELSE load
  /\ UNCHANGED result

-----------------------------------------------------------------------------
(***************************************************************************)
(* What a load promises.                                                   *)
(***************************************************************************)
SoundMetadata(m) ==
  m.yaml /\ m.schema /\ m.capability /\ m.sorx = "runtime-provided"
    /\ m.requires /\ m.consumes

SoundHandoff(h) == h.json /\ ~h.secret

IsSound(pack) ==
  /\ SoundMetadata(pack.metadata) /\ SoundHandoff(pack.handoff)
  /\ pack.flows # {} /\ pack.schemas # {}
  /\ \A s \in pack.schemas : s.json

SoundAt(p) ==
  LET a == disk[p] IN
  /\ a \notin {None, Torn}
  /\ a.metadata # None /\ SoundMetadata(a.metadata)
  /\ a.handoff # None /\ SoundHandoff(a.handoff)
  /\ CASE Form[p] = "dir" ->
            /\ \E f \in a.flows : f \in {"flow.yaml", "x.flow.yaml"}
            /\ \E s \in a.schemas : ~s.nested
            /\ \A s \in a.schemas : s.nested \/ s.json
       [] Form[p] = "gtpack" ->
            a.zip /\ "x.flow.yaml" \in a.flows /\ a.schemas # {}
              /\ \A s \in a.schemas : s.json
       [] OTHER -> FALSE

\* A pack that is loaded is sound, in whichever form it came and whatever was
\* replaced while it was read: it is bound to the runtime's SoRX, holds no secret,
\* and has a flow and a schema.  What is not touched meanwhile is loaded exactly
\* if it is sound (load_handoff_dir, load_pilot_gtpack).
LoadsIfSound ==
  [][LoadStep /\ load' = None =>
       /\ IsPack(result') => IsSound(result')
       /\ ~load.touched => (IsPack(result') <=> SoundAt(load.path))]_loaderVars
=============================================================================
