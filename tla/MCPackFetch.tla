----------------------------- MODULE MCPackFetch -----------------------------
(***************************************************************************)
(* A handoff directory and a .gtpack on disk, and one target in a registry *)
(* or on the web; two versions of a sound artifact, and artifacts that are *)
(* sound in one form only, or in none.                                     *)
(***************************************************************************)
EXTENDS PackFetch

CONSTANTS dir, file, text, target, zip, octet, markdown

Meta == [yaml |-> TRUE, schema |-> TRUE, capability |-> TRUE,
         sorx |-> "runtime-provided", requires |-> TRUE, consumes |-> TRUE,
         sourceDigest |-> TRUE]

Version(n) ==
  [zip |-> TRUE, metadata |-> Meta, handoff |-> [no |-> n, json |-> TRUE, secret |-> FALSE],
   flows |-> {"flow.yaml", "x.flow.yaml"},
   schemas |-> {[nested |-> FALSE, json |-> TRUE]}]

DirOnly == [Version(1) EXCEPT !.flows = {"flow.yaml"}, !.metadata.sourceDigest = FALSE]
ZipOnly == [Version(1) EXCEPT !.schemas = {[nested |-> TRUE, json |-> TRUE]}]
Bound == [Version(2) EXCEPT !.metadata.sorx = "other"]
Secret == [Version(2) EXCEPT !.handoff.secret = TRUE]

Bare == [Version(2) EXCEPT !.metadata.capability = FALSE, !.handoff = None]
NoZip == [Version(2) EXCEPT !.zip = FALSE]

MCArtifacts == {Version(1), Version(2), DirOnly, ZipOnly, Bound, Secret, Bare, NoZip}

\* Cached files are named by their content.
MCCachePath == [a \in MCArtifacts |-> a]
MCPaths == {dir, file, text} \cup MCArtifacts
MCForm ==
  [p \in MCPaths |-> IF p = dir THEN "dir" ELSE IF p = text THEN "other" ELSE "gtpack"]

Layer(m, a) == [media |-> m, data |-> a]

MCImages ==
  {[layers |-> <<Layer(octet, Secret), Layer(zip, Version(1)), Layer(zip, Version(2))>>,
    told |-> TRUE],
   [layers |-> <<Layer(octet, Version(2)), Layer(octet, Version(1))>>, told |-> FALSE]}

MCReferences ==
  {[scheme |-> "oci", target |-> target, pinned |-> i] : i \in MCImages}
    \cup {[scheme |-> s, target |-> target, pinned |-> None] : s \in {"repo", "store"}}
    \cup {[scheme |-> "http", target |-> target]}
    \cup {[scheme |-> "file", path |-> p] : p \in {dir, file}}

MCPreferred == <<zip, markdown>>
=============================================================================
