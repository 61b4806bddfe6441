------------------------------ MODULE PackFetch ------------------------------
(***************************************************************************)
(* fetch_pack_ref in front of the loader: a reference is resolved, what it *)
(* names is read, downloaded or pulled, and a copy is kept under the name  *)
(* of its digest; then the copy is loaded (resolve_effective_path and      *)
(* load_operational_pack, under the write lock of the deployment manager). *)
(* The daemon may crash at any point, and the disk may fill up.            *)
(***************************************************************************)
EXTENDS PackLoader, Sequences

CONSTANTS
  References,    \* references that clients send
  Targets,       \* what http and OCI references name
  CachePath,     \* CachePath[a]: the path in the cache of the digest of a
  MediaTypes,    \* media types of layers
  Preferred,     \* default_preferred_pack_layer_media_types
  RepoBase, StoreBase,   \* whether the bases of repo:// and store:// are set
  Images,        \* what targets may hold: pages of http are images of one layer
  MaxFetches     \* bound: requests with a reference

Cached == {CachePath[a] : a \in Artifacts}
LocalPaths == Paths \ Cached

\* A parsed reference; the digest it pins is that of an image.
Reference == [scheme : {"oci", "repo", "store"}, target : Targets,
              pinned : Images \cup {None}]
               \cup [scheme : {"http"}, target : Targets]
               \cup [scheme : {"file"}, path : LocalPaths]

\* The layers of an image, in order, and whether the registry tells its digest.
Image == [layers : Seq([media : MediaTypes, data : Artifacts]), told : BOOLEAN]

VARIABLES
  remote,    \* what each target holds, None if it cannot be had
  fetch,     \* the fetch under way, None if there is none
  fetches,   \* requests so far
  cut,       \* observation: paths of the cache with a write that was cut off
  source     \* observation: what the load under way or the last was fetched from

fetchVars == <<remote, fetch, fetches, cut, source>>
vars == <<loaderVars, fetchVars>>

Fetch == [ref : References, stage : {"resolve", "write", "writing"},
          data : Artifacts \cup {None}]

\* What a fetch got: of which reference, from which image if there was one.
Source == [ref : References, image : Images \cup {None}, data : Artifacts]

ASSUME FetchAssumption ==
  /\ References \subseteq Reference
  /\ CachePath \in [Artifacts -> Paths]
  /\ \A a, b \in Artifacts : CachePath[a] = CachePath[b] => a = b
  /\ \A a \in Artifacts : Form[CachePath[a]] = "gtpack"
  /\ Preferred \in Seq(MediaTypes)
  /\ RepoBase \in BOOLEAN /\ StoreBase \in BOOLEAN
  /\ Images \subseteq Image
  /\ MaxFetches \in Nat
  /\ None \notin Images \cup References \cup Fetch \cup Source

TypeOK ==
  /\ LoaderTypeOK
  /\ remote \in [Targets -> Images \cup {None}]
  /\ fetch \in Fetch \cup {None}
  /\ fetches \in 0..MaxFetches
  /\ cut \subseteq Cached
  /\ source \in Source \cup {None}

Init ==
  /\ \E a \in Artifacts : disk = [p \in Paths |-> IF p \in Cached THEN None ELSE a]
  /\ replaced = 0 /\ load = None /\ result = Nothing
  /\ remote \in [Targets -> Images]
  /\ fetch = None /\ fetches = 0 /\ cut = {} /\ source = None

-----------------------------------------------------------------------------
(***************************************************************************)
(* Operators of an OCI pull.                                               *)
(***************************************************************************)

\* The rank of a media type, Len(Preferred) + 1 if it has none.
Rank(media) ==
  LET at == {n \in 1..Len(Preferred) : Preferred[n] = media}
  IN IF at = {} THEN Len(Preferred) + 1 ELSE CHOOSE n \in at : \A k \in at : n >= k

\* Mutant: of two layers of the same rank the later one.
SelectLatest(layers) ==
  LET best[n \in 1..Len(layers)] ==
        IF n = 1 THEN 1
        ELSE IF Rank(layers[n].media) <= Rank(layers[best[n - 1]].media) THEN n
        ELSE best[n - 1]
  IN best[Len(layers)]

\* select_layer: the loop keeps the first layer of the lowest rank so far.
SelectLayer(layers) ==
  LET best[n \in 1..Len(layers)] ==
        IF n = 1 THEN 1
        ELSE IF Rank(layers[n].media) < Rank(layers[best[n - 1]].media) THEN n
        ELSE best[n - 1]
  IN best[Len(layers)]

\* Mutant: what the registry does not tell is taken to be right.
VerifyTold(pinned, image) == pinned = None \/ ~image.told \/ pinned = image

\* verify_digest: against the digest of the image, or else that of the layer,
\* which no digest of an image equals.
Verify(pinned, image) == pinned = None \/ (image.told /\ pinned = image)

\* The error of map_scheme, None if there is none.
SchemeError(ref) ==
  IF ref.scheme = "repo" /\ ~RepoBase THEN "missing_repo_registry_base"
  ELSE IF ref.scheme = "store" /\ ~StoreBase THEN "missing_store_registry_base"
  ELSE None

-----------------------------------------------------------------------------
Idle == fetch = None /\ load = None

\* A deploy or an upgrade by reference ...
StartFetch(ref) ==
  /\ Idle
  /\ fetches < MaxFetches
  /\ fetches' = fetches + 1
  /\ fetch' = [ref |-> ref, stage |-> "resolve", data |-> None]
  /\ source' = None
  /\ UNCHANGED <<loaderVars, remote, cut>>

\* ... or by gtpack_path.
StartLoad(p) ==
  /\ Idle
  /\ fetches < MaxFetches
  /\ fetches' = fetches + 1
  /\ Begin(p)
  /\ source' = None
  /\ UNCHANGED <<disk, replaced, result, remote, fetch, cut>>

\* The reference resolves to nothing, the cache directory cannot be made, or what
\* it names cannot be had.
FetchFails(code) ==
  /\ fetch' = None
  /\ result' = [error |-> code, path |-> None, touched |-> FALSE]
  /\ UNCHANGED <<disk, replaced, load, remote, fetches, cut, source>>

Resolving(schemes) ==
  /\ fetch # None
  /\ fetch.stage = "resolve"
  /\ fetch.ref.scheme \in schemes

ResolveFails ==
  \/ /\ Resolving({"repo", "store"})
     /\ SchemeError(fetch.ref) # None
     /\ FetchFails(SchemeError(fetch.ref))
  \/ /\ Resolving({"oci", "repo", "store", "http", "file"})
     /\ SchemeError(fetch.ref) = None
     /\ FetchFails("pack_fetch_failed")

\* The bytes are there, in memory.
Got(image, data) ==
  /\ fetch' = [fetch EXCEPT !.stage = "write", !.data = data]
  /\ source' = [ref |-> fetch.ref, image |-> image, data |-> data]
  /\ UNCHANGED <<loaderVars, remote, fetches, cut>>

\* A local directory is used as it is, a local file is copied.
FetchLocal ==
  /\ Resolving({"file"})
  /\ LET p == fetch.ref.path IN
     IF Form[p] = "dir" /\ disk[p] # None
     THEN /\ fetch' = None
          /\ Begin(p)
          /\ UNCHANGED <<disk, replaced, result, remote, fetches, cut, source>>
     ELSE /\ disk[p] \in Artifacts
          /\ Got(None, disk[p])

FetchHttp ==
  /\ Resolving({"http"})
  /\ remote[fetch.ref.target] # None
  /\ remote[fetch.ref.target].layers # <<>>
  /\ Got(None, remote[fetch.ref.target].layers[1].data)

\* pull_oci_layer_bytes: the layer is chosen, and the digest checked before a byte
\* of it is kept.
PullOci ==
  /\ Resolving({"oci", "repo", "store"})
  /\ SchemeError(fetch.ref) = None
  /\ remote[fetch.ref.target] # None
  /\ remote[fetch.ref.target].layers # <<>>
  /\ LET image == remote[fetch.ref.target] IN
     IF Verify(fetch.ref.pinned, image)
     THEN Got(image, image.layers[SelectLayer(image.layers)].data)
     ELSE FetchFails("pack_digest_mismatch")

\* The copy is loaded.
Hand(p) ==
  /\ fetch' = None
  /\ Begin(p)
  /\ UNCHANGED <<replaced, result, remote, fetches, source>>

\* Mutant: files of the cache are named by what they were fetched from, so that
\* one that is there is taken for whatever is there now.
BeginWriteByTarget ==
  /\ fetch # None
  /\ fetch.stage = "write"
  /\ \E a \in Artifacts :
       LET p == CachePath[a] IN
       IF disk[p] # None
       THEN Hand(p) /\ UNCHANGED <<disk, cut>>
       ELSE /\ disk' = [disk EXCEPT ![p] = Torn]
            /\ fetch' = [fetch EXCEPT !.stage = "writing"]
            /\ UNCHANGED <<replaced, load, result, remote, fetches, cut, source>>

\* write_to_cache: a file that is there is not written again ...
BeginWrite ==
  /\ fetch # None
  /\ fetch.stage = "write"
  /\ LET p == CachePath[fetch.data] IN
     IF disk[p] # None
     THEN Hand(p) /\ UNCHANGED <<disk, cut>>
     ELSE /\ disk' = [disk EXCEPT ![p] = Torn]
          /\ fetch' = [fetch EXCEPT !.stage = "writing"]
          /\ UNCHANGED <<replaced, load, result, remote, fetches, cut, source>>

\* ... and fs::write ends well ...
EndWrite ==
  /\ fetch # None
  /\ fetch.stage = "writing"
  /\ LET p == CachePath[fetch.data] IN
     /\ disk' = [disk EXCEPT ![p] = fetch.data]
     /\ Hand(p)
  /\ UNCHANGED cut

\* ... or stops half way and leaves what it wrote.
WriteFails ==
  /\ fetch # None
  /\ fetch.stage = "writing"
  /\ cut' = cut \cup {CachePath[fetch.data]}
  /\ fetch' = None
  /\ result' = [error |-> "pack_fetch_failed", path |-> None, touched |-> FALSE]
  /\ UNCHANGED <<disk, replaced, load, remote, fetches, source>>

\* The daemon is killed; what it was writing stays as it is.
Crash ==
  /\ ~Idle
  /\ cut' = IF fetch # None /\ fetch.stage = "writing"
            THEN cut \cup {CachePath[fetch.data]} ELSE cut
  /\ fetch' = None /\ load' = None /\ source' = None
  /\ UNCHANGED <<disk, replaced, result, remote, fetches>>

FetchStep ==
  ResolveFails \/ FetchLocal \/ FetchHttp \/ PullOci \/ BeginWrite \/ EndWrite
    \/ WriteFails

\* Somebody publishes at a target, or takes it down.
Publish(target, image) ==
  /\ replaced < MaxReplaced
  /\ replaced' = replaced + 1
  /\ remote' = [remote EXCEPT ![target] = image]
  /\ UNCHANGED <<disk, load, result, fetch, fetches, cut, source>>

Next ==
  \/ \E ref \in References : StartFetch(ref)
  \/ \E p \in LocalPaths : StartLoad(p)
  \/ FetchStep
  \/ LoadStep /\ UNCHANGED fetchVars
  \/ \E p \in LocalPaths, a \in Artifacts \cup {None} :
       Replace(p, a) /\ UNCHANGED fetchVars
  \/ \E target \in Targets, image \in Images \cup {None} : Publish(target, image)
  \/ Crash

Spec == Init /\ [][Next]_vars

-----------------------------------------------------------------------------
(***************************************************************************)
(* Properties.                                                             *)
(***************************************************************************)

\* A file of the cache holds what its name is the digest of, unless a write of
\* it is going on or was cut off by a crash or a full disk (write_to_cache).
CacheHoldsWhatItNames ==
  \A a \in Artifacts :
    \/ disk[CachePath[a]] \in {a, None}
    \/ CachePath[a] \in cut
    \/ (fetch # None /\ fetch.stage = "writing" /\ fetch.data = a)

\* A pack that was fetched into the cache is the one that was read, downloaded or
\* pulled, and its digest tells so, whatever happened to its source since
\* (fetch_pack_ref, load_pilot_gtpack).
FetchedIsLoaded ==
  Idle /\ source # None /\ IsPack(result) =>
    /\ result.packDigest = source.data
    /\ result.handoff = source.data.handoff
    /\ result.metadata = source.data.metadata

\* What is pulled for a pinned reference is of the image that it pins, and is the
\* first of the layers that no other layer is preferred to (verify_digest,
\* select_layer).
PulledIsPinned ==
  source # None /\ source.image # None =>
    /\ source.ref.pinned \in {None, source.image}
    /\ LET layers == source.image.layers IN
       \E n \in 1..Len(layers) :
         /\ source.data = layers[n].data
         /\ \A k \in 1..Len(layers) :
              IF k < n THEN Rank(layers[n].media) < Rank(layers[k].media)
              ELSE Rank(layers[n].media) <= Rank(layers[k].media)
=============================================================================
