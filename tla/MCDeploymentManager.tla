------------------------ MODULE MCDeploymentManager ------------------------
(***************************************************************************)
(* Instances of DeploymentManager for TLC.  good1 and good2 are packs that *)
(* load, torn is a file that does not; p1 is a path of the caller, c1 to   *)
(* c3 are the cache files of the three contents.                           *)
(***************************************************************************)
EXTENDS DeploymentManager, TLC

CONSTANTS d1, d2, t1, t2, tenant1, good1, good2, torn, p1, c1, c2, c3

MCCachePath ==
  LET file == (good1 :> c1) @@ (good2 :> c2) @@ (torn :> c3)
  IN [c \in Contents |-> file[c]]

Src(r, p) == [ref |-> r, path |-> p]

\* A caller's path, a reference that comes with a path, and neither.
AllSources == {Src(None, p1), Src(good1, p1), Src(None, None)}

\* The cache in the instances whose clients send no reference: one file.
UnusedCache == [c \in Contents |-> c1]

Symmetry == Permutations(Ids) \cup Permutations(Threads)

\* A caller's path.
PathOnly == {Src(None, p1)}
=============================================================================
