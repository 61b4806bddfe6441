--------------------------- MODULE DeploymentSlots ---------------------------
(***************************************************************************)
(* What the deployment manager promises its callers, without its threads,  *)
(* lock, files and failures: a map of slots that deploy, upgrade and remove *)
(* change one id at a time, each in one step, and a saved copy of the whole *)
(* map from which a restarted daemon begins.                               *)
(***************************************************************************)
EXTENDS Naturals

CONSTANTS
  Ids,            \* deployment ids
  Tenants,        \* tenants a deployment is bound to
  Environments,   \* environment labels a deployment may declare
  Loadable,       \* contents of the packs that load
  None            \* the absent value

VARIABLES
  up,      \* the daemon runs
  slots,   \* the slot of each id, None if there is none
  saved    \* what the registry file says of each id

registryVars == <<up, slots, saved>>

\* A slot whose pack is None is Failed: run refuses it, upgrade heals it.
Saved == [tenant : Tenants, environment : Environments \cup {None},
          version : Nat \ {0}]
Slot == [tenant : Tenants, environment : Environments \cup {None},
         version : Nat \ {0}, pack : Loadable \cup {None}]

RegistryTypeOK ==
  /\ up \in BOOLEAN
  /\ slots \in [Ids -> Slot \cup {None}]
  /\ saved \in [Ids -> Saved \cup {None}]

Empty == [i \in Ids |-> None]

RegistryInit ==
  /\ up = FALSE
  /\ slots = Empty
  /\ saved = Empty

SavedForm(s) ==
  IF s = None THEN None
  ELSE [tenant |-> s.tenant, environment |-> s.environment,
        version |-> s.version]

LoadedForm(s, pack) ==
  IF s = None THEN None
  ELSE [tenant |-> s.tenant, environment |-> s.environment,
        version |-> s.version, pack |-> pack]

\* A new id begins at version 1, with a pack that loaded.
Deploy(id, tenant, env, pack) ==
  /\ up
  /\ slots[id] = None
  /\ slots' = [slots EXCEPT ![id] = [tenant |-> tenant, environment |-> env,
                                     version |-> 1, pack |-> pack]]
  /\ UNCHANGED <<up, saved>>

\* The swap of an upgrade keeps the binding and moves one version on.
Upgrade(id, pack) ==
  /\ up
  /\ slots[id] # None
  /\ slots' = [slots EXCEPT ![id].version = @ + 1, ![id].pack = pack]
  /\ UNCHANGED <<up, saved>>

Remove(id) ==
  /\ up
  /\ slots[id] # None
  /\ slots' = [slots EXCEPT ![id] = None]
  /\ UNCHANGED <<up, saved>>

\* The file is replaced as a whole by the map of that moment.
Save ==
  /\ up
  /\ saved' = [i \in Ids |-> SavedForm(slots[i])]
  /\ UNCHANGED <<up, slots>>

Stop ==
  /\ up
  /\ up' = FALSE
  /\ slots' = Empty
  /\ UNCHANGED saved

\* Every saved id has a slot again, with whatever its path now holds.
Restart ==
  /\ ~up
  /\ up' = TRUE
  /\ \E packs \in [Ids -> Loadable \cup {None}] :
       slots' = [i \in Ids |-> LoadedForm(saved[i], packs[i])]
  /\ UNCHANGED saved

Change ==
  \E id \in Ids :
    \/ \E tenant \in Tenants, env \in Environments \cup {None},
          pack \in Loadable : Deploy(id, tenant, env, pack)
    \/ \E pack \in Loadable : Upgrade(id, pack)
    \/ Remove(id)

RegistryNext == Change \/ Save \/ Stop \/ Restart

RegistrySpec == RegistryInit /\ [][RegistryNext]_registryVars
=============================================================================
