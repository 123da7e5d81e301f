--------------------------- MODULE OCIStoreProofs ---------------------------
(***************************************************************************)
(* What a pull, a delete and a packaging that succeed leave in the store,  *)
(* for any number of references, manifests and commands, whatever earlier  *)
(* commands that failed or were killed have left.                          *)
(*                                                                         *)
(* The invariant says, for each place of a running command, how what it    *)
(* has gathered relates to what its reference listed when it began, and    *)
(* which of its files are there.  Almost every leaf is a matter of logic   *)
(* and sets, for Zenon; the ones for the SMT solver say so.                *)
(***************************************************************************)
EXTENDS OCIStore, TLAPS

USE Zenon

Packs == {"merge", "remake", "exit", "overwrite"}
Ops == Packs \cup {"none", "pull", "delete"}
Jobs == [phase : {"none", "manifest", "config", "layer", "done", "failed"},
         open : {"no", "whole", "other"}]
Contents == {"none", "part", "whole", "other"}

Types ==
    /\ version \in DOMAIN Published /\ tag \in [Refs -> Names \cup {None}]
    /\ DOMAIN index \subseteq Names
    /\ \A n \in DOMAIN index : index[n] \in {Part} \cup SUBSET Manifests
    /\ file \in [Blobs -> Contents] /\ job \in [Manifests -> Jobs]
    /\ selected \subseteq Manifests /\ local \subseteq Manifests /\ new \subseteq Manifests
    /\ before \subseteq Manifests /\ rest \subseteq Manifests
    /\ victim \in Manifests \cup {None} /\ name \in Names \cup {None}
    /\ cmd.op \in Ops

-----------------------------------------------------------------------------
(* Which command is where                                                  *)

PullOnly == {"untag", "adopt", "merge", "open", "write", "link"}
Saving == {"reindex", "create", "save", "relink"}
Deleting == {"unlink", "unlist", "relist"}
Places == PullOnly \cup Saving \cup Deleting \cup {"blobs", "resolve", "combine", "idle", "ok"}

Control ==
    /\ pc \in Places
    /\ ~Idle => cmd.ref \in Refs /\ cmd.m \in Manifests /\ cmd.op # "none"
    /\ pc \in PullOnly => cmd.op = "pull"
    /\ pc = "resolve" => cmd.op = "delete"
    /\ pc = "combine" => cmd.op \in Packs
    /\ pc \in Saving => cmd.op \in Packs \cup {"delete"}
    /\ pc \in Deleting => cmd.op \in {"merge", "delete"} /\ victim \in Manifests
    /\ pc = "blobs" => cmd.op \in Packs \cup {"pull"}
    /\ pc \in Saving \cup {"open", "write", "link"} \/ (pc = "blobs" /\ cmd.op \in Packs)
          => name \in Names
    /\ pc = "relist" => tag[cmd.ref] \in Names
    /\ Idle => cmd = NoCmd /\ local = {} /\ new = {} /\ job = NoJobs

-----------------------------------------------------------------------------
(* What a pull has                                                         *)

Whole(m) == file[m] = "whole" /\ file[Layer[m]] = "whole"
InLayer(n) == job[n].phase = "layer" /\ job[n].open # "no"

\* A manifest that has been pulled is whole; so is its layer, unless another job is
\* writing it again, or has failed to.
PullJobs ==
    \A m \in Manifests :
       /\ job[m].open = "other" => job[m].phase = "config"
       /\ m \in selected => job[m].phase # "none"
       /\ job[m].phase \in {"config", "layer", "done"} => file[m] = "whole"
       /\ job[m].phase = "done" =>
             \/ file[Layer[m]] = "whole"
             \/ AnyFailed
             \/ \E n \in Manifests : Layer[n] = Layer[m] /\ InLayer(n)

PullInv ==
    /\ pc = "untag" => before = Listed(cmd.ref)
    /\ pc = "adopt" => name \in DOMAIN index /\ (index[name] # Part => before = index[name])
    /\ pc = "blobs" /\ cmd.op = "pull" => before \subseteq local /\ PullJobs
    /\ pc = "merge" => before \subseteq local /\ new = selected
    /\ pc \in {"open", "write", "link"} =>
          selected \subseteq new /\ \A m \in before : SamePlatform(m) \/ m \in new
    /\ pc \in {"merge", "open", "write", "link"} => \A m \in selected : Whole(m)
    /\ pc = "link" => name \in DOMAIN index /\ index[name] = new

-----------------------------------------------------------------------------
(* What a delete and a packaging have                                      *)

DeleteInv ==
    cmd.op = "delete" =>
       /\ pc \in {"unlink", "unlist"} => victim = cmd.m /\ before = Listed(cmd.ref)
       /\ pc = "relist" => rest = before \ {cmd.m}
       /\ pc = "resolve" /\ victim # None => Listed(cmd.ref) = before \ {cmd.m}
       /\ pc \in Saving /\ victim # None => new = before \ {cmd.m}

Others == IF cmd.op = "merge" THEN {m \in before : Plat[m] # PackPlat[cmd.m]} ELSE {}

\* The one job of a packaging.
PackJob ==
    LET phase == job[cmd.m].phase IN
    /\ \A m \in Manifests : job[m].open # "other" /\ (m # cmd.m => job[m].phase = "none")
    /\ phase # "none" /\ (phase \in {"config", "layer", "done"} => file[cmd.m] = "whole")
    /\ phase \in {"layer", "done"} => file[Config[cmd.m]] # "none"
    /\ phase = "done" => file[Layer[cmd.m]] # "none"
Packed == file[cmd.m] = "whole" /\ file[Config[cmd.m]] # "none" /\ file[Layer[cmd.m]] # "none"

PackInv ==
    cmd.op \in Packs =>
       /\ pc \in Deleting \cup {"combine"} => new = Others \ local /\ local \subseteq before
       /\ pc \in Deleting \cup {"combine"} /\ cmd.op # "merge" => local = {}
       /\ pc \in Saving \cup {"blobs"} => new = {cmd.m} \cup Others
       /\ pc = "blobs" => PackJob
       /\ pc \in Saving => Packed

StoreInv ==
    /\ Types /\ Control /\ PullInv /\ DeleteInv /\ PackInv
    /\ pc = "relink" => name \in DOMAIN index /\ index[name] = new

-----------------------------------------------------------------------------
(* The store                                                               *)

LEMMA Digests ==
    ASSUME NEW m \in Manifests
    PROVE  /\ m \in Blobs /\ Config[m] \in Blobs /\ Layer[m] \in Blobs
           /\ \A n \in Manifests : Config[m] # n /\ Layer[m] # n /\ Config[m] # Layer[n]
  BY StoreAssumption, DigestsAssumption, SMT DEF Blobs, Range

LEMMA Constants ==
    /\ None \notin Names /\ Part \notin SUBSET Manifests
    /\ \A o \in Refs \cup {"registry"}, ms \in SUBSET Manifests : <<o, ms>> \in Names
    /\ \A n \in Names : n[1] \in Refs \cup {"registry"}
    /\ \A v \in DOMAIN Published : Published[v] \subseteq Manifests
<1>1. None \notin Names /\ Part \notin SUBSET Manifests
  BY StoreAssumption
<1>2. \A v \in DOMAIN Published : Published[v] \subseteq Manifests
  BY StoreAssumption, SMT
<1> QED BY <1>1, <1>2 DEF Names, Origins

\* The files of the indexes.
IndexType(i) == DOMAIN i \subseteq Names /\ \A n \in DOMAIN i : i[n] \in {Part} \cup SUBSET Manifests

LEMMA WroteIndex ==
    ASSUME Types, NEW n \in Names, NEW ms \in {Part} \cup SUBSET Manifests
    PROVE  IndexType(Wrote(n, ms)) /\ n \in DOMAIN Wrote(n, ms) /\ Wrote(n, ms)[n] = ms
  BY DEF Types, IndexType, Wrote

LEMMA RemovedIndex ==
    ASSUME Types, NEW n
    PROVE  IndexType(Removed(n)) /\ n \notin DOMAIN Removed(n)
  BY DEF Types, IndexType, Removed, Restrict

LEMMA UnlinkedIndex ==
    ASSUME Types, NEW r \in Refs, RemoveIndex(r)
    PROVE  IndexType(index') /\ tag' \in [Refs -> Names \cup {None}] /\ Listed(r)' = {}
<1>1. IndexType(index') /\ tag[r] \notin DOMAIN index'
  BY RemovedIndex DEF RemoveIndex
<1>2. tag' \in [Refs -> Names \cup {None}] /\ tag'[r] \in {tag[r], None}
  BY DEF Types, RemoveIndex
<1>3. tag'[r] \notin DOMAIN index'
  BY <1>1, <1>2, Constants DEF IndexType
<1> QED BY <1>1, <1>2, <1>3 DEF Listed, ResolveIndex, Resolves

LEMMA ListedType ==
    ASSUME Types, NEW r \in Refs
    PROVE  Listed(r) \subseteq Manifests
  BY DEF Types, Listed, ResolveIndex, Resolves

LEMMA ListedLinked ==
    ASSUME NEW r \in Refs, tag'[r] \in DOMAIN index', index'[tag'[r]] \in SUBSET Manifests
    PROVE  Listed(r)' = index'[tag'[r]]
  BY Constants DEF Listed, ResolveIndex, Resolves

LEMMA NowListed ==
    ASSUME NEW r \in Refs, cmd.ref = r
    PROVE  ListedNow = Listed(r)'
<1>1. Refs \cap {cmd.ref} = {r}
  OBVIOUS
<1>2. {Listed(q)' : q \in Refs \cap {cmd.ref}} = {Listed(r)'}
  BY <1>1
<1> QED BY <1>2 DEF ListedNow

-----------------------------------------------------------------------------
(* The end of a command                                                    *)

StoreType == /\ IndexType(index) /\ tag \in [Refs -> Names \cup {None}]
             /\ file \in [Blobs -> Contents]

LEMMA JobTypes == NoJob \in Jobs /\ NoJobs \in [Manifests -> Jobs]
  BY DEF NoJob, Jobs, NoJobs

LEMMA Leaves ==
    ASSUME StoreInv, StoreType', NEW how \in {"idle", "ok"}, Leave(how)
    PROVE  StoreInv'
<1>1. /\ pc' = how /\ cmd' = NoCmd /\ selected' = {} /\ local' = {} /\ new' = {}
      /\ job' = NoJobs /\ victim' = None /\ rest' = {} /\ name' = None /\ before' = {}
      /\ version' = version
  BY DEF Leave
<1>2. cmd'.op = "none"
  BY <1>1 DEF NoCmd
<1>3. Types'
  BY <1>1, <1>2, JobTypes DEF StoreInv, Types, StoreType, IndexType, Ops
<1>4. Control'
  BY <1>1 DEF Control, Idle, Places, PullOnly, Saving, Deleting
<1>5. PullInv'
  BY <1>1 DEF PullInv
<1>6. DeleteInv' /\ PackInv'
  BY <1>2 DEF DeleteInv, PackInv, Packs
<1> QED BY <1>1, <1>3, <1>4, <1>5, <1>6 DEF StoreInv

LEMMA Endings ==
    ASSUME StoreInv,
           \/ Kill \/ WaitFails \/ AdoptFails \/ MergeFails \/ Link \/ LinkFails \/ UnlinkFails
           \/ RelistFails \/ Emptied \/ AlreadySaved \/ ResolveFails \/ SaveFails \/ Relink
           \/ RelinkFails
    PROVE  StoreInv'
<1> USE DEF Return
<1>1. StoreType /\ Types
  BY DEF StoreInv, Types, StoreType, IndexType
<1>2. CASE Kill \/ WaitFails \/ AdoptFails \/ LinkFails \/ AlreadySaved \/ ResolveFails \/ RelinkFails
  <2>1. UNCHANGED store
    BY <1>2 DEF Kill, WaitFails, AdoptFails, LinkFails, AlreadySaved, ResolveFails, RelinkFails
  <2>2. StoreType'
    BY <1>1, <2>1 DEF store, StoreType, IndexType
  <2>3. Leave("idle") \/ Leave("ok")
    BY <1>2 DEF Kill, WaitFails, AdoptFails, LinkFails, AlreadySaved, ResolveFails, RelinkFails
  <2> QED BY <2>2, <2>3, Leaves
<1>3. CASE MergeFails
  <2>1. file' \in [Blobs -> Contents] /\ tag' = tag /\ index' = index
    BY <1>1, <1>3 DEF MergeFails, StoreType, Contents
  <2>2. StoreType'
    BY <1>1, <2>1 DEF StoreType, IndexType
  <2> QED BY <1>3, <2>2, Leaves DEF MergeFails
<1>4. CASE Link \/ Relink
  <2>1. name \in Names
    BY <1>4 DEF StoreInv, Control, Link, Relink, Saving
  <2>2. tag' \in [Refs -> Names \cup {None}] /\ file' = file /\ index' = index
    BY <1>1, <1>4, <2>1 DEF StoreType, Link, Relink
  <2>3. StoreType'
    BY <1>1, <2>2 DEF StoreType, IndexType
  <2> QED BY <1>4, <2>3, Leaves DEF Link, Relink
<1>5. CASE UnlinkFails \/ RelistFails
  <2>1. /\ tag' \in [Refs -> Names \cup {None}] /\ file' \in [Blobs -> Contents] /\ index' = index
    BY <1>1, <1>5 DEF StoreType, UnlinkFails, RelistFails, Contents
  <2>2. StoreType'
    BY <1>1, <2>1 DEF StoreType, IndexType
  <2> QED BY <1>5, <2>2, Leaves DEF UnlinkFails, RelistFails
<1>6. CASE Emptied
  <2>1. cmd.ref \in Refs /\ RemoveIndex(cmd.ref) /\ file' = file
    BY <1>6 DEF Emptied, StoreInv, Control, Idle
  <2>2. StoreType'
    BY <1>1, <2>1, UnlinkedIndex DEF StoreType
  <2> QED BY <1>6, <2>2, Leaves DEF Emptied
<1>7. CASE SaveFails
  <2>1. IndexType(index') /\ tag' = tag /\ file' = file
    BY <1>1, <1>7, RemovedIndex DEF SaveFails
  <2>2. StoreType'
    BY <1>1, <2>1 DEF StoreType
  <2> QED BY <1>7, <2>2, Leaves DEF SaveFails
<1> QED BY <1>2, <1>3, <1>4, <1>5, <1>6, <1>7

-----------------------------------------------------------------------------
(* The beginning of a command                                              *)

LEMMA Begins ==
    ASSUME StoreInv, NEW op \in Ops \ {"none"}, NEW r \in Refs, NEW m \in Manifests, Begin(op, r, m)
    PROVE  /\ local = {} /\ new = {} /\ job = NoJobs
           /\ cmd'.op = op /\ cmd'.ref = r /\ cmd'.m = m
           /\ before' = Listed(r) /\ before' \subseteq Manifests /\ version' = version
<1>1. Idle /\ cmd' = [op |-> op, ref |-> r, m |-> m] /\ before' = Listed(r) /\ version' = version
  BY DEF Begin
<1>2. Listed(r) \subseteq Manifests
  BY ListedType DEF StoreInv
<1> QED BY <1>1, <1>2 DEF StoreInv, Control

LEMMA StartPulls ==
    ASSUME StoreInv, NEW r \in Refs, NEW m \in Manifests, StartPull(r, m)
    PROVE  StoreInv'
<1>1. /\ pc' = "untag" /\ UNCHANGED <<tag, index, file, local, new, job, victim, rest, name>>
      /\ selected' = {n \in RemoteIndex : Plat[n] \in Selects[Plat[m]]} /\ Begin("pull", r, m)
  BY DEF StartPull, store
<1>2. /\ cmd'.op = "pull" /\ cmd'.ref = r /\ cmd'.m = m
      /\ before' = Listed(r) /\ before' \subseteq Manifests /\ version' = version
  BY <1>1, Begins DEF Ops
<1>3. selected' \subseteq Manifests
  BY <1>1, Constants DEF RemoteIndex, StoreInv, Types
<1>4. Types'
  BY <1>1, <1>2, <1>3 DEF StoreInv, Types, Ops
<1>5. Control'
  BY <1>1, <1>2 DEF Control, Idle, Places, PullOnly, Saving, Deleting
<1>6. PullInv'
  BY <1>1, <1>2 DEF PullInv, Listed, ResolveIndex, Resolves
<1>7. DeleteInv' /\ PackInv'
  BY <1>2 DEF DeleteInv, PackInv, Packs
<1> QED BY <1>1, <1>4, <1>5, <1>6, <1>7 DEF StoreInv

LEMMA StartDeletes ==
    ASSUME StoreInv, NEW r \in Refs, NEW m \in Manifests, StartDelete(r, m)
    PROVE  StoreInv'
<1>1. /\ pc' = "unlink" /\ victim' = m
      /\ UNCHANGED <<tag, index, file, selected, local, new, job, rest, name>>
      /\ Begin("delete", r, m)
  BY DEF StartDelete, store
<1>2. /\ cmd'.op = "delete" /\ cmd'.ref = r /\ cmd'.m = m
      /\ before' = Listed(r) /\ before' \subseteq Manifests /\ version' = version
  BY <1>1, Begins DEF Ops
<1>3. Types'
  BY <1>1, <1>2 DEF StoreInv, Types, Ops
<1>4. Control'
  BY <1>1, <1>2 DEF Control, Idle, Places, PullOnly, Saving, Deleting
<1>5. PullInv'
  BY <1>1 DEF PullInv
<1>6. DeleteInv'
  BY <1>1, <1>2 DEF DeleteInv, Listed, ResolveIndex, Resolves, Saving
<1>7. PackInv'
  BY <1>2 DEF PackInv, Packs
<1> QED BY <1>1, <1>3, <1>4, <1>5, <1>6, <1>7 DEF StoreInv

LEMMA StartPackages ==
    ASSUME StoreInv, NEW r \in Refs, NEW m \in Manifests,
           StartMerge(r, m) \/ StartExit(r, m) \/ StartOverwrite(r, m)
    PROVE  StoreInv'
<1>1. PICK op \in Packs : Begin(op, r, m) /\ local' = IF op = "merge" THEN Listed(r) ELSE {}
  <2>1. CASE StartMerge(r, m)
    BY <2>1 DEF StartMerge, Packs
  <2>2. CASE StartExit(r, m)
    <3>1. Begin("exit", r, m) /\ local' = local
      BY <2>2 DEF StartExit
    <3> QED BY <3>1, Begins DEF Packs, Ops
  <2>3. CASE StartOverwrite(r, m)
    <3>1. Begin("overwrite", r, m) /\ local' = local
      BY <2>3 DEF StartOverwrite
    <3> QED BY <3>1, Begins DEF Packs, Ops
  <2> QED BY <2>1, <2>2, <2>3
<1>2. pc' = "combine" /\ UNCHANGED <<file, selected, new, job, victim, rest, name>>
  BY DEF StartMerge, StartExit, StartOverwrite, store
<1>3. /\ new = {} /\ cmd'.op = op /\ cmd'.ref = r /\ cmd'.m = m
      /\ before' = Listed(r) /\ before' \subseteq Manifests /\ version' = version
  BY <1>1, Begins DEF Ops, Packs
<1>4. IndexType(index') /\ tag' \in [Refs -> Names \cup {None}]
  <2>1. CASE UNCHANGED <<tag, index>>
    BY <2>1 DEF StoreInv, Types, IndexType
  <2>2. CASE RemoveIndex(r)
    BY <2>2, UnlinkedIndex DEF StoreInv
  <2> QED BY <2>1, <2>2 DEF StartMerge, StartExit, StartOverwrite, store
<1>5. local' \subseteq before' /\ (op # "merge" => local' = {}) /\ (op = "merge" => local' = before')
  BY <1>1, <1>3
<1>6. Types'
  BY <1>2, <1>3, <1>4, <1>5 DEF StoreInv, Types, IndexType, Ops
<1>7. Control'
  BY <1>2, <1>3 DEF Control, Idle, Places, PullOnly, Saving, Deleting, Packs
<1>8. PullInv'
  BY <1>2 DEF PullInv
<1>9. DeleteInv'
  BY <1>2, <1>3 DEF DeleteInv, Saving
<1>10. new' = {} /\ (Others \ local)' = {}
  BY <1>2, <1>3, <1>5 DEF Others
<1>11. PackInv'
  BY <1>2, <1>3, <1>5, <1>10 DEF PackInv, Saving
<1> QED BY <1>2, <1>6, <1>7, <1>8, <1>9, <1>11 DEF StoreInv

LEMMA Publishes == ASSUME StoreInv, Publish PROVE StoreInv'
<1>1. /\ Idle /\ pc' = "idle" /\ version < Len(Published) /\ version' = version + 1
      /\ UNCHANGED <<tag, index, file, cmd, selected, local, new, job, victim, rest, name, before>>
  BY DEF Publish, store, locals
<1>2. cmd.op = "none" /\ cmd = NoCmd
  BY <1>1, SMT DEF StoreInv, Control, NoCmd
<1>3. version' \in DOMAIN Published
  BY <1>1, StoreAssumption, SMT DEF StoreInv, Types
<1>4. Types'
  BY <1>1, <1>3 DEF StoreInv, Types
<1>5. Control'
  BY <1>1 DEF StoreInv, Control, Idle, Places, PullOnly, Saving, Deleting
<1>6. PullInv'
  BY <1>1 DEF PullInv
<1>7. DeleteInv' /\ PackInv'
  BY <1>1, <1>2 DEF DeleteInv, PackInv, Packs
<1> QED BY <1>1, <1>4, <1>5, <1>6, <1>7 DEF StoreInv

-----------------------------------------------------------------------------
(* The steps of a pull                                                     *)

LEMMA StartedJobs ==
    ASSUME NEW ms \in SUBSET Manifests, StartBlobs(ms)
    PROVE  /\ pc' = "blobs" /\ job' \in [Manifests -> Jobs]
           /\ \A m \in Manifests : /\ job'[m].open = "no"
                                   /\ job'[m].phase = IF m \in ms THEN "manifest" ELSE "none"
<1>1. job' = [m \in Manifests |-> IF m \in ms THEN [phase |-> "manifest", open |-> "no"] ELSE NoJob]
  BY DEF StartBlobs
<1>2. [phase |-> "manifest", open |-> "no"] \in Jobs /\ NoJob \in Jobs
  BY DEF Jobs, NoJob
<1>3. job' \in [Manifests -> Jobs]
  BY <1>1, <1>2
<1>4. \A m \in Manifests : /\ job'[m].open = "no"
                           /\ job'[m].phase = IF m \in ms THEN "manifest" ELSE "none"
  BY <1>1 DEF NoJob
<1> QED BY <1>3, <1>4 DEF StartBlobs

\* The jobs of a pull, when they have just been started.
LEMMA PullStarts ==
    ASSUME StoreInv, StartBlobs(selected), selected' = selected
    PROVE  pc' = "blobs" /\ job' \in [Manifests -> Jobs] /\ PullJobs'
<1>1. /\ pc' = "blobs" /\ job' \in [Manifests -> Jobs]
      /\ \A m \in Manifests : /\ job'[m].open = "no"
                              /\ job'[m].phase = IF m \in selected THEN "manifest" ELSE "none"
  BY StartedJobs DEF StoreInv, Types
<1> QED BY <1>1 DEF PullJobs

LEMMA PullSteps ==
    ASSUME StoreInv, Untag \/ Adopt
    PROVE  StoreInv'
<1>1. /\ cmd' = cmd /\ cmd.op = "pull" /\ cmd.ref \in Refs /\ cmd.m \in Manifests
      /\ UNCHANGED <<version, file, selected, new, victim, rest, before>>
  BY DEF Untag, Adopt, StoreInv, Control, Idle, PullOnly, env
<1>2. CASE Untag /\ Resolves(cmd.ref)
  <2>1. /\ pc' = "adopt" /\ UNCHANGED <<index, job, local>> /\ name' = tag[cmd.ref]
        /\ tag' = [tag EXCEPT ![cmd.ref] = None] /\ pc = "untag"
    BY <1>2 DEF Untag
  <2>2. name' \in DOMAIN index' /\ name' \in Names /\ (index'[name'] # Part => before = index'[name'])
    BY <1>1, <1>2, <2>1 DEF StoreInv, Types, PullInv, Listed, ResolveIndex, Resolves
  <2>3. Types'
    BY <1>1, <2>1, <2>2 DEF StoreInv, Types
  <2>4. Control'
    BY <1>1, <2>1 DEF Control, Idle, Places, PullOnly, Saving, Deleting
  <2>5. PullInv'
    BY <1>1, <2>1, <2>2 DEF PullInv
  <2>6. DeleteInv' /\ PackInv'
    BY <1>1 DEF DeleteInv, PackInv, Packs
  <2> QED BY <2>1, <2>3, <2>4, <2>5, <2>6 DEF StoreInv
<1>3. CASE (Untag /\ ~Resolves(cmd.ref)) \/ Adopt
  <2>1. StartBlobs(selected) /\ tag' = tag /\ name' = name
    BY <1>3 DEF Untag, Adopt
  <2>2. pc' = "blobs" /\ job' \in [Manifests -> Jobs] /\ PullJobs'
    BY <1>1, <2>1, PullStarts
  <2>3. IndexType(index') /\ local' \subseteq Manifests /\ before \subseteq local'
    <3>1. CASE Untag /\ ~Resolves(cmd.ref)
      <4>1. index' = index /\ local' = local /\ pc = "untag"
        BY <3>1 DEF Untag
      <4>2. before = {}
        BY <3>1, <4>1 DEF StoreInv, PullInv, Listed, ResolveIndex
      <4> QED BY <4>1, <4>2 DEF StoreInv, Types, IndexType
    <3>2. CASE Adopt
      <4>1. index' = Removed(name) /\ local' = index[name] /\ index[name] # Part /\ pc = "adopt"
        BY <3>2 DEF Adopt
      <4>2. name \in DOMAIN index /\ before = index[name]
        BY <4>1 DEF StoreInv, PullInv
      <4> QED BY <4>1, <4>2, RemovedIndex DEF StoreInv, Types
    <3> QED BY <1>3, <3>1, <3>2
  <2>4. Types'
    BY <1>1, <2>1, <2>2, <2>3 DEF StoreInv, Types, IndexType
  <2>5. Control'
    BY <1>1, <2>2 DEF Control, Idle, Places, PullOnly, Saving, Deleting, Packs
  <2>6. PullInv'
    BY <1>1, <2>2, <2>3 DEF PullInv
  <2>7. DeleteInv' /\ PackInv'
    BY <1>1 DEF DeleteInv, PackInv, Packs
  <2> QED BY <2>2, <2>4, <2>5, <2>6, <2>7 DEF StoreInv
<1> QED BY <1>2, <1>3

LEMMA PulledStep == ASSUME StoreInv, Pulled PROVE StoreInv'
<1>1. /\ pc = "blobs" /\ cmd.op = "pull" /\ pc' = "merge" /\ new' = selected /\ Waited /\ ~AnyFailed
      /\ UNCHANGED <<version, tag, index, file, cmd, selected, local, job, victim, rest, name, before>>
  BY DEF Pulled, Waited, env, store
<1>2. before \subseteq local /\ PullJobs /\ selected \subseteq Manifests
  BY <1>1 DEF StoreInv, PullInv, Types
<1>3. \A m \in Manifests : job[m].phase \in {"none", "done"}
  BY <1>1 DEF Waited, AnyFailed
<1>4. \A m \in selected : Whole(m)
  BY <1>1, <1>2, <1>3 DEF PullJobs, Whole, InLayer
<1>5. Types'
  BY <1>1, <1>2 DEF StoreInv, Types
<1>6. Control'
  BY <1>1 DEF StoreInv, Control, Idle, Places, PullOnly, Saving, Deleting
<1>7. PullInv'
  BY <1>1, <1>2, <1>4 DEF PullInv, Whole
<1>8. DeleteInv' /\ PackInv'
  BY <1>1 DEF DeleteInv, PackInv, Packs
<1> QED BY <1>1, <1>5, <1>6, <1>7, <1>8 DEF StoreInv

LEMMA MergeStep == ASSUME StoreInv, Merge PROVE StoreInv'
<1>1. /\ pc = "merge" /\ pc' = "open" /\ local' = {} /\ name' = <<"registry", new'>>
      /\ new' = new \cup {m \in local : Keeps(m)}
      /\ file' = [b \in Blobs |-> IF b \in local /\ Replaced(b) THEN "none" ELSE file[b]]
      /\ UNCHANGED <<version, tag, index, cmd, selected, job, victim, rest, before>>
  BY DEF Merge, env
<1>2. /\ cmd.op = "pull" /\ cmd.ref \in Refs /\ cmd.m \in Manifests /\ selected \subseteq Manifests
      /\ before \subseteq local /\ new = selected /\ (\A m \in selected : Whole(m))
      /\ local \subseteq Manifests /\ file \in [Blobs -> Contents]
  BY <1>1 DEF StoreInv, PullInv, Control, Idle, PullOnly, Types
<1>3. new' \subseteq Manifests /\ name' \in Names
  BY <1>1, <1>2, Constants
<1>4. file' \in [Blobs -> Contents]
  BY <1>1, <1>2 DEF Contents
<1>5. \A m \in selected : Whole(m)'
  <2> SUFFICES ASSUME NEW m \in selected PROVE file'[m] = "whole" /\ file'[Layer[m]] = "whole"
    BY DEF Whole
  <2>1. m \in Manifests /\ m \in Blobs /\ Layer[m] \in Blobs /\ Layer[m] \notin local
    BY <1>2, Digests
  <2>2. ~Replaced(m)
    BY DEF Replaced
  <2> QED BY <1>1, <1>2, <2>1, <2>2 DEF Whole
<1>6. selected \subseteq new' /\ \A m \in before : SamePlatform(m) \/ m \in new'
  BY <1>1, <1>2 DEF Keeps, SamePlatform
<1>7. Types'
  BY <1>1, <1>3, <1>4 DEF StoreInv, Types
<1>8. Control'
  BY <1>1, <1>2, <1>3 DEF Control, Idle, Places, PullOnly, Saving, Deleting
<1>9. PullInv'
  BY <1>1, <1>5, <1>6 DEF PullInv, SamePlatform
<1>10. DeleteInv' /\ PackInv'
  BY <1>1, <1>2 DEF DeleteInv, PackInv, Packs
<1> QED BY <1>1, <1>7, <1>8, <1>9, <1>10 DEF StoreInv

\* The index is opened, or written and about to be linked.
LEMMA IndexSteps ==
    ASSUME StoreInv, OpenIndex \/ WriteIndex
    PROVE  StoreInv'
<1>1. UNCHANGED <<version, tag, file, cmd, selected, local, new, job, victim, rest, name, before>>
  BY DEF OpenIndex, WriteIndex, env, locals
<1>2. \/ pc = "open" /\ pc' = "write" /\ index' = IF name \in DOMAIN index THEN index ELSE Wrote(name, Part)
      \/ pc = "write" /\ pc' = "link" /\ index' = Wrote(name, new)
      \/ pc = "save" /\ pc' = "relink" /\ index' = Wrote(name, new)
  BY DEF OpenIndex, WriteIndex
<1>3. name \in Names /\ new \in {Part} \cup SUBSET Manifests
  BY <1>2 DEF StoreInv, Control, Saving, Types
<1>4. /\ IndexType(index')
      /\ pc \in {"write", "save"} => name \in DOMAIN index' /\ index'[name] = new
  <2>1. CASE index' = index /\ pc = "open"
    BY <2>1 DEF StoreInv, Types, IndexType
  <2>2. CASE index' = Wrote(name, Part) /\ pc = "open"
    BY <1>3, <2>2, WroteIndex DEF StoreInv
  <2>3. CASE index' = Wrote(name, new)
    BY <1>3, <2>3, WroteIndex DEF StoreInv
  <2> QED BY <1>2, <2>1, <2>2, <2>3
<1>5. Types'
  BY <1>1, <1>4 DEF StoreInv, Types, IndexType
<1>6. Control'
  BY <1>1, <1>2, <1>3 DEF StoreInv, Control, Idle, Places, PullOnly, Saving, Deleting
<1>7. PullInv'
  BY <1>1, <1>2, <1>4 DEF StoreInv, PullInv, Whole, SamePlatform
<1>8. DeleteInv'
  BY <1>1, <1>2 DEF StoreInv, DeleteInv, Saving
<1>9. PackInv'
  <2>1. CASE pc \in {"open", "write"}
    BY <1>1, <2>1 DEF StoreInv, Control, PackInv, Packs, PullOnly
  <2>2. CASE pc = "save"
    BY <1>1, <1>2, <2>2 DEF StoreInv, PackInv, Saving, Deleting, Packed, Others
  <2> QED BY <1>2, <2>1, <2>2
<1> QED BY <1>1, <1>2, <1>4, <1>5, <1>6, <1>7, <1>8, <1>9 DEF StoreInv

-----------------------------------------------------------------------------
(* The jobs that pull or save a manifest                                   *)

BlobStep(m) == SkipBlob(m) \/ OpenBlob(m) \/ WriteBlob(m) \/ FailBlob(m)
JobPhases == {"manifest", "config", "layer"}

\* The file that a job is at, and where it goes next.
LEMMA AtBlob ==
    ASSUME NEW m \in Manifests, NEW p \in JobPhases
    PROVE  /\ Blob(m, p) \in Blobs /\ After(p) \in {"config", "layer", "done"}
           /\ p = "manifest" => Blob(m, p) = m /\ After(p) = "config"
           /\ p = "config" => Blob(m, p) = Config[m] /\ After(p) = "layer"
           /\ p = "layer" => Blob(m, p) = Layer[m] /\ After(p) = "done"
           /\ \A x \in Manifests :
                 /\ Blob(m, p) = x => p = "manifest" /\ x = m
                 /\ Blob(m, p) = Config[x] => p = "config"
                 /\ Blob(m, p) = Layer[x] => p = "layer"
  BY Digests DEF Blob, After, JobPhases

\* What a step of a job does to its file and to itself.
LEMMA BlobSteps ==
    ASSUME Types, NEW m \in Manifests, BlobStep(m), NEW p, job[m].phase = p
    PROVE  /\ p \in JobPhases /\ job[m].open \in {"no", "whole", "other"} /\ pc = "blobs" /\ pc' = pc
           /\ UNCHANGED <<version, tag, index, cmd, selected, local, new, victim, rest, name, before>>
           /\ file' \in [Blobs -> Contents] /\ job' \in [Manifests -> Jobs]
           /\ \A b \in Blobs : b # Blob(m, p) => file'[b] = file[b]
           /\ \A x \in Manifests : x # m => job'[x] = job[x]
           /\ \/ /\ Skip(m) /\ file' = file /\ job[m].open = "no"
                 /\ job'[m].phase = After(p) /\ job'[m].open = "no"
              \/ /\ ~Skip(m) /\ file'[Blob(m, p)] = "part" /\ job[m].open = "no"
                 /\ job'[m].phase = p /\ job'[m].open = Content(m)
              \/ /\ job[m].open # "no" /\ file'[Blob(m, p)] = job[m].open
                 /\ job'[m].phase = After(p) /\ job'[m].open = "no"
              \/ job'[m].phase = "failed" /\ job'[m].open = "no"
<1>1. /\ p \in JobPhases /\ pc = "blobs" /\ pc' = pc /\ job[m] \in Jobs
      /\ UNCHANGED <<version, tag, index, cmd, selected, local, new, victim, rest, name, before>>
      /\ file \in [Blobs -> Contents] /\ job \in [Manifests -> Jobs]
  BY DEF Types, BlobStep, SkipBlob, OpenBlob, WriteBlob, FailBlob, Working, JobPhases, env, store
<1>2. job[m].open \in {"no", "whole", "other"}
  BY <1>1 DEF Jobs
<1>3. Blob(m, p) \in Blobs /\ After(p) \in {"config", "layer", "done"}
  BY <1>1, AtBlob
<1>4. \A q \in {"config", "layer", "done", "failed"} : [phase |-> q, open |-> "no"] \in Jobs
  BY DEF Jobs
<1>5. ASSUME NEW q \in {"config", "layer", "done", "failed"}, job' = At(m, q)
      PROVE  /\ job' \in [Manifests -> Jobs] /\ (\A x \in Manifests : x # m => job'[x] = job[x])
             /\ job'[m].phase = q /\ job'[m].open = "no"
  BY <1>1, <1>4, <1>5 DEF At
<1>6. CASE SkipBlob(m)
  <2>1. Skip(m) /\ file' = file /\ job[m].open = "no" /\ job' = At(m, After(p))
    BY <1>6 DEF SkipBlob, store
  <2> QED BY <1>1, <1>2, <1>3, <1>5, <2>1
<1>7. CASE OpenBlob(m)
  <2>1. /\ ~Skip(m) /\ file' = [file EXCEPT ![Blob(m, p)] = "part"] /\ job[m].open = "no"
        /\ job' = [job EXCEPT ![m].open = Content(m)]
    BY <1>7 DEF OpenBlob
  <2>2. Content(m) \in {"whole", "other"}
    BY DEF Content
  <2>3. [job[m] EXCEPT !.open = Content(m)] \in Jobs /\ [job[m] EXCEPT !.open = Content(m)].phase = p
        /\ [job[m] EXCEPT !.open = Content(m)].open = Content(m)
    BY <1>1, <2>2 DEF Jobs
  <2>4. /\ job' \in [Manifests -> Jobs] /\ job'[m] = [job[m] EXCEPT !.open = Content(m)]
        /\ \A x \in Manifests : x # m => job'[x] = job[x]
    BY <1>1, <2>1, <2>3
  <2>5. /\ file' \in [Blobs -> Contents] /\ file'[Blob(m, p)] = "part"
        /\ \A b \in Blobs : b # Blob(m, p) => file'[b] = file[b]
    BY <1>1, <1>3, <2>1 DEF Contents
  <2> QED BY <1>1, <1>2, <2>1, <2>3, <2>4, <2>5
<1>8. CASE WriteBlob(m)
  <2>1. /\ job[m].open # "no" /\ file' = [file EXCEPT ![Blob(m, p)] = job[m].open]
        /\ job' = At(m, After(p))
    BY <1>8 DEF WriteBlob
  <2>2. /\ file' \in [Blobs -> Contents] /\ file'[Blob(m, p)] = job[m].open
        /\ \A b \in Blobs : b # Blob(m, p) => file'[b] = file[b]
    BY <1>1, <1>2, <1>3, <2>1 DEF Contents
  <2> QED BY <1>1, <1>2, <1>3, <1>5, <2>1, <2>2
<1>9. CASE FailBlob(m)
  <2>1. file' \in {file, [file EXCEPT ![Blob(m, p)] = "none"]} /\ job' = At(m, "failed")
    BY <1>9 DEF FailBlob
  <2>2. /\ file' \in [Blobs -> Contents] /\ \A b \in Blobs : b # Blob(m, p) => file'[b] = file[b]
    BY <1>1, <1>3, <2>1 DEF Contents
  <2> QED BY <1>1, <1>2, <1>5, <2>1, <2>2
<1> QED BY <1>6, <1>7, <1>8, <1>9 DEF BlobStep

LEMMA PullBlobs ==
    ASSUME Types, PullJobs, cmd.op = "pull", NEW m \in Manifests, BlobStep(m)
    PROVE  PullJobs'
<1>0. PICK p : job[m].phase = p
  OBVIOUS
<1> DEFINE skips == /\ Skip(m) /\ file' = file /\ job[m].open = "no"
                    /\ job'[m].phase = After(p) /\ job'[m].open = "no"
<1> DEFINE opens == /\ ~Skip(m) /\ file'[Blob(m, p)] = "part" /\ job[m].open = "no"
                    /\ job'[m].phase = p /\ job'[m].open = Content(m)
<1> DEFINE writes == /\ job[m].open # "no" /\ file'[Blob(m, p)] = job[m].open
                     /\ job'[m].phase = After(p) /\ job'[m].open = "no"
<1> DEFINE fails == job'[m].phase = "failed" /\ job'[m].open = "no"
<1>1. /\ job[m].phase = p /\ p \in JobPhases /\ job[m].open \in {"no", "whole", "other"} /\ selected' = selected
      /\ \A b \in Blobs : b # Blob(m, p) => file'[b] = file[b]
      /\ \A x \in Manifests : x # m => job'[x] = job[x]
      /\ skips \/ opens \/ writes \/ fails
  BY <1>0, BlobSteps, SMT
<1>2. /\ p = "manifest" => Blob(m, p) = m /\ After(p) = "config"
      /\ p = "config" => Blob(m, p) = Config[m] /\ After(p) = "layer"
      /\ p = "layer" => Blob(m, p) = Layer[m] /\ After(p) = "done"
      /\ \A x \in Manifests : /\ Blob(m, p) = x => p = "manifest" /\ x = m
                              /\ Blob(m, p) = Layer[x] => p = "layer"
  BY <1>1, AtBlob, SMT
<1>3. /\ job[m].open = "other" => p = "config"
      /\ Content(m) \in {"whole", "other"} /\ (Content(m) = "other" => p = "config")
  BY <1>0 DEF PullJobs, Content
<1>4. (Skip(m) /\ p = "manifest" => file[m] = "whole") /\ (Skip(m) => p # "layer")
  BY <1>0 DEF Skip, ResolveManifest
<1>5. \A x \in Manifests : x \in Blobs /\ Layer[x] \in Blobs
  BY Digests
<1> SUFFICES ASSUME NEW x \in Manifests
             PROVE  /\ job'[x].open = "other" => job'[x].phase = "config"
                    /\ x \in selected' => job'[x].phase # "none"
                    /\ job'[x].phase \in {"config", "layer", "done"} => file'[x] = "whole"
                    /\ job'[x].phase = "done" =>
                          \/ file'[Layer[x]] = "whole"
                          \/ AnyFailed'
                          \/ \E n \in Manifests : Layer[n] = Layer[x] /\ InLayer(n)'
  BY DEF PullJobs
<1>6. job'[x].open = "other" => job'[x].phase = "config"
  BY <1>1, <1>3, SMT DEF PullJobs
<1>7. x \in selected' => job'[x].phase # "none"
  BY <1>1, <1>2, SMT DEF PullJobs, JobPhases
<1>8. job'[x].phase \in {"config", "layer", "done"} => file'[x] = "whole"
  <2>1. CASE x # m
    BY <1>1, <1>2, <1>5, <2>1, SMT DEF PullJobs
  <2>2. CASE x = m /\ p # "manifest"
    <3>1. file[m] = "whole" /\ Blob(m, p) # m
      BY <1>1, <1>2, <2>2 DEF PullJobs, JobPhases
    <3> QED BY <1>1, <1>5, <2>2, <3>1
  <2>3. CASE x = m /\ p = "manifest"
    BY <1>1, <1>2, <1>3, <1>4, <2>3
  <2> QED BY <2>1, <2>2, <2>3
<1>9. ASSUME job'[x].phase = "done"
      PROVE  \/ file'[Layer[x]] = "whole"
             \/ AnyFailed'
             \/ \E n \in Manifests : Layer[n] = Layer[x] /\ InLayer(n)'
  <2>1. CASE fails
    BY <2>1 DEF AnyFailed
  <2>2. CASE AnyFailed
    <3>1. PICK n \in Manifests : job[n].phase = "failed"
      BY <2>2 DEF AnyFailed
    <3>2. n # m /\ job'[n] = job[n]
      BY <1>1, <3>1 DEF JobPhases
    <3> QED BY <3>1, <3>2 DEF AnyFailed
  <2>3. CASE p = "layer" /\ Layer[x] = Layer[m]
    <3>1. CASE opens
      BY <1>3, <2>3, <3>1 DEF InLayer
    <3>2. CASE writes
      BY <1>1, <1>2, <1>3, <2>3, <3>2
    <3> QED BY <1>1, <1>4, <2>1, <2>3, <3>1, <3>2
  <2>4. CASE ~fails /\ ~AnyFailed /\ ~(p = "layer" /\ Layer[x] = Layer[m])
    <3>1. x # m
      BY <1>1, <1>2, <1>9, <2>4 DEF JobPhases
    <3>2. file'[Layer[x]] = file[Layer[x]]
      BY <1>1, <1>2, <1>5, <2>4
    <3>3. job[x].phase = "done"
      BY <1>1, <1>9, <3>1
    <3>4. file[Layer[x]] = "whole" \/ \E n \in Manifests : Layer[n] = Layer[x] /\ InLayer(n)
      BY <2>4, <3>3 DEF PullJobs
    <3>5. ASSUME NEW n \in Manifests, Layer[n] = Layer[x], InLayer(n)
          PROVE  InLayer(n)'
      <4>1. n # m
        BY <1>0, <2>4, <3>5 DEF InLayer
      <4> QED BY <1>1, <3>5, <4>1 DEF InLayer
    <3> QED BY <3>2, <3>4, <3>5
  <2> QED BY <2>1, <2>2, <2>3, <2>4
<1> QED BY <1>6, <1>7, <1>8, <1>9

LEMMA PackBlobs ==
    ASSUME Types, PackJob, cmd.op \in Packs, NEW m \in Manifests, BlobStep(m), cmd.m \in Manifests
    PROVE  PackJob' /\ m = cmd.m
<1>0. PICK p : job[m].phase = p
  OBVIOUS
<1>1. /\ job[m].phase = p /\ p \in JobPhases /\ job[m].open \in {"no", "whole", "other"} /\ cmd' = cmd
      /\ \A b \in Blobs : b # Blob(m, p) => file'[b] = file[b]
      /\ \A x \in Manifests : x # m => job'[x] = job[x]
      /\ \/ /\ Skip(m) /\ file' = file /\ job[m].open = "no"
            /\ job'[m].phase = After(p) /\ job'[m].open = "no"
         \/ /\ ~Skip(m) /\ file'[Blob(m, p)] = "part" /\ job[m].open = "no"
            /\ job'[m].phase = p /\ job'[m].open = Content(m)
         \/ /\ job[m].open # "no" /\ file'[Blob(m, p)] = job[m].open
            /\ job'[m].phase = After(p) /\ job'[m].open = "no"
         \/ job'[m].phase = "failed" /\ job'[m].open = "no"
  BY <1>0, BlobSteps, SMT
<1>2. /\ p = "manifest" => Blob(m, p) = m /\ After(p) = "config"
      /\ p = "config" => Blob(m, p) = Config[m] /\ After(p) = "layer"
      /\ p = "layer" => Blob(m, p) = Layer[m] /\ After(p) = "done"
      /\ Blob(m, p) = m => p = "manifest"
      /\ Blob(m, p) = Config[m] => p = "config"
  BY <1>1, AtBlob, SMT
<1>3. m = cmd.m /\ \A x \in Manifests : x # m => job[x].phase = "none" /\ job[x].open # "other"
  BY <1>1 DEF PackJob, JobPhases
<1>4. Content(m) = "whole" /\ job[m].open # "other"
  BY <1>0 DEF PackJob, Content, Packs
<1>5. Skip(m) => p # "manifest" /\ file[Blob(m, p)] # "none"
  BY <1>0 DEF Skip, Packs
<1>6. m \in Blobs /\ Config[m] \in Blobs
  BY Digests
<1>7. job'[m].phase \in {"config", "layer", "done"} => file'[m] = "whole"
  BY <1>1, <1>2, <1>3, <1>4, <1>5, <1>6 DEF PackJob, JobPhases
<1>8. job'[m].phase \in {"layer", "done"} => file'[Config[m]] # "none"
  BY <1>1, <1>2, <1>3, <1>4, <1>5, <1>6 DEF PackJob, JobPhases
<1>9. job'[m].phase = "done" => file'[Layer[m]] # "none"
  BY <1>1, <1>2, <1>4, <1>5 DEF JobPhases
<1>10. job'[m].open # "other" /\ job'[m].phase # "none"
  BY <1>1, <1>2, <1>4 DEF JobPhases
<1> QED BY <1>1, <1>3, <1>7, <1>8, <1>9, <1>10 DEF PackJob

LEMMA FetchSteps ==
    ASSUME StoreInv, NEW m \in Manifests, BlobStep(m)
    PROVE  StoreInv'
<1>1. /\ pc = "blobs" /\ pc' = pc /\ file' \in [Blobs -> Contents] /\ job' \in [Manifests -> Jobs]
      /\ UNCHANGED <<version, tag, index, cmd, selected, local, new, victim, rest, name, before>>
  BY BlobSteps DEF StoreInv
<1>2. cmd.op \in Packs \cup {"pull"} /\ cmd.m \in Manifests
  BY <1>1 DEF StoreInv, Control, Idle
<1>3. Types'
  BY <1>1 DEF StoreInv, Types
<1>4. Control'
  BY <1>1 DEF StoreInv, Control, Idle, Saving, Deleting, PullOnly
<1>5. PullInv'
  BY <1>1, PullBlobs DEF StoreInv, PullInv
<1>6. DeleteInv'
  BY <1>1, <1>2 DEF DeleteInv, Packs
<1>7. PackInv'
  BY <1>1, <1>2, PackBlobs DEF StoreInv, PackInv, Others, Saving, Deleting
<1> QED BY <1>1, <1>3, <1>4, <1>5, <1>6, <1>7 DEF StoreInv

-----------------------------------------------------------------------------
(* The steps of DeleteManifest and Delete                                  *)

LEMMA DeletingFacts ==
    ASSUME StoreInv, pc \in Deleting
    PROVE  /\ cmd.op \in {"merge", "delete"} /\ cmd.ref \in Refs /\ cmd.m \in Manifests
           /\ victim \in Manifests /\ file \in [Blobs -> Contents]
           /\ tag \in [Refs -> Names \cup {None}] /\ Types /\ Listed(cmd.ref) \subseteq Manifests
           /\ cmd.op = "merge" => new = Others \ local /\ local \subseteq before
<1>1. /\ cmd.op \in {"merge", "delete"} /\ cmd.ref \in Refs /\ cmd.m \in Manifests /\ victim \in Manifests
      /\ Types /\ file \in [Blobs -> Contents] /\ tag \in [Refs -> Names \cup {None}]
  BY DEF StoreInv, Control, Idle, Deleting, Types
<1>2. cmd.op = "merge" => new = Others \ local /\ local \subseteq before
  BY DEF StoreInv, PackInv, Packs
<1> QED BY <1>1, <1>2, ListedType

\* What a step that stays with the same manifest, or hands back, has to keep.
LEMMA DeletingKept ==
    ASSUME StoreInv, pc \in Deleting, Types', pc' \in Deleting \cup {Onward},
           UNCHANGED <<cmd, selected, local, new, victim, before>>,
           pc' = "relist" => tag'[cmd.ref] \in Names,
           cmd.op = "delete" =>
              /\ pc' = "unlist" => victim = cmd.m /\ before = Listed(cmd.ref)'
              /\ pc' = "relist" => rest' = before \ {cmd.m}
              /\ pc' = "resolve" => Listed(cmd.ref)' = before \ {cmd.m},
           pc' # "unlink"
    PROVE  StoreInv'
<1>1. /\ cmd.op \in {"merge", "delete"} /\ cmd.ref \in Refs /\ cmd.m \in Manifests /\ victim \in Manifests
      /\ cmd.op = "merge" => new = Others \ local /\ local \subseteq before
  BY DeletingFacts
<1>2. Onward = IF cmd.op = "delete" THEN "resolve" ELSE "combine"
  BY DEF Onward
<1>3. Control'
  BY <1>1, <1>2 DEF Control, Idle, Places, PullOnly, Saving, Deleting, Packs
<1>4. PullInv'
  BY <1>2 DEF PullInv, Deleting
<1>5. DeleteInv'
  BY <1>1, <1>2 DEF DeleteInv, Deleting, Saving
<1>6. PackInv'
  BY <1>1, <1>2 DEF PackInv, Deleting, Saving, Packs, Others
<1> QED BY <1>2, <1>3, <1>4, <1>5, <1>6 DEF StoreInv, Deleting

LEMMA DeleteManifestSteps ==
    ASSUME StoreInv, UnlinkBlobs \/ Unlist \/ Relist
    PROVE  StoreInv'
<1>1. /\ pc \in Deleting /\ UNCHANGED <<version, cmd, selected, local, new, job, victim, name, before>>
  BY DEF UnlinkBlobs, Unlist, Relist, Deleting, env, locals
<1>2. /\ cmd.op \in {"merge", "delete"} /\ cmd.ref \in Refs /\ cmd.m \in Manifests /\ victim \in Manifests
      /\ file \in [Blobs -> Contents] /\ tag \in [Refs -> Names \cup {None}] /\ Types
      /\ Listed(cmd.ref) \subseteq Manifests
  BY <1>1, DeletingFacts
<1>3. victim \in Blobs /\ Layer[victim] \in Blobs /\ Config[victim] \in Blobs
  BY <1>2, Digests
<1>4. cmd.op = "delete" /\ pc \in {"unlink", "unlist"} => victim = cmd.m /\ before = Listed(cmd.ref)
  BY DEF StoreInv, DeleteInv
<1>5. CASE UnlinkBlobs
  <2>1. /\ pc = "unlink" /\ pc' = "unlist" /\ UNCHANGED <<tag, index, rest>>
        /\ file' = [file EXCEPT ![Layer[victim]] = "none", ![Config[victim]] = "none"]
    BY <1>5 DEF UnlinkBlobs, locals
  <2>2. file' \in [Blobs -> Contents]
    BY <1>2, <1>3, <2>1 DEF Contents
  <2>3. Types'
    BY <1>1, <1>2, <2>1, <2>2 DEF Types
  <2>4. Listed(cmd.ref)' = Listed(cmd.ref)
    BY <1>1, <2>1 DEF Listed, ResolveIndex, Resolves
  <2> QED BY <1>1, <1>4, <2>1, <2>3, <2>4, DeletingKept DEF Deleting
<1>6. CASE Unlist /\ Listed(cmd.ref) \ {victim} = {}
  <2>1. /\ pc = "unlist" /\ rest' = {} /\ pc' = Onward /\ RemoveIndex(cmd.ref)
        /\ file' = [file EXCEPT ![victim] = "none"]
    BY <1>6 DEF Unlist
  <2>2. IndexType(index') /\ tag' \in [Refs -> Names \cup {None}]
    BY <1>2, <2>1, UnlinkedIndex
  <2>3. \A r \in Refs : r = cmd.ref => Listed(r)' = {}
    BY <1>2, <2>1, UnlinkedIndex
  <2>4. Listed(cmd.ref)' = {}
    BY <1>1, <1>2, <2>3 DEF Listed, ResolveIndex, Resolves
  <2>5. file' \in [Blobs -> Contents]
    BY <1>2, <1>3, <2>1 DEF Contents
  <2>6. Types'
    BY <1>1, <1>2, <2>1, <2>2, <2>5 DEF Types, IndexType
  <2>7. pc' \in {"resolve", "combine"}
    BY <2>1 DEF Onward
  <2>8. cmd.op = "delete" => before \ {cmd.m} = {}
    BY <1>4, <1>6, <2>1
  <2> QED BY <1>1, <2>1, <2>4, <2>6, <2>7, <2>8, DeletingKept
<1>7. CASE Unlist /\ Listed(cmd.ref) \ {victim} # {}
  <2>1. /\ pc = "unlist" /\ rest' = Listed(cmd.ref) \ {victim} /\ pc' = "relist"
        /\ index' = Wrote(tag[cmd.ref], Part) /\ tag' = tag /\ file' = file
    BY <1>7 DEF Unlist
  <2>2. tag[cmd.ref] \in Names
    BY <1>2, <1>7 DEF Listed, ResolveIndex, Resolves, Types
  <2>3. IndexType(index')
    BY <1>2, <2>1, <2>2, WroteIndex
  <2>4. Types'
    BY <1>1, <1>2, <2>1, <2>3 DEF Types, IndexType
  <2> QED BY <1>1, <1>4, <2>1, <2>2, <2>4, DeletingKept DEF Deleting
<1>8. CASE Relist
  <2>1. /\ pc = "relist" /\ pc' = Onward /\ index' = Wrote(tag[cmd.ref], rest) /\ rest' = rest
        /\ tag' = tag /\ file' = [file EXCEPT ![victim] = "none"]
    BY <1>8 DEF Relist, locals
  <2>2. tag[cmd.ref] \in Names /\ rest \in SUBSET Manifests
    BY <1>2, <2>1 DEF StoreInv, Control, Types
  <2>3. IndexType(index') /\ tag[cmd.ref] \in DOMAIN index' /\ index'[tag[cmd.ref]] = rest
    BY <1>2, <2>1, <2>2, WroteIndex
  <2>4. Listed(cmd.ref)' = rest
    BY <1>1, <2>1, <2>2, <2>3, Constants DEF Listed, ResolveIndex, Resolves
  <2>5. file' \in [Blobs -> Contents]
    BY <1>2, <1>3, <2>1 DEF Contents
  <2>6. Types'
    BY <1>1, <1>2, <2>1, <2>3, <2>5 DEF Types, IndexType
  <2>7. pc' \in {"resolve", "combine"}
    BY <2>1 DEF Onward
  <2>8. cmd.op = "delete" => rest = before \ {cmd.m}
    BY <2>1 DEF StoreInv, DeleteInv
  <2> QED BY <1>1, <2>1, <2>4, <2>6, <2>7, <2>8, DeletingKept
<1> QED BY <1>5, <1>6, <1>7, <1>8

LEMMA UnlinkMissingStep == ASSUME StoreInv, UnlinkMissing PROVE StoreInv'
<1>1. /\ pc = "unlink" /\ cmd.op = "delete" /\ pc' = "resolve" /\ victim' = None
      /\ UNCHANGED <<version, tag, index, file, cmd, selected, local, new, job, rest, name, before>>
  BY DEF UnlinkMissing, env, store
<1>2. cmd.ref \in Refs /\ cmd.m \in Manifests
  BY <1>1 DEF StoreInv, Control, Idle
<1>3. Types'
  BY <1>1 DEF StoreInv, Types
<1>4. Control'
  BY <1>1, <1>2 DEF Control, Idle, Places, PullOnly, Saving, Deleting, Packs
<1>5. PullInv'
  BY <1>1 DEF PullInv
<1>6. DeleteInv' /\ PackInv'
  BY <1>1 DEF DeleteInv, PackInv, Packs
<1> QED BY <1>1, <1>3, <1>4, <1>5, <1>6 DEF StoreInv

LEMMA ResaveStep == ASSUME StoreInv, Resave PROVE StoreInv'
<1>1. /\ pc = "resolve" /\ NewIndexFromSpec /\ new' = Remaining /\ name' = Renamed /\ pc' = "reindex"
      /\ UNCHANGED <<version, tag, index, file, cmd, selected, local, job, victim, rest, before>>
  BY DEF Resave, env, store
<1>2. cmd.op = "delete" /\ cmd.ref \in Refs /\ cmd.m \in Manifests
  BY <1>1 DEF StoreInv, Control, Idle
<1>3. tag[cmd.ref] \in Names /\ Remaining \subseteq Manifests
  BY <1>1, <1>2, ListedType DEF NewIndexFromSpec, ResolveIndex, Resolves, Remaining, StoreInv, Types
<1>4. name' \in Names
  BY <1>1, <1>3, Constants DEF Renamed
<1>5. victim # None => new' = before \ {cmd.m}
  BY <1>1, <1>2 DEF StoreInv, DeleteInv, Remaining
<1>6. Types'
  BY <1>1, <1>3, <1>4 DEF StoreInv, Types
<1>7. Control'
  BY <1>1, <1>2, <1>4 DEF Control, Idle, Places, PullOnly, Saving, Deleting, Packs
<1>8. PullInv'
  BY <1>1 DEF PullInv
<1>9. DeleteInv' /\ PackInv'
  BY <1>1, <1>2, <1>5 DEF DeleteInv, PackInv, Packs
<1> QED BY <1>1, <1>6, <1>7, <1>8, <1>9 DEF StoreInv

-----------------------------------------------------------------------------
(* The steps of Save and of a packaging                                    *)

LEMMA SaveSteps ==
    ASSUME StoreInv, Reindex \/ CreateIndex
    PROVE  StoreInv'
<1>1. /\ UNCHANGED <<version, file, cmd, selected, local, new, job, victim, rest, name, before>>
      /\ pc \in {"reindex", "create"} /\ pc' \in {"create", "save"}
  BY DEF Reindex, CreateIndex, env, locals
<1>2. /\ cmd.op \in Packs \cup {"delete"} /\ cmd.ref \in Refs /\ cmd.m \in Manifests /\ name \in Names
  BY <1>1 DEF StoreInv, Control, Idle, Saving
<1>3. IndexType(index') /\ tag' \in [Refs -> Names \cup {None}]
  <2>1. CASE Reindex
    BY <1>2, <2>1, UnlinkedIndex DEF Reindex, StoreInv
  <2>2. CASE CreateIndex
    <3>1. index' = Wrote(name, Part) /\ tag' = tag
      BY <2>2 DEF CreateIndex
    <3> QED BY <1>2, <3>1, WroteIndex DEF StoreInv, Types
  <2> QED BY <2>1, <2>2
<1>4. Types'
  BY <1>1, <1>3 DEF StoreInv, Types, IndexType
<1>5. Control'
  BY <1>1, <1>2 DEF Control, Idle, Places, PullOnly, Saving, Deleting, Packs
<1>6. PullInv'
  BY <1>1 DEF PullInv
<1>7. DeleteInv'
  BY <1>1 DEF StoreInv, DeleteInv, Saving
<1>8. PackInv'
  BY <1>1 DEF StoreInv, PackInv, Saving, Deleting, Packed, Others
<1> QED BY <1>1, <1>4, <1>5, <1>6, <1>7, <1>8 DEF StoreInv

LEMMA CombineStep ==
    ASSUME StoreInv, NEW m \in Manifests, Combine(m)
    PROVE  StoreInv'
<1>1. /\ pc = "combine" /\ m \in local /\ local' = local \ {m}
      /\ UNCHANGED <<version, tag, index, file, cmd, selected, job, rest, name, before>>
      /\ \/ Plat[m] = PackPlat[cmd.m] /\ pc' = "unlink" /\ victim' = m /\ new' = new
         \/ Plat[m] # PackPlat[cmd.m] /\ new' = new \cup {m} /\ pc' = pc /\ victim' = victim
  BY DEF Combine, env, store
<1>2. /\ cmd.op = "merge" /\ cmd.ref \in Refs /\ cmd.m \in Manifests
      /\ new = Others \ local /\ local \subseteq before
  BY <1>1 DEF StoreInv, Control, Idle, PackInv
<1>3. Others' = Others /\ new' = Others \ local' /\ local' \subseteq before'
  BY <1>1, <1>2 DEF Others
<1>4. Types'
  BY <1>1 DEF StoreInv, Types
<1>5. Control'
  BY <1>1, <1>2 DEF Control, Idle, Places, PullOnly, Saving, Deleting, Packs
<1>6. PullInv'
  BY <1>1 DEF PullInv
<1>7. DeleteInv'
  BY <1>1, <1>2 DEF DeleteInv
<1>8. PackInv'
  BY <1>1, <1>2, <1>3 DEF PackInv, Saving, Packs
<1> QED BY <1>1, <1>4, <1>5, <1>6, <1>7, <1>8 DEF StoreInv

LEMMA AddManifestStep == ASSUME StoreInv, AddManifest PROVE StoreInv'
<1>1. /\ pc = "combine" /\ local = {} /\ new' = new \cup {cmd.m} /\ name' = <<cmd.ref, new'>>
      /\ StartBlobs({cmd.m})
      /\ UNCHANGED <<version, tag, index, file, cmd, selected, local, victim, rest, before>>
  BY DEF AddManifest, env, store
<1>2. cmd.op \in Packs /\ cmd.ref \in Refs /\ cmd.m \in Manifests /\ new = Others
  BY <1>1 DEF StoreInv, Control, Idle, PackInv
<1>3. /\ pc' = "blobs" /\ job' \in [Manifests -> Jobs]
      /\ \A m \in Manifests : /\ job'[m].open = "no"
                              /\ job'[m].phase = IF m \in {cmd.m} THEN "manifest" ELSE "none"
  BY <1>1, <1>2, StartedJobs, SMT
<1>4. new' \subseteq Manifests /\ name' \in Names /\ new' = {cmd.m} \cup Others /\ Others' = Others
  BY <1>1, <1>2, Constants DEF StoreInv, Types, Others
<1>5. Types'
  BY <1>1, <1>3, <1>4 DEF StoreInv, Types
<1>6. Control'
  BY <1>1, <1>2, <1>3, <1>4 DEF Control, Idle, Places, PullOnly, Saving, Deleting, Packs
<1>7. PullInv'
  BY <1>1, <1>2, <1>3 DEF PullInv, Packs
<1>8. DeleteInv'
  BY <1>1, <1>2 DEF DeleteInv, Packs
<1>9. PackJob'
  BY <1>1, <1>2, <1>3 DEF PackJob
<1>10. PackInv'
  BY <1>1, <1>3, <1>4, <1>9 DEF PackInv, Saving, Deleting
<1> QED BY <1>3, <1>5, <1>6, <1>7, <1>8, <1>10 DEF StoreInv

LEMMA SavedStep == ASSUME StoreInv, Saved PROVE StoreInv'
<1>1. /\ pc = "blobs" /\ pc' = "reindex" /\ cmd.op # "pull" /\ Waited /\ ~AnyFailed
      /\ UNCHANGED <<version, tag, index, file, cmd, selected, local, new, job, victim, rest, name>>
      /\ before' = before
  BY DEF Saved, Waited, env, store, locals
<1>2. /\ cmd.op \in Packs /\ cmd.ref \in Refs /\ cmd.m \in Manifests /\ name \in Names
      /\ new = {cmd.m} \cup Others /\ PackJob
  BY <1>1 DEF StoreInv, Control, Idle, PackInv
<1>3. job[cmd.m].phase = "done"
  BY <1>1, <1>2 DEF Waited, AnyFailed, PackJob
<1>4. Packed
  BY <1>2, <1>3 DEF PackJob, Packed
<1>5. Types'
  BY <1>1 DEF StoreInv, Types
<1>6. Control'
  BY <1>1, <1>2 DEF Control, Idle, Places, PullOnly, Saving, Deleting, Packs
<1>7. PullInv'
  BY <1>1 DEF PullInv
<1>8. DeleteInv'
  BY <1>1, <1>2 DEF DeleteInv, Packs
<1>9. PackInv'
  BY <1>1, <1>2, <1>4 DEF PackInv, Saving, Deleting, Packed, Others
<1> QED BY <1>1, <1>5, <1>6, <1>7, <1>8, <1>9 DEF StoreInv

-----------------------------------------------------------------------------
(* The invariant, and what a command that succeeds leaves                  *)

LEMMA InitialStore == Init => StoreInv
<1> SUFFICES ASSUME Init PROVE StoreInv
  OBVIOUS
<1>1. PICK stock \in Stocks : Stocked(stock)
  BY DEF Init
<1>2. stock \in [Refs -> SUBSET (Manifests \ Built)]
  BY StoreAssumption
<1>3. tag \in [Refs -> Names \cup {None}]
  BY <1>1, <1>2, Constants DEF Stocked
<1>4. /\ DOMAIN index \subseteq Names
      /\ \A n \in DOMAIN index : index[n] \in {Part} \cup SUBSET Manifests
  <2>1. Range(tag) \ {None} \subseteq Names
    BY <1>3 DEF Range
  <2>2. \A n \in Names : n[2] \in SUBSET Manifests
    BY DEF Names
  <2>3. index = [n \in Range(tag) \ {None} |-> n[2]]
    BY <1>1 DEF Stocked
  <2> QED BY <2>1, <2>2, <2>3
<1>5. file \in [Blobs -> Contents]
  BY <1>1 DEF Stocked, Contents
<1>6. /\ version = 1 /\ pc = "idle" /\ cmd = NoCmd /\ selected = {} /\ local = {} /\ new = {}
      /\ job = NoJobs /\ victim = None /\ rest = {} /\ name = None /\ before = {}
  BY DEF Init
<1>7. 1 \in DOMAIN Published
  BY StoreAssumption, SMT
<1>8. cmd.op = "none"
  BY <1>6 DEF NoCmd
<1>9. Types
  BY <1>3, <1>4, <1>5, <1>6, <1>7, <1>8, JobTypes DEF Types, Ops
<1>10. Control
  BY <1>6 DEF Control, Idle, Places, PullOnly, Saving, Deleting
<1>11. PullInv /\ DeleteInv /\ PackInv
  BY <1>6, <1>8 DEF PullInv, DeleteInv, PackInv, Packs
<1> QED BY <1>6, <1>9, <1>10, <1>11 DEF StoreInv

LEMMA StoreStutter == ASSUME StoreInv, UNCHANGED vars PROVE StoreInv'
<1>1. UNCHANGED <<version, tag, index, file, pc, cmd, selected, local, new, job, victim, rest, name>>
  BY DEF vars, env, store, locals
<1>2. before' = before
  BY DEF vars, locals
<1>3. Types' /\ Control'
  BY <1>1, <1>2 DEF StoreInv, Types, Control, Idle
<1>4. PullJobs => PullJobs'
  BY <1>1, SMT DEF PullJobs, AnyFailed, InLayer
<1>5. PullInv'
  BY <1>1, <1>2, <1>4
  DEF StoreInv, PullInv, Listed, ResolveIndex, Resolves, SamePlatform, Whole
<1>6. DeleteInv'
  BY <1>1, <1>2 DEF StoreInv, DeleteInv, Listed, ResolveIndex, Resolves
<1>7. PackInv'
  BY <1>1, <1>2 DEF StoreInv, PackInv, PackJob, Packed, Others
<1> QED BY <1>1, <1>3, <1>5, <1>6, <1>7 DEF StoreInv

\* StoreInv holds in every behaviour of the store's commands, failed and killed ones included.
THEOREM StoreInvariant == Spec => []StoreInv
<1>1. StoreInv /\ [Next]_vars => StoreInv'
  <2> SUFFICES ASSUME StoreInv, [Next]_vars PROVE StoreInv'
    OBVIOUS
  <2>1. CASE Pull
    BY <2>1, PullSteps, PulledStep, MergeStep, IndexSteps, Endings DEF Pull
  <2>2. CASE Fetch
    BY <2>2, FetchSteps, Endings DEF Fetch, BlobStep
  <2>3. CASE DeleteManifest
    BY <2>3, DeleteManifestSteps, UnlinkMissingStep, Endings DEF DeleteManifest
  <2>4. CASE Delete
    BY <2>4, ResaveStep, Endings DEF Delete
  <2>5. CASE Save
    BY <2>5, SaveSteps, IndexSteps, Endings DEF Save
  <2>6. CASE Package
    BY <2>6, CombineStep, AddManifestStep, SavedStep DEF Package
  <2>7. CASE Kill \/ Publish
    BY <2>7, Endings, Publishes
  <2>8. CASE \E r \in Refs, m \in Manifests : Start(r, m)
    BY <2>8, StartPulls, StartDeletes, StartPackages DEF Start
  <2>9. CASE UNCHANGED vars
    BY <2>9, StoreStutter
  <2> QED BY <2>1, <2>2, <2>3, <2>4, <2>5, <2>6, <2>7, <2>8, <2>9 DEF Next
<1> QED BY <1>1, InitialStore, PTL DEF Spec

\* A command that has not ended and now succeeds linked its tag, or deleted the last
\* manifest, or found the new index there.
LEMMA Succeeds ==
    ASSUME StoreInv, [Next]_vars, ~UNCHANGED vars, cmd.op # "none", pc' = "ok"
    PROVE  /\ cmd.op = "pull" => Link
           /\ cmd.op = "delete" => Emptied \/ AlreadySaved \/ Relink
           /\ cmd.op \in Packs => Relink
<1>1. ~Idle
  <2>1. NoCmd.op = "none"
    BY DEF NoCmd
  <2>2. Idle => cmd = NoCmd
    BY DEF StoreInv, Control
  <2> QED BY <2>1, <2>2
<1>2. Link \/ Emptied \/ AlreadySaved \/ Relink
  <2>1. CASE Pull
    BY <2>1 DEF Pull, Untag, Adopt, AdoptFails, Pulled, Merge, MergeFails, OpenIndex, LinkFails,
        StartBlobs, Return, Leave
  <2>2. CASE Fetch
    <3>1. CASE WaitFails
      BY <3>1 DEF WaitFails, Return, Leave
    <3>2. CASE \E m \in Manifests : BlobStep(m)
      BY <1>1, <3>2 DEF BlobStep, SkipBlob, OpenBlob, WriteBlob, FailBlob, Idle
    <3> QED BY <2>2, <3>1, <3>2 DEF Fetch, BlobStep
  <2>3. CASE DeleteManifest
    BY <2>3 DEF DeleteManifest, UnlinkBlobs, UnlinkMissing, UnlinkFails, Unlist, Relist,
        RelistFails, Onward, Return, Leave
  <2>4. CASE Delete
    BY <2>4 DEF Delete, Resave, ResolveFails, Return, Leave
  <2>5. CASE Save
    BY <2>5 DEF Save, Reindex, CreateIndex, WriteIndex, SaveFails, RelinkFails, Return, Leave
  <2>6. CASE Package
    BY <1>1, <2>6 DEF Package, Combine, AddManifest, Saved, StartBlobs, Idle
  <2>7. CASE Kill \/ Publish \/ \E r \in Refs, m \in Manifests : Start(r, m)
    BY <2>7 DEF Kill, Publish, Start, StartPull, StartDelete, StartMerge, StartExit,
        StartOverwrite, Leave
  <2> QED BY <2>1, <2>2, <2>3, <2>4, <2>5, <2>6, <2>7 DEF Next
<1>3. /\ Link => cmd.op = "pull"
      /\ Emptied \/ AlreadySaved => cmd.op = "delete"
      /\ Relink => cmd.op \in Packs \cup {"delete"}
  BY DEF StoreInv, Control, Link, Emptied, AlreadySaved, Relink, PullOnly, Saving
<1> QED BY <1>2, <1>3 DEF Packs

\* A tag that is linked to an index that has been written lists what was written.
LEMMA LinkLists ==
    ASSUME StoreInv, Link \/ Relink
    PROVE  ListedNow = new /\ file' = file
<1>1. /\ cmd.ref \in Refs /\ tag' = [tag EXCEPT ![cmd.ref] = name] /\ index' = index /\ file' = file
      /\ name \in DOMAIN index /\ index[name] = new /\ new \subseteq Manifests
      /\ tag \in [Refs -> Names \cup {None}]
  BY DEF StoreInv, Control, Idle, Types, PullInv, Link, Relink
<1>2. PICK r \in Refs : r = cmd.ref
  BY <1>1
<1>3. tag'[r] = name
  BY <1>1, <1>2
<1>4. Listed(r)' = new
  BY <1>1, <1>3, ListedLinked
<1> QED BY <1>1, <1>2, <1>4, NowListed

\* oci/handler/directory.go, PullDigest: a pull that succeeds has linked an index that
\* lists what it selected, with their files whole, and what it found of other platforms.
LEMMA PullSucceeds ==
    ASSUME StoreInv, [Next]_vars, ~UNCHANGED vars, cmd.op = "pull", pc' = "ok"
    PROVE  /\ \A m \in selected :
                 m \in ListedNow /\ file'[m] = "whole" /\ file'[Layer[m]] = "whole"
           /\ \A m \in before : SamePlatform(m) \/ m \in ListedNow
<1>1. Link
  BY Succeeds
<1>2. ListedNow = new /\ file' = file
  BY <1>1, LinkLists
<1>3. /\ selected \subseteq new /\ (\A m \in before : SamePlatform(m) \/ m \in new)
      /\ \A m \in selected : Whole(m)
  BY <1>1 DEF StoreInv, PullInv, Link
<1> QED BY <1>2, <1>3 DEF Whole

\* oci/handler/directory.go, PullDigest: what a pull that succeeds has selected is listed
\* and whole, whatever was there before.
THEOREM PullsAreWhole == Spec => PullRepairs
<1>1. StoreInv /\ [Next]_vars =>
         \/ UNCHANGED vars
         \/ cmd.op = "pull" /\ pc' = "ok" =>
              \A m \in selected :
                 m \in ListedNow /\ file'[m] = "whole" /\ file'[Layer[m]] = "whole"
  BY PullSucceeds
<1> QED BY <1>1, StoreInvariant, PTL DEF Spec, PullRepairs

\* oci/handler/directory.go, PullDigest: a pull that succeeds keeps the manifests of the
\* platforms that it did not pull.
THEOREM PullsKeepOthers == Spec => PullKeepsOthers
<1>1. StoreInv /\ [Next]_vars =>
         \/ UNCHANGED vars
         \/ cmd.op = "pull" /\ pc' = "ok" => \A m \in before : SamePlatform(m) \/ m \in ListedNow
  BY PullSucceeds
<1> QED BY <1>1, StoreInvariant, PTL DEF Spec, PullKeepsOthers

\* oci/pack.go, Delete: a delete that found its manifest and succeeds leaves exactly the
\* others listed.
THEOREM DeletesAreExact == Spec => DeleteKeepsOthers
<1>1. StoreInv /\ [Next]_vars =>
         \/ UNCHANGED vars
         \/ cmd.op = "delete" /\ victim # None /\ pc' = "ok" => ListedNow = before \ {cmd.m}
  <2> SUFFICES ASSUME StoreInv, [Next]_vars, ~UNCHANGED vars,
                      cmd.op = "delete", victim # None, pc' = "ok"
               PROVE  ListedNow = before \ {cmd.m}
    OBVIOUS
  <2>1. Emptied \/ AlreadySaved \/ Relink
    BY Succeeds
  <2>2. CASE Relink
    BY <2>2, LinkLists DEF StoreInv, DeleteInv, Relink, Saving
  <2>3. CASE Emptied \/ AlreadySaved
    <3>1. cmd.ref \in Refs /\ Listed(cmd.ref) = before \ {cmd.m}
      BY <2>3 DEF StoreInv, Control, Idle, DeleteInv, Emptied, AlreadySaved
    <3>2. PICK r \in Refs : r = cmd.ref
      BY <3>1
    <3>3. CASE Emptied
      <4>1. Listed(r)' = {}
        BY <3>2, <3>3, UnlinkedIndex DEF Emptied, StoreInv
      <4>2. Listed(cmd.ref) \ {cmd.m} = {}
        BY <3>3 DEF Emptied, Remaining, Listed, ResolveIndex
      <4> QED BY <3>1, <3>2, <4>1, <4>2, NowListed
    <3>4. CASE AlreadySaved
      <4>1. tag' = tag /\ index' = index
        BY <3>4 DEF AlreadySaved, store
      <4>2. Listed(r)' = Listed(r)
        BY <4>1 DEF Listed, ResolveIndex, Resolves
      <4> QED BY <3>1, <3>2, <4>2, NowListed
    <3> QED BY <2>3, <3>3, <3>4
  <2> QED BY <2>1, <2>2, <2>3
<1> QED BY <1>1, StoreInvariant, PTL DEF Spec, DeleteKeepsOthers

\* oci/pack.go, NewPackageFromTarget: a package that is saved is listed
\* with its files there, beside what its merge strategy keeps.
THEOREM PackagesCombine == Spec => PackageCombines
<1>1. StoreInv /\ [Next]_vars =>
         \/ UNCHANGED vars
         \/ cmd.op \in {"merge", "remake", "exit", "overwrite"} /\ pc' = "ok" =>
              /\ ListedNow = {cmd.m} \cup (IF cmd.op # "merge" THEN {}
                                    ELSE {m \in before : Plat[m] # PackPlat[cmd.m]})
              /\ file'[cmd.m] = "whole"
              /\ file'[Config[cmd.m]] # "none" /\ file'[Layer[cmd.m]] # "none"
  <2> SUFFICES ASSUME StoreInv, [Next]_vars, ~UNCHANGED vars, cmd.op \in Packs, pc' = "ok"
               PROVE  /\ ListedNow = {cmd.m} \cup (IF cmd.op # "merge" THEN {}
                                            ELSE {m \in before : Plat[m] # PackPlat[cmd.m]})
                      /\ file'[cmd.m] = "whole"
                      /\ file'[Config[cmd.m]] # "none" /\ file'[Layer[cmd.m]] # "none"
    BY DEF Packs
  <2>1. Relink
    BY Succeeds DEF Packs
  <2>2. ListedNow = new /\ file' = file
    BY <2>1, LinkLists
  <2>3. new = {cmd.m} \cup Others /\ Packed
    BY <2>1 DEF StoreInv, PackInv, Relink, Saving
  <2> QED BY <2>2, <2>3 DEF Others, Packed
<1> QED BY <1>1, StoreInvariant, PTL DEF Spec, PackageCombines

-----------------------------------------------------------------------------
(* Types                                                                   *)

\* Only the file of a config, and the job that writes one, hold that of another manifest;
\* the commands and the kills are counted.
OwnInv ==
    /\ \A b \in Blobs \ Range(Config) : file[b] # "other"
    /\ \A m \in Manifests : job[m].open = "other" => job[m].phase = "config"
    /\ turns \in 0..Commands /\ kills \in 0..Kills

\* A step of a job writes what it has opened, to the file it is at.
LEMMA OwnBlobs ==
    ASSUME Types, OwnInv, NEW m \in Manifests, BlobStep(m)
    PROVE  OwnInv'
<1>0. PICK p : job[m].phase = p
  OBVIOUS
<1>1. /\ p \in JobPhases /\ (\A b \in Blobs : b # Blob(m, p) => file'[b] = file[b])
      /\ (\A x \in Manifests : x # m => job'[x] = job[x])
  BY <1>0, BlobSteps
<1>2. turns' = turns /\ kills' = kills
  BY DEF BlobStep, SkipBlob, OpenBlob, WriteBlob, FailBlob, env
<1>3. p = "config" => Blob(m, p) \in Range(Config)
  <2>1. p = "config" => Blob(m, p) = Config[m]
    BY <1>1, AtBlob
  <2>2. m \in DOMAIN Config
    BY StoreAssumption
  <2>3. Config[m] \in Range(Config)
    BY <2>2 DEF Range
  <2> QED BY <2>1, <2>3
<1>4. Content(m) = "other" => p = "config"
  BY <1>0 DEF Content
<1>5. job'[m].open = "other" => job'[m].phase = "config"
  BY <1>0, <1>4, BlobSteps
<1>6. CASE SkipBlob(m) \/ OpenBlob(m) \/ WriteBlob(m)
  <2>1. file' = file \/ file'[Blob(m, p)] \in {"part", job[m].open}
    <3>1. Blob(m, p) \in DOMAIN file
      BY <1>1, AtBlob DEF Types
    <3> QED BY <1>0, <1>6, <3>1 DEF SkipBlob, OpenBlob, WriteBlob, store
  <2>2. ASSUME NEW b \in Blobs \ Range(Config) PROVE file'[b] # "other"
    <3>1. CASE b # Blob(m, p)
      BY <1>1, <3>1 DEF OwnInv
    <3>2. CASE b = Blob(m, p)
      <4>1. p # "config"
        BY <1>3, <3>2
      <4>2. job[m].open # "other"
        BY <1>0, <4>1 DEF OwnInv
      <4> QED BY <2>1, <3>2, <4>2 DEF OwnInv
    <3> QED BY <3>1, <3>2
  <2> QED BY <1>1, <1>2, <1>5, <2>2 DEF OwnInv
<1>7. CASE FailBlob(m)
  <2>1. file' = file \/ file' = [file EXCEPT ![Blob(m, p)] = "none"]
    BY <1>0, <1>7 DEF FailBlob
  <2>2. \A b \in Blobs : file'[b] = file[b] \/ file'[b] = "none"
    BY <2>1 DEF Types
  <2> QED BY <1>1, <1>2, <1>5, <2>2 DEF OwnInv
<1> QED BY <1>6, <1>7 DEF BlobStep

\* Every other step writes no such file, and its jobs have opened nothing.
LEMMA OwnOthers ==
    ASSUME Types, OwnInv, turns' \in 0..Commands, kills' \in 0..Kills,
           job' = job \/ \A m \in Manifests : job'[m].open = "no",
           \A b \in Blobs : file'[b] \in {file[b], "none", "part"}
    PROVE  OwnInv'
BY DEF OwnInv

\* No step of a command, and no kill, breaks it.
LEMMA OwnStep ==
    ASSUME StoreInv, OwnInv, [Next]_vars
    PROVE  OwnInv'
<1> USE DEF env, store, locals, Return, Leave
<1>t. Types
  BY DEF StoreInv
<1>n. \A m \in Manifests : NoJobs[m].open = "no"
  BY DEF NoJobs, NoJob
<1>j. ASSUME NEW ms, StartBlobs(ms) PROVE \A m \in Manifests : job'[m].open = "no"
  BY <1>j DEF StartBlobs, NoJob
<1>1. CASE Pull
  <2>1. turns' = turns /\ kills' = kills
    BY <1>1 DEF Pull, Untag, Adopt, AdoptFails, Pulled, Merge, MergeFails, OpenIndex, Link, LinkFails
  <2>2. job' = job \/ \A m \in Manifests : job'[m].open = "no"
    BY <1>1, <1>n, <1>j DEF Pull, Untag, Adopt, AdoptFails, Pulled, Merge, MergeFails, OpenIndex, Link, LinkFails
  <2>3. \A b \in Blobs : file'[b] \in {file[b], "none", "part"}
    BY <1>1 DEF Pull, Untag, Adopt, AdoptFails, Pulled, Merge, MergeFails, OpenIndex, Link, LinkFails
  <2> QED BY <1>t, <2>1, <2>2, <2>3, OwnOthers DEF OwnInv
<1>2. CASE Fetch
  <2>1. CASE WaitFails
    <3>1. UNCHANGED <<turns, kills, file>> /\ job' = NoJobs
      BY <2>1 DEF WaitFails
    <3> QED BY <1>t, <1>n, <3>1, OwnOthers DEF OwnInv
  <2> QED BY <1>t, <1>2, <2>1, OwnBlobs DEF Fetch, BlobStep
<1>3. CASE DeleteManifest
  <2>1. turns' = turns /\ kills' = kills
    BY <1>3 DEF DeleteManifest, UnlinkBlobs, UnlinkMissing, UnlinkFails, Unlist, Relist, RelistFails
  <2>2. job' = job \/ job' = NoJobs
    BY <1>3 DEF DeleteManifest, UnlinkBlobs, UnlinkMissing, UnlinkFails, Unlist, Relist, RelistFails
  <2>3. /\ \/ file' = file \/ file' = [file EXCEPT ![victim] = "none"]
           \/ file' = [file EXCEPT ![Layer[victim]] = "none", ![Config[victim]] = "none"]
        /\ DOMAIN file = Blobs
    BY <1>t, <1>3 DEF Types, DeleteManifest, UnlinkBlobs, UnlinkMissing, UnlinkFails, Unlist, Relist, RelistFails
  <2>4. \A b \in Blobs : file'[b] \in {file[b], "none", "part"}
    BY <2>3
  <2> QED BY <1>t, <1>n, <2>1, <2>2, <2>4, OwnOthers DEF OwnInv
<1>4. CASE Delete
  <2>1. turns' = turns /\ kills' = kills /\ file' = file /\ (job' = job \/ job' = NoJobs)
    BY <1>4 DEF Delete, Emptied, AlreadySaved, Resave, ResolveFails
  <2> QED BY <1>t, <1>n, <2>1, OwnOthers DEF OwnInv
<1>5. CASE Save
  <2>1. turns' = turns /\ kills' = kills /\ file' = file /\ (job' = job \/ job' = NoJobs)
    BY <1>5 DEF Save, Reindex, CreateIndex, WriteIndex, SaveFails, Relink, RelinkFails
  <2> QED BY <1>t, <1>n, <2>1, OwnOthers DEF OwnInv
<1>6. CASE Package
  <2>1. /\ turns' = turns /\ kills' = kills /\ file' = file
        /\ job' = job \/ \A m \in Manifests : job'[m].open = "no"
    BY <1>6, <1>j DEF Package, Combine, AddManifest, Saved
  <2> QED BY <1>t, <2>1, OwnOthers DEF OwnInv
<1>7. CASE Kill
  <2>1. turns' = turns /\ file' = file /\ job' = NoJobs /\ kills < Kills /\ kills' = kills + 1
    BY <1>7 DEF Kill
  <2>2. kills' \in 0..Kills
    BY <2>1, StoreAssumption, SMT DEF OwnInv
  <2> QED BY <1>t, <1>n, <2>1, <2>2, OwnOthers DEF OwnInv
<1>8. CASE \E r \in Refs, m \in Manifests : Start(r, m)
  <2>1. kills' = kills /\ file' = file /\ job' = job /\ turns < Commands /\ turns' = turns + 1
    BY <1>8 DEF Start, StartPull, StartDelete, StartMerge, StartExit, StartOverwrite, Begin
  <2>2. turns' \in 0..Commands
    BY <2>1, StoreAssumption, SMT DEF OwnInv
  <2> QED BY <1>t, <2>1, <2>2, OwnOthers DEF OwnInv
<1>9. CASE Publish \/ UNCHANGED vars
  <2>1. turns' = turns /\ kills' = kills /\ file' = file /\ job' = job
    BY <1>9 DEF Publish, vars
  <2> QED BY <1>t, <2>1, OwnOthers DEF OwnInv
<1> QED BY <1>1, <1>2, <1>3, <1>4, <1>5, <1>6, <1>7, <1>8, <1>9 DEF Next

\* For any registry and any number of commands and kills every variable keeps its type. In
\* particular only configs, which are fetched by platform, are ever those of another manifest.
THEOREM TypeCorrect == Spec => []TypeOK
<1>1. Init => OwnInv
  <2> SUFFICES ASSUME Init PROVE OwnInv
    OBVIOUS
  <2>1. \A b \in Blobs : file[b] # "other"
    BY DEF Init, Stocked
  <2>2. \A m \in Manifests : job[m].open = "no"
    BY DEF Init, NoJobs, NoJob
  <2>3. turns \in 0..Commands /\ kills \in 0..Kills
    BY StoreAssumption, SMT DEF Init
  <2> QED BY <2>1, <2>2, <2>3 DEF OwnInv
<1>2. StoreInv /\ OwnInv /\ [Next]_vars => OwnInv'
  BY OwnStep
<1>3. StoreInv /\ OwnInv => TypeOK
  <2> SUFFICES ASSUME StoreInv, OwnInv PROVE TypeOK
    OBVIOUS
  <2>1. Types
    BY DEF StoreInv
  <2>2. file \in [Blobs -> Contents] /\ Range(Config) \subseteq Blobs
    BY <2>1 DEF Types, Blobs
  <2>3. /\ DOMAIN file = Blobs /\ \A b \in Blobs \ Range(Config) : file[b] \in Statuses
        /\ \A b \in Range(Config) : file[b] \in Statuses \cup {"other"}
    BY <2>2 DEF OwnInv, Contents, Statuses
  <2> QED BY <2>1, <2>3 DEF Types, TypeOK, OwnInv
<1> QED BY <1>1, <1>2, <1>3, StoreInvariant, PTL DEF Spec
=============================================================================
