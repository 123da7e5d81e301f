------------------------------ MODULE OCIStore ------------------------------
(***************************************************************************)
(* The local store of OCI packages: a directory of files named by their    *)
(* digest (manifests, configs, layers and indexes) and of tags, symbolic   *)
(* links from a reference to its index.  `kraft pkg pull`, `kraft pkg` and *)
(* `kraft pkg rm` change it, one command at a time; a command may be       *)
(* killed between any two writes, and what it has written stays.           *)
(*                                                                         *)
(* An index is named by its origin (the registry, or the reference it was  *)
(* built for, which its annotations hold) and the manifests it lists.      *)
(***************************************************************************)
EXTENDS Naturals, Sequences, FiniteSets, Functions

CONSTANTS
    Refs,
    Manifests,
    Built,       \* the manifests `kraft pkg` makes; the others are the registry's
    Plat,        \* manifest -> the platform its descriptor names
    PackPlat,    \* Built -> its platform before the kconfig options are added to it
    Selects,     \* platform -> the platforms that match it as a selector
    Config, Layer,
    Published,   \* the versions of the registry's indexes, oldest first: sets of manifests
    Order,       \* the order in which the registry's indexes list manifests
    Stocks,      \* what earlier commands may have left: reference -> the manifests it lists
    Commands,    \* bound: the commands that are run
    Kills,       \* bound: the commands that are killed
    None, Part   \* no link; a file with the beginning of its content

Blobs == Manifests \cup Range(Config) \cup Range(Layer)
Origins == Refs \cup {"registry"}
Names == Origins \X SUBSET Manifests

ASSUME StoreAssumption ==
    /\ Built \subseteq Manifests /\ Published \in Seq(SUBSET (Manifests \ Built)) \ {<<>>}
    /\ DOMAIN Config = Manifests /\ DOMAIN Layer = Manifests /\ DOMAIN Plat = Manifests
    /\ Built \subseteq DOMAIN PackPlat /\ Range(Plat) \subseteq DOMAIN Selects
    /\ Manifests \ Built \subseteq Range(Order)
    /\ Stocks \subseteq [Refs -> SUBSET (Manifests \ Built)]
    /\ None \notin Names /\ \A ms \in SUBSET Manifests : Part # ms
    /\ Commands \in Nat /\ Kills \in Nat

\* A manifest, a config and a layer have different digests.
ASSUME DigestsAssumption ==
    /\ Manifests \cap Range(Config) = {} /\ Manifests \cap Range(Layer) = {}
    /\ Range(Config) \cap Range(Layer) = {}

VARIABLES
    version,   \* the version the registry holds under every reference
    tag,       \* reference -> the name of the index it links to
    index,     \* the name of an index file -> the manifests it lists
    file,      \* blob -> none, part, whole, or other: a config of another manifest
    pc, cmd,   \* the running command: its operation, reference and manifest
    selected,  \* manifestsToPull
    local,     \* localManifests, or the manifests of the existing index
    new,       \* newManifests, or the manifests of the new index
    job,       \* manifest -> what the goroutine that pulls or saves it is at
    victim, rest, name,
    before,    \* history: what the reference listed when the command began
    turns, kills

locals == <<cmd, selected, local, new, job, victim, rest, name, before>>
env == <<version, turns, kills>>
store == <<tag, index, file>>
vars == <<env, store, pc, locals>>

NoJob == [phase |-> "none", open |-> "no"]
NoJobs == [m \in Manifests |-> NoJob]
NoCmd == [op |-> "none", ref |-> None, m |-> None]

Stocked(stock) ==
    LET listed == UNION Range(stock) IN
    /\ tag = [r \in Refs |-> IF stock[r] = {} THEN None ELSE <<"registry", stock[r]>>]
    /\ index = [n \in Range(tag) \ {None} |-> n[2]]
    /\ file = [b \in Blobs |-> IF \E m \in listed : b \in {m, Config[m], Layer[m]}
                              THEN "whole" ELSE "none"]

Init ==
    /\ version = 1 /\ \E stock \in Stocks : Stocked(stock)
    /\ pc = "idle" /\ cmd = NoCmd /\ selected = {} /\ local = {} /\ new = {}
    /\ job = NoJobs /\ victim = None /\ rest = {} /\ name = None /\ before = {}
    /\ turns = 0 /\ kills = 0

-----------------------------------------------------------------------------
(* Resolving *)

RemoteIndex == Published[version]

\* os.Stat of the tag: it follows the link.
Resolves(r) == tag[r] \in DOMAIN index
ResolveIndex(r) == Resolves(r) /\ index[tag[r]] # Part
Listed(r) == IF ResolveIndex(r) THEN index[tag[r]] ELSE {}
ResolveManifest(m) == file[m] = "whole"

\* NewIndexFromRef: every manifest of the index has to resolve.
NewIndexFromRef(r) == ResolveIndex(r) /\ \A m \in Listed(r) : ResolveManifest(m)

\* The packages the catalog makes of the local index.
Local(r) == {m \in Listed(r) : ResolveManifest(m) \/ m \in RemoteIndex}

-----------------------------------------------------------------------------
(* How a command ends *)

Leave(how) ==
    /\ pc' = how /\ cmd' = NoCmd /\ selected' = {} /\ local' = {} /\ new' = {}
    /\ job' = NoJobs /\ victim' = None /\ rest' = {} /\ name' = None /\ before' = {}
    /\ UNCHANGED <<version, turns>>

Return(how) == Leave(how) /\ UNCHANGED kills

Idle == pc \in {"idle", "ok"}

Kill ==
    /\ ~Idle /\ kills < Kills /\ kills' = kills + 1
    /\ Leave("idle") /\ UNCHANGED store

\* A new version is pushed to the registry.
Publish ==
    /\ Idle /\ version < Len(Published) /\ version' = version + 1
    /\ pc' = "idle" /\ UNCHANGED <<store, locals, turns, kills>>

Begin(op, r, m) ==
    /\ Idle /\ turns < Commands /\ turns' = turns + 1
    /\ cmd' = [op |-> op, ref |-> r, m |-> m] /\ before' = Listed(r)
    /\ UNCHANGED <<version, kills>>

Wrote(n, listed) == [x \in DOMAIN index \cup {n} |-> IF x = n THEN listed ELSE index[x]]
Removed(n) == Restrict(index, DOMAIN index \ {n})
RemoveIndex(r) ==
    /\ index' = Removed(tag[r])
    /\ tag' = IF Resolves(r) THEN [tag EXCEPT ![r] = None] ELSE tag

-----------------------------------------------------------------------------
(* A manifest, then its config, then its layers are pulled or saved *)

Blob(m, phase) == CASE phase = "manifest" -> m [] phase = "config" -> Config[m] [] OTHER -> Layer[m]
After(phase) == CASE phase = "manifest" -> "config" [] phase = "config" -> "layer" [] OTHER -> "done"
At(m, phase) == [job EXCEPT ![m] = [phase |-> phase, open |-> "no"]]

\* Variant of Skip: a pull keeps any config or layer that exists.
SkipAnyLayer(m) ==
    LET phase == job[m].phase IN
    IF cmd.op = "pull" THEN \/ phase = "manifest" /\ ResolveManifest(m)
                            \/ phase # "manifest" /\ file[Blob(m, phase)] # "none"
                       ELSE phase # "manifest" /\ file[Blob(m, phase)] # "none"

\* What is not written again: a pull keeps a manifest that can be read and a config that
\* exists, and always pulls the layers; Save keeps what exists, and always writes the
\* manifest.
Skip(m) ==
    LET phase == job[m].phase IN
    IF cmd.op = "pull" THEN \/ phase = "manifest" /\ ResolveManifest(m)
                            \/ phase = "config" /\ file[Config[m]] # "none"
                       ELSE phase # "manifest" /\ file[Blob(m, phase)] # "none"

\* remote.Image: the first manifest of the index that matches the platform asked for.
Image == LET matching == {i \in DOMAIN Order : Order[i] \in selected}
         IN  Order[CHOOSE i \in matching : \A j \in matching : i <= j]

\* A config is that of the image.
Content(m) == IF cmd.op = "pull" /\ job[m].phase = "config" /\ Image # m THEN "other" ELSE "whole"

Working(m) == pc = "blobs" /\ job[m].phase \in {"manifest", "config", "layer"}

SkipBlob(m) ==
    /\ Working(m) /\ job[m].open = "no" /\ Skip(m)
    /\ job' = At(m, After(job[m].phase))
    /\ UNCHANGED <<env, store, pc, cmd, selected, local, new, victim, rest, name, before>>

OpenBlob(m) ==
    /\ Working(m) /\ job[m].open = "no" /\ ~Skip(m)
    /\ file' = [file EXCEPT ![Blob(m, job[m].phase)] = "part"]
    /\ job' = [job EXCEPT ![m].open = Content(m)]
    /\ UNCHANGED <<env, tag, index, pc, cmd, selected, local, new, victim, rest, name, before>>

WriteBlob(m) ==
    /\ Working(m) /\ job[m].open # "no"
    /\ file' = [file EXCEPT ![Blob(m, job[m].phase)] = job[m].open]
    /\ job' = At(m, After(job[m].phase))
    /\ UNCHANGED <<env, tag, index, pc, cmd, selected, local, new, victim, rest, name, before>>

\* A request or a write fails, or the context of the group is cancelled.
FailBlob(m) ==
    /\ Working(m) /\ ~Skip(m)
    /\ file' = IF job[m].open = "no" THEN file
               ELSE [file EXCEPT ![Blob(m, job[m].phase)] = "none"]
    /\ job' = At(m, "failed")
    /\ UNCHANGED <<env, tag, index, pc, cmd, selected, local, new, victim, rest, name, before>>

Waited == pc = "blobs" /\ \A m \in Manifests : job[m].phase \in {"none", "done", "failed"}
AnyFailed == \E m \in Manifests : job[m].phase = "failed"

WaitFails == Waited /\ AnyFailed /\ Return("idle") /\ UNCHANGED store

-----------------------------------------------------------------------------
(* Pull *)

StartPull(r, m) ==
    /\ m \in RemoteIndex \cup Local(r)
    /\ Begin("pull", r, m)
    /\ selected' = {n \in RemoteIndex : Plat[n] \in Selects[Plat[m]]}
    /\ pc' = "untag"
    /\ UNCHANGED <<store, local, new, job, victim, rest, name>>

StartBlobs(ms) == pc' = "blobs" /\ job' = [m \in Manifests |->
                      IF m \in ms THEN [phase |-> "manifest", open |-> "no"] ELSE NoJob]

\* The tag is removed first; a tag that links to nothing is left.
Untag ==
    /\ pc = "untag"
    /\ IF Resolves(cmd.ref)
       THEN /\ name' = tag[cmd.ref] /\ tag' = [tag EXCEPT ![cmd.ref] = None]
            /\ pc' = "adopt" /\ UNCHANGED job
       ELSE StartBlobs(selected) /\ UNCHANGED <<tag, name>>
    /\ UNCHANGED <<env, index, file, cmd, selected, local, new, victim, rest, before>>

\* Then the manifests of the old index are read, and the index is removed.
Adopt ==
    /\ pc = "adopt" /\ index[name] # Part
    /\ local' = index[name]
    /\ index' = Removed(name) /\ StartBlobs(selected)
    /\ UNCHANGED <<env, tag, file, cmd, selected, new, victim, rest, name, before>>
AdoptFails == pc = "adopt" /\ index[name] = Part /\ Return("idle") /\ UNCHANGED store

Pulled ==
    /\ Waited /\ ~AnyFailed /\ cmd.op = "pull"
    /\ pc' = "merge" /\ new' = selected
    /\ UNCHANGED <<env, store, cmd, selected, local, job, victim, rest, name, before>>

SamePlatform(m) == \E n \in selected : Plat[n] = Plat[m]
\* A local manifest that stays listed, and one that an update of its platform replaces.
Keeps(m) == m \notin selected /\ (m = cmd.m \/ ~SamePlatform(m))
Replaced(m) == m \notin selected /\ m # cmd.m /\ SamePlatform(m)

\* A replaced manifest whose file is gone fails the pull; the loop may have removed others.
MergeFails ==
    /\ pc = "merge" /\ \E m \in local : Replaced(m) /\ file[m] = "none"
    /\ \E gone \in SUBSET {m \in local : Replaced(m)} :
           file' = [b \in Blobs |-> IF b \in gone THEN "none" ELSE file[b]]
    /\ Return("idle") /\ UNCHANGED <<tag, index>>

\* Variant of Merge: the local manifests are not taken over.
MergeSelectedOnly ==
    /\ pc = "merge" /\ \A m \in local : Replaced(m) => file[m] # "none"
    /\ file' = [b \in Blobs |-> IF b \in local /\ Replaced(b) THEN "none" ELSE file[b]]
    /\ name' = <<"registry", new>> /\ pc' = "open" /\ local' = {}
    /\ UNCHANGED <<env, tag, index, cmd, selected, new, job, victim, rest, before>>

\* The local manifests of other platforms stay listed.
Merge ==
    /\ pc = "merge" /\ \A m \in local : Replaced(m) => file[m] # "none"
    /\ file' = [b \in Blobs |-> IF b \in local /\ Replaced(b) THEN "none" ELSE file[b]]
    /\ new' = new \cup {m \in local : Keeps(m)}
    /\ name' = <<"registry", new'>> /\ pc' = "open" /\ local' = {}
    /\ UNCHANGED <<env, tag, index, cmd, selected, job, victim, rest, before>>

\* The index is opened without truncation, written, and linked; os.Symlink does not replace.
OpenIndex ==
    /\ pc = "open" /\ pc' = "write"
    /\ index' = IF name \in DOMAIN index THEN index ELSE Wrote(name, Part)
    /\ UNCHANGED <<env, tag, file, locals>>

WriteIndex ==
    /\ pc \in {"write", "save"} /\ index' = Wrote(name, new)
    /\ pc' = IF pc = "write" THEN "link" ELSE "relink"
    /\ UNCHANGED <<env, tag, file, locals>>

Link ==
    /\ pc = "link" /\ tag[cmd.ref] = None
    /\ tag' = [tag EXCEPT ![cmd.ref] = name]
    /\ Return("ok") /\ UNCHANGED <<index, file>>
LinkFails == pc = "link" /\ tag[cmd.ref] # None /\ Return("idle") /\ UNCHANGED store

-----------------------------------------------------------------------------
(* DeleteManifest, of victim *)

Onward == IF cmd.op = "delete" THEN "resolve" ELSE "combine"

\* The layers and the config go first, whoever else refers to them.
UnlinkBlobs ==
    /\ pc = "unlink" /\ ResolveManifest(victim) /\ pc' = "unlist"
    /\ file' = [file EXCEPT ![Layer[victim]] = "none", ![Config[victim]] = "none"]
    /\ UNCHANGED <<env, tag, index, locals>>

\* Delete goes on without the manifest; a manifest that cannot be read is removed.
UnlinkMissing ==
    /\ pc = "unlink" /\ cmd.op = "delete" /\ file[victim] = "none"
    /\ pc' = "resolve" /\ victim' = None
    /\ UNCHANGED <<env, store, cmd, selected, local, new, job, rest, name, before>>
UnlinkFails ==
    /\ pc = "unlink" /\ file[victim] = "part"
    /\ file' = [file EXCEPT ![victim] = "none"] /\ Return("idle") /\ UNCHANGED <<tag, index>>

\* Variant of Unlist: an index that lists others is left as it is.
UnlistLast ==
    LET listed == Listed(cmd.ref) \ {victim} IN
    /\ pc = "unlist" /\ rest' = listed /\ pc' = Onward
    /\ file' = [file EXCEPT ![victim] = "none"]
    /\ IF listed = {} THEN RemoveIndex(cmd.ref) ELSE UNCHANGED <<tag, index>>
    /\ UNCHANGED <<env, cmd, selected, local, new, job, victim, name, before>>

\* The index is removed with its last manifest, else rewritten; then the manifest goes.
Unlist ==
    LET listed == Listed(cmd.ref) \ {victim} IN
    /\ pc = "unlist" /\ rest' = listed
    /\ IF listed = {}
       THEN /\ RemoveIndex(cmd.ref) /\ pc' = Onward
            /\ file' = [file EXCEPT ![victim] = "none"]
       ELSE /\ index' = Wrote(tag[cmd.ref], Part) /\ pc' = "relist"
            /\ UNCHANGED <<tag, file>>
    /\ UNCHANGED <<env, cmd, selected, local, new, job, victim, name, before>>

\* The index is rewritten through the tag, under the name of what it listed before.
Relist ==
    /\ pc = "relist" /\ pc' = Onward
    /\ index' = Wrote(tag[cmd.ref], rest)
    /\ file' = [file EXCEPT ![victim] = "none"]
    /\ UNCHANGED <<env, tag, locals>>
RelistFails ==
    /\ pc = "relist" /\ Return("idle")
    /\ tag' = [tag EXCEPT ![cmd.ref] = None] /\ file' = [file EXCEPT ![victim] = "none"]
    /\ UNCHANGED index

-----------------------------------------------------------------------------
(* Delete *)

StartDelete(r, m) ==
    /\ m \in Local(r) /\ Begin("delete", r, m) /\ pc' = "unlink" /\ victim' = m
    /\ UNCHANGED <<store, selected, local, new, job, rest, name>>

\* What is left of the index after DeleteManifest.
Remaining == Listed(cmd.ref) \ {cmd.m}
Renamed == <<tag[cmd.ref][1], Remaining>>
NewIndexFromSpec == ResolveIndex(cmd.ref) /\ Remaining # {} /\ \A m \in Remaining : ResolveManifest(m)

Emptied ==
    /\ pc = "resolve" /\ (Resolves(cmd.ref) => ResolveIndex(cmd.ref) /\ Remaining = {})
    /\ RemoveIndex(cmd.ref) /\ Return("ok") /\ UNCHANGED file

\* Save returns early when a file has the name of the new index.
AlreadySaved ==
    /\ pc = "resolve" /\ NewIndexFromSpec /\ Renamed \in DOMAIN index
    /\ Return("ok") /\ UNCHANGED store
Resave ==
    /\ pc = "resolve" /\ NewIndexFromSpec /\ Renamed \notin DOMAIN index
    /\ new' = Remaining /\ name' = Renamed /\ pc' = "reindex"
    /\ UNCHANGED <<env, store, cmd, selected, local, job, victim, rest, before>>
ResolveFails ==
    /\ pc = "resolve" /\ Resolves(cmd.ref) /\ ~(ResolveIndex(cmd.ref) /\ Remaining = {})
    /\ ~NewIndexFromSpec /\ Return("idle") /\ UNCHANGED store

-----------------------------------------------------------------------------
(* Index.Save: the old index and its tag are removed before the new ones are written *)

Reindex ==
    /\ pc = "reindex" /\ RemoveIndex(cmd.ref) /\ pc' = "create"
    /\ UNCHANGED <<env, file, locals>>

CreateIndex ==
    /\ pc = "create" /\ index' = Wrote(name, Part) /\ pc' = "save"
    /\ UNCHANGED <<env, tag, file, locals>>
SaveFails ==
    /\ pc = "save" /\ index' = Removed(name)
    /\ Return("idle") /\ UNCHANGED <<tag, file>>

\* A tag that links to a file is replaced, any other is in the way.
Relink ==
    /\ pc = "relink" /\ (tag[cmd.ref] # None => Resolves(cmd.ref))
    /\ tag' = [tag EXCEPT ![cmd.ref] = name]
    /\ Return("ok") /\ UNCHANGED <<index, file>>
RelinkFails ==
    /\ pc = "relink" /\ tag[cmd.ref] # None /\ ~Resolves(cmd.ref)
    /\ Return("idle") /\ UNCHANGED store

-----------------------------------------------------------------------------
(* Package *)

\* The manifest is new: its annotations hold the time it was made.
Fresh(m) == m \in Built /\ file[m] = "none" /\ \A r \in Refs : m \notin Listed(r)

\* An index that cannot be instantiated counts as none; `exit` fails on one that can.
StartMerge(r, m) ==
    /\ Fresh(m) /\ Begin(IF NewIndexFromRef(r) THEN "merge" ELSE "remake", r, m)
    /\ pc' = "combine"
    /\ local' = IF NewIndexFromRef(r) THEN Listed(r) ELSE {}
    /\ UNCHANGED <<store, selected, new, job, victim, rest, name>>
StartExit(r, m) ==
    /\ Fresh(m) /\ ~NewIndexFromRef(r) /\ Begin("exit", r, m) /\ pc' = "combine"
    /\ UNCHANGED <<store, selected, local, new, job, victim, rest, name>>
StartOverwrite(r, m) ==
    /\ Fresh(m) /\ Begin("overwrite", r, m) /\ RemoveIndex(r) /\ pc' = "combine"
    /\ UNCHANGED <<file, selected, local, new, job, victim, rest, name>>

\* Variant of Combine: every existing manifest stays.
CombineAll(m) ==
    /\ pc = "combine" /\ m \in local
    /\ local' = local \ {m} /\ new' = new \cup {m}
    /\ UNCHANGED <<env, store, pc, cmd, selected, job, victim, rest, name, before>>

\* The existing manifests: one of the platform the new one has so far is deleted.
Combine(m) ==
    /\ pc = "combine" /\ m \in local /\ local' = local \ {m}
    /\ IF Plat[m] = PackPlat[cmd.m]
       THEN pc' = "unlink" /\ victim' = m /\ UNCHANGED new
       ELSE new' = new \cup {m} /\ UNCHANGED <<pc, victim>>
    /\ UNCHANGED <<env, store, cmd, selected, job, rest, name, before>>

AddManifest ==
    /\ pc = "combine" /\ local = {} /\ new' = new \cup {cmd.m}
    /\ name' = <<cmd.ref, new'>> /\ StartBlobs({cmd.m})
    /\ UNCHANGED <<env, store, cmd, selected, local, victim, rest, before>>

Saved ==
    /\ Waited /\ ~AnyFailed /\ cmd.op # "pull" /\ pc' = "reindex"
    /\ UNCHANGED <<env, store, locals>>

-----------------------------------------------------------------------------
Pull ==
    \/ Untag \/ Adopt \/ AdoptFails \/ Pulled \/ Merge \/ MergeFails
    \/ OpenIndex \/ Link \/ LinkFails
Fetch ==
    \/ \E m \in Manifests : SkipBlob(m) \/ OpenBlob(m) \/ WriteBlob(m) \/ FailBlob(m)
    \/ WaitFails
DeleteManifest ==
    UnlinkBlobs \/ UnlinkMissing \/ UnlinkFails \/ Unlist \/ Relist \/ RelistFails
Delete == Emptied \/ AlreadySaved \/ Resave \/ ResolveFails
Save == Reindex \/ CreateIndex \/ WriteIndex \/ SaveFails \/ Relink \/ RelinkFails
Package == (\E m \in Manifests : Combine(m)) \/ AddManifest \/ Saved
Start(r, m) ==
    \/ StartPull(r, m) \/ StartDelete(r, m)
    \/ StartMerge(r, m) \/ StartExit(r, m) \/ StartOverwrite(r, m)

Next ==
    \/ Pull \/ Fetch \/ DeleteManifest \/ Delete \/ Save \/ Package
    \/ Kill \/ Publish
    \/ \E r \in Refs, m \in Manifests : Start(r, m)

Spec == Init /\ [][Next]_vars

-----------------------------------------------------------------------------
(* Properties *)

Statuses == {"none", "part", "whole"}

\* Every variable keeps its type; only a config can be that of another manifest, since only
\* configs are fetched by platform (saveConfig, remote.Image).
TypeOK ==
    /\ version \in DOMAIN Published /\ tag \in [Refs -> Names \cup {None}]
    /\ DOMAIN index \subseteq Names /\ \A n \in DOMAIN index : index[n] \in {Part} \cup SUBSET Manifests
    /\ DOMAIN file = Blobs /\ \A b \in Blobs \ Range(Config) : file[b] \in Statuses
    /\ \A b \in Range(Config) : file[b] \in Statuses \cup {"other"}
    /\ selected \subseteq Manifests /\ local \subseteq Manifests /\ new \subseteq Manifests
    /\ before \subseteq Manifests /\ rest \subseteq Manifests
    /\ victim \in Manifests \cup {None} /\ name \in Names \cup {None}
    /\ turns \in 0..Commands /\ kills \in 0..Kills

\* What the reference of the command lists after the step.
ListedNow == UNION {Listed(r)' : r \in Refs \cap {cmd.ref}}

\* A pull that succeeds leaves every manifest that it selected listed under its reference,
\* with the manifest and its layer whole, whatever a killed or failed command had left of
\* them and whichever of them another reference had removed (PullDigest).
PullRepairs ==
    [][cmd.op = "pull" /\ pc' = "ok" =>
          \A m \in selected :
             m \in ListedNow /\ file'[m] = "whole" /\ file'[Layer[m]] = "whole"]_vars

\* A pull that succeeds still lists the local manifests of the platforms that it did not
\* pull, though it has removed the tag and the index before it pulls (PullDigest).
PullKeepsOthers ==
    [][cmd.op = "pull" /\ pc' = "ok" =>
          \A m \in before : SamePlatform(m) \/ m \in ListedNow]_vars

\* A package that is deleted without an error is no longer listed under its reference, and
\* the others still are: both when Save writes a new index and when it finds one of that
\* name and returns (ociPackage.Delete, Index.Save).  This needs the file of the manifest:
\* without it DeleteManifest leaves the index as it is, and the early return keeps it.
DeleteKeepsOthers ==
    [][cmd.op = "delete" /\ victim # None /\ pc' = "ok" => ListedNow = before \ {cmd.m}]_vars

\* A package that is saved without an error is listed with its files there: the blobs it
\* shares with a manifest that it replaces are written again.  Merged into an index that
\* can be read, it leaves what that lists, but for the platform it replaces; else it is
\* listed alone (NewPackageFromTarget).
PackageCombines ==
    [][cmd.op \in {"merge", "remake", "exit", "overwrite"} /\ pc' = "ok" =>
          /\ ListedNow = {cmd.m} \cup (IF cmd.op # "merge" THEN {}
                                ELSE {m \in before : Plat[m] # PackPlat[cmd.m]})
          /\ file'[cmd.m] = "whole"
          /\ file'[Config[cmd.m]] # "none" /\ file'[Layer[cmd.m]] # "none"]_vars
=============================================================================
