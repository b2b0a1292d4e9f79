---------------------------- MODULE ModelProofs ----------------------------
(***************************************************************************)
(* How a model gets from its source to the pods that serve it, for any     *)
(* number of preparations, slugs, sources, activations, payloads, stages   *)
(* and layers, and without a bound on what dies, is cut or is not written. *)
(*                                                                         *)
(* Preparing: no push loses what another run has pushed; each directory    *)
(* that was ever pushed is whole and of one build; each payload that is    *)
(* printed is in the repository and routes through every layer.            *)
(*                                                                         *)
(* Activating: after a completed activation every pod serves under the     *)
(* payload of the config map, or has one on the way that will; and what    *)
(* serves under one payload is a whole pipeline.                           *)
(***************************************************************************)
EXTENDS ModelPreparation, ModelRollout, StageMapProofs

------------------------------------------------------------------------------
(* The artifact repository                                                 *)
Ended == {"idle", "done", "failed"}

(* From the download to the clone a run keeps model and map, from the clone*)
(* to its end the map and the commit it started from.                      *)
Local  == {"manifests", "shards", "validate", "collect", "clone"}
Remote == {"push", "print"}

PrepRecord(r) ==
    \/ r.at \in Ended
    \/ /\ r.at = "download" /\ r.options \in Options
       /\ r = [at |-> r.at, options |-> r.options]
    \/ /\ r.at \in Local /\ r.options \in Options
       /\ r = [at |-> r.at, options |-> r.options, model |-> r.model, map |-> r.map]
    \/ /\ r.at \in Remote /\ r.options \in Options
       /\ r = [at |-> r.at, options |-> r.options, map |-> r.map, base |-> r.base]

WorkDir(w) ==
    /\ w = [manifests |-> w.manifests, shards |-> w.shards, artifacts |-> w.artifacts]
    /\ DOMAIN w.artifacts = Slugs

PrepTypes ==
    /\ DOMAIN prep = Preparations
    /\ \A p \in Preparations : PrepRecord(prep[p])
    /\ DOMAIN work = Preparations \cup {Shared}
    /\ \A d \in Preparations \cup {Shared} : WorkDir(work[d])

CommitsAre(D) == commits \in Seq([Slugs -> D]) /\ commits # <<>>

(* No two runs share a work directory while they are under way.            *)
OwnDirectories ==
    \A p, q \in Preparations : Running(p) /\ Running(q) /\ Dir(p) = Dir(q) => p = q

InRepository(slug, map) == \E i \in DOMAIN commits : commits[i][slug].map = map

(* What a run has done so far                                              *)
Progressed(p) ==
    /\ prep[p].at \in {"clone", "push"} =>
           work[Dir(p)].artifacts[prep[p].options.slug].map = prep[p].map
    /\ prep[p].at \in Remote => prep[p].base \in DOMAIN commits
    /\ prep[p].at = "print" /\ prep[p].options.upload =>
           InRepository(prep[p].options.slug, prep[p].map)

PrepInv ==
    /\ PrepTypes
    /\ \E D : CommitsAre(D)
    /\ OwnDirectories
    /\ \A p \in Preparations : Progressed(p)
    /\ PayloadsWerePublished
    /\ PushKeepsOtherSlugs

------------------------------------------------------------------------------
LEMMA PrepInit == Init => PrepInv
<1> SUFFICES ASSUME Init PROVE PrepInv
  OBVIOUS
<1>1. \A p \in Preparations : prep[p].at = "idle"
  BY DEF Init, Idle
<1>2. PrepTypes
  BY <1>1 DEF Init, PrepTypes, PrepRecord, Ended, WorkDir, EmptyWork
<1>3. CommitsAre({NoDirectory}) /\ Len(commits) = 1
  BY DEF Init, CommitsAre
<1>4. OwnDirectories
  BY <1>1 DEF OwnDirectories, Running
<1>5. \A p \in Preparations : Progressed(p)
  BY <1>1 DEF Progressed, Remote
<1>6. PayloadsWerePublished
  BY DEF Init, PayloadsWerePublished
<1>7. PushKeepsOtherSlugs
  BY <1>3 DEF PushKeepsOtherSlugs
<1> QED
  BY <1>2, <1>3, <1>4, <1>5, <1>6, <1>7 DEF PrepInv

(* A step of a run under way: it keeps to its own record and directory, and*)
(* the repository only grows. What is left to show is what it does itself. *)
LEMMA StepKeeps ==
    ASSUME PrepInv, NEW q \in Preparations, Running(q), NEW r, PrepRecord(r),
           prep' = [prep EXCEPT ![q] = r],
           r.at \notin Ended => r.options = prep[q].options,
           DOMAIN work' = Preparations \cup {Shared}, WorkDir(work'[Dir(q)]),
           \A d \in Preparations \cup {Shared} : d # Dir(q) => work'[d] = work[d],
           \E D : CommitsAre(D)',
           \A i \in DOMAIN commits : i \in DOMAIN commits' /\ commits'[i] = commits[i],
           Progressed(q)', PayloadsWerePublished', PushKeepsOtherSlugs'
    PROVE  PrepInv'
<1>1. prep'[q] = r /\ \A p \in Preparations \ {q} : prep'[p] = prep[p]
  BY DEF PrepInv, PrepTypes
<1>2. PrepTypes'
  BY <1>1 DEF PrepInv, PrepTypes
<1>3. \A p \in Preparations : Running(p)' => Running(p)
  BY <1>1 DEF Running
<1>4. \A p \in Preparations : Running(p)' => Dir(p)' = Dir(p)
  BY <1>1 DEF Running, Dir, Ended
<1>5. OwnDirectories'
  BY <1>3, <1>4 DEF PrepInv, OwnDirectories
<1>6. ASSUME NEW p \in Preparations, p # q PROVE Progressed(p)'
  <2>1. prep'[p] = prep[p]
    BY <1>1, <1>6
  <2>2. Progressed(p)
    BY DEF PrepInv
  <2>3. CASE Running(p)
    <3>1. Dir(p)' = Dir(p) /\ Dir(p) # Dir(q)
      BY <1>6, <2>1, <2>3 DEF PrepInv, OwnDirectories, Dir
    <3>2. Dir(p) \in Preparations \cup {Shared}
      BY DEF Dir
    <3>3. work'[Dir(p)'] = work[Dir(p)]
      BY <3>1, <3>2
    <3>4. InRepository(prep[p].options.slug, prep[p].map)
              => \E i \in DOMAIN commits' : commits'[i][prep[p].options.slug].map = prep[p].map
      BY DEF InRepository
    <3> QED
      BY <2>1, <2>2, <3>3, <3>4 DEF Progressed, InRepository
  <2>4. CASE ~Running(p)
    BY <2>1, <2>4 DEF Progressed, Running, Remote
  <2> QED
    BY <2>3, <2>4
<1>7. \A p \in Preparations : Progressed(p)'
  BY <1>6
<1> QED
  BY <1>2, <1>5, <1>7 DEF PrepInv

------------------------------------------------------------------------------
(* Steps that leave the repository and the payloads alone                  *)
LEMMA LocalStep ==
    ASSUME PrepInv, NEW q \in Preparations, Running(q), NEW r, PrepRecord(r),
           prep' = [prep EXCEPT ![q] = r],
           r.at \notin Ended => r.options = prep[q].options,
           DOMAIN work' = Preparations \cup {Shared}, WorkDir(work'[Dir(q)]),
           \A d \in Preparations \cup {Shared} : d # Dir(q) => work'[d] = work[d],
           UNCHANGED <<commits, payloads>>, Progressed(q)'
    PROVE  PrepInv'
<1>1. \E D : CommitsAre(D)'
  <2>1. PICK D : CommitsAre(D)
    BY DEF PrepInv
  <2> QED
    BY <2>1 DEF CommitsAre
<1>2. PayloadsWerePublished' /\ PushKeepsOtherSlugs'
  BY DEF PrepInv, PayloadsWerePublished, PushKeepsOtherSlugs
<1>3. \A i \in DOMAIN commits : i \in DOMAIN commits' /\ commits'[i] = commits[i]
  OBVIOUS
<1> QED
  BY <1>1, <1>2, <1>3, StepKeeps

LEMMA EmptyIsWorkDir == WorkDir(EmptyWork)
BY DEF WorkDir, EmptyWork

LEMMA DirIsDirectory == ASSUME NEW p \in Preparations PROVE Dir(p) \in Preparations \cup {Shared}
BY DEF Dir

(* A run that ends, its directory with it or left as it is                 *)
LEMMA EndWorks ==
    ASSUME PrepInv, NEW q \in Preparations, Running(q), NEW at \in Ended, End(q, at)
    PROVE  /\ DOMAIN work' = Preparations \cup {Shared}
           /\ WorkDir(work'[Dir(q)])
           /\ \A d \in Preparations \cup {Shared} : d # Dir(q) => work'[d] = work[d]
           /\ PrepRecord([at |-> at])
           /\ Progressed(q)'
<1>1. prep'[q] = [at |-> at]
  BY DEF End, PrepInv, PrepTypes
<1>2. Progressed(q)'
  BY <1>1 DEF Progressed, Ended, Remote
<1>3. PrepRecord([at |-> at])
  BY DEF PrepRecord
<1>4. CASE prep[q].options.own
  <2>1. work' = [work EXCEPT ![q] = EmptyWork] /\ Dir(q) = q
    BY <1>4 DEF End, Dir
  <2> QED
    BY <1>2, <1>3, <2>1, EmptyIsWorkDir DEF PrepInv, PrepTypes
<1>5. CASE ~prep[q].options.own
  <2>1. work' = work
    BY <1>5 DEF End
  <2> QED
    BY <1>2, <1>3, <2>1, DirIsDirectory DEF PrepInv, PrepTypes
<1> QED
  BY <1>4, <1>5

LEMMA FailKeeps ==
    ASSUME PrepInv, NEW q \in Preparations, Running(q), Fail(q), UNCHANGED <<commits, payloads>>
    PROVE  PrepInv'
<1>1. End(q, "failed") /\ "failed" \in Ended
  BY DEF Fail, Ended
<1> DEFINE r == [at |-> "failed"]
<1>2. prep' = [prep EXCEPT ![q] = r] /\ r.at \in Ended
  BY <1>1 DEF End
<1>3. /\ DOMAIN work' = Preparations \cup {Shared} /\ WorkDir(work'[Dir(q)])
      /\ \A d \in Preparations \cup {Shared} : d # Dir(q) => work'[d] = work[d]
      /\ PrepRecord(r) /\ Progressed(q)'
  BY <1>1, EndWorks
<1> HIDE DEF r
<1> QED
  BY <1>2, <1>3, LocalStep

(* A step of Leaves, with files that are a work directory's                *)
LEMMA LeavesKeeps ==
    ASSUME PrepInv, NEW q \in Preparations, prep[q].at \in Local, NEW files, WorkDir(files),
           NEW done \in BOOLEAN, NEW at \in Local, Leaves(q, files, done, at),
           at = "clone" /\ done => files.artifacts[prep[q].options.slug].map = prep[q].map,
           UNCHANGED <<commits, payloads>>
    PROVE  PrepInv'
<1>1. Running(q) /\ PrepRecord(prep[q]) /\ Dir(q) \in Preparations \cup {Shared}
  BY DirIsDirectory DEF Running, Local, PrepInv, PrepTypes
<1>2. /\ prep[q].options \in Options
      /\ prep[q] = [at |-> prep[q].at, options |-> prep[q].options,
                    model |-> prep[q].model, map |-> prep[q].map]
  BY <1>1 DEF PrepRecord, Local, Remote, Ended
<1>3. CASE done
  <2> DEFINE r == [prep[q] EXCEPT !.at = at]
  <2>1. prep' = [prep EXCEPT ![q] = r] /\ work' = [work EXCEPT ![Dir(q)] = files]
    BY <1>3 DEF Leaves, GoTo
  <2>2. /\ r.at = at /\ r.options = prep[q].options /\ r.map = prep[q].map
        /\ r = [at |-> r.at, options |-> r.options, model |-> r.model, map |-> r.map]
    BY <1>2
  <2> HIDE DEF r
  <2>3. PrepRecord(r)
    BY <1>2, <2>2 DEF PrepRecord
  <2>4. /\ DOMAIN work' = Preparations \cup {Shared} /\ work'[Dir(q)] = files
        /\ \A d \in Preparations \cup {Shared} : d # Dir(q) => work'[d] = work[d]
    BY <1>1, <2>1 DEF PrepInv, PrepTypes
  <2>5. prep'[q] = r
    BY <2>1 DEF PrepInv, PrepTypes
  <2>6. Dir(q)' = Dir(q)
    BY <2>2, <2>5 DEF Dir
  <2>7. Progressed(q)'
    BY <1>3, <2>2, <2>4, <2>5, <2>6 DEF Progressed, Local, Remote
  <2> QED
    BY <1>1, <2>1, <2>2, <2>3, <2>4, <2>7, LocalStep
<1>4. CASE ~done
  <2> DEFINE r == [at |-> "failed"]
  <2>1. /\ prep' = [prep EXCEPT ![q] = r] /\ r.at = "failed" /\ r.at \in Ended
        /\ work' = [work EXCEPT ![Dir(q)] = IF prep[q].options.own THEN EmptyWork ELSE files]
    BY <1>4 DEF Leaves, Ended
  <2> HIDE DEF r
  <2>2. PrepRecord(r)
    BY <2>1 DEF PrepRecord
  <2>3. /\ DOMAIN work' = Preparations \cup {Shared} /\ work'[Dir(q)] \in {EmptyWork, files}
        /\ \A d \in Preparations \cup {Shared} : d # Dir(q) => work'[d] = work[d]
    BY <1>1, <2>1 DEF PrepInv, PrepTypes
  <2>4. WorkDir(work'[Dir(q)])
    BY <2>3, EmptyIsWorkDir
  <2>5. Progressed(q)'
    BY <2>1 DEF Progressed, Remote, PrepInv, PrepTypes
  <2> QED
    BY <1>1, <2>1, <2>2, <2>3, <2>4, <2>5, LocalStep
<1> QED
  BY <1>3, <1>4

------------------------------------------------------------------------------
(* A new run takes a directory in which no other is under way.             *)
LEMMA BeginKeeps == ASSUME PrepInv, NEW p \in Preparations, Begin(p) PROVE PrepInv'
<1>1. PICK o \in Options :
         /\ o.own \/ \A q \in Preparations : Running(q) => prep[q].options.own
         /\ prep' = [prep EXCEPT ![p] = [at |-> "download", options |-> o]]
  BY DEF Begin
<1>2. /\ prep'[p] = [at |-> "download", options |-> o]
      /\ \A q \in Preparations \ {p} : prep'[q] = prep[q]
      /\ DOMAIN prep' = Preparations
      /\ work' = work /\ commits' = commits /\ payloads' = payloads
  BY <1>1 DEF Begin, PrepInv, PrepTypes
<1>3. PrepTypes'
  BY <1>2 DEF PrepInv, PrepTypes, PrepRecord
<1>4. \E D : CommitsAre(D)'
  <2>1. PICK D : CommitsAre(D)
    BY DEF PrepInv
  <2> QED
    BY <1>2, <2>1 DEF CommitsAre
<1>5. \A q \in Preparations \ {p} : /\ Dir(q)' = Dir(q) /\ (Running(q)' => Running(q))
                                    /\ (Running(q) => Dir(q) # Dir(p)')
  <2>1. \A q \in Preparations \ {p} : Dir(q)' = Dir(q) /\ (Running(q)' => Running(q))
    BY <1>2 DEF Running, Dir
  <2>2. Shared \notin Preparations /\ o.own \in BOOLEAN
    BY PreparationAssumption
  <2> DEFINE opts == prep'[p].options
  <2>3. opts = o /\ Dir(p)' = IF opts.own THEN p ELSE Shared
    BY <1>2 DEF Dir
  <2> HIDE DEF opts
  <2>4. CASE o.own
    <3>1. Dir(p)' = p
      BY <2>4, <2>3
    <3> QED
      BY <2>1, <2>2, <3>1 DEF Dir
  <2>5. CASE ~o.own
    <3>1. Dir(p)' = Shared /\ \A q \in Preparations : Running(q) => prep[q].options.own
      BY <1>1, <2>5, <2>3
    <3> QED
      BY <2>1, <2>2, <3>1 DEF Dir
  <2> QED
    BY <2>1, <2>4, <2>5
<1>6. OwnDirectories'
  BY <1>5 DEF PrepInv, OwnDirectories
<1>7. \A q \in Preparations : Progressed(q)'
  <2>1. Progressed(p)'
    BY <1>2 DEF Progressed, Remote
  <2>2. \A q \in Preparations \ {p} : Progressed(q)'
    BY <1>2, <1>5 DEF PrepInv, Progressed, InRepository
  <2> QED
    BY <2>1, <2>2
<1>8. PayloadsWerePublished' /\ PushKeepsOtherSlugs'
  BY <1>2 DEF PrepInv, PayloadsWerePublished, PushKeepsOtherSlugs
<1> QED
  BY <1>3, <1>4, <1>6, <1>7, <1>8 DEF PrepInv

LEMMA DownloadKeeps == ASSUME PrepInv, NEW p \in Preparations, Download(p) PROVE PrepInv'
<1>1. /\ Running(p) /\ PrepRecord(prep[p]) /\ UNCHANGED <<commits, payloads>>
      /\ Dir(p) \in Preparations \cup {Shared}
  BY DirIsDirectory DEF Download, Running, PrepInv, PrepTypes
<1>2. prep[p].options \in Options
  BY <1>1 DEF Download, PrepRecord, Ended, Local, Remote
<1>3. CASE Fail(p)
  BY <1>1, <1>3, FailKeeps
<1>4. CASE /\ UNCHANGED work
           /\ \E model, map : prep' = [prep EXCEPT ![p] =
                  [at |-> "manifests", options |-> prep[p].options, model |-> model, map |-> map]]
  <2>1. PICK model, map : prep' = [prep EXCEPT ![p] =
            [at |-> "manifests", options |-> prep[p].options, model |-> model, map |-> map]]
    BY <1>4
  <2> DEFINE r == [at |-> "manifests", options |-> prep[p].options, model |-> model, map |-> map]
  <2>2. /\ prep' = [prep EXCEPT ![p] = r] /\ r.at = "manifests" /\ r.options = prep[p].options
        /\ r = [at |-> r.at, options |-> r.options, model |-> r.model, map |-> r.map]
    BY <2>1
  <2> HIDE DEF r
  <2>3. PrepRecord(r)
    BY <1>2, <2>2 DEF PrepRecord, Local
  <2>4. Progressed(p)'
    BY <2>2 DEF Progressed, Remote, PrepInv, PrepTypes
  <2>5. /\ DOMAIN work' = Preparations \cup {Shared} /\ WorkDir(work'[Dir(p)])
        /\ \A d \in Preparations \cup {Shared} : d # Dir(p) => work'[d] = work[d]
    BY <1>1, <1>4 DEF PrepInv, PrepTypes
  <2> QED
    BY <1>1, <2>2, <2>3, <2>4, <2>5, LocalStep
<1> QED
  BY <1>3, <1>4 DEF Download

LEMMA ManifestsKeep == ASSUME PrepInv, NEW p \in Preparations, WriteManifests(p) PROVE PrepInv'
<1>1. /\ Running(p) /\ prep[p].at \in Local /\ UNCHANGED <<commits, payloads>>
      /\ WorkDir(work[Dir(p)]) /\ "shards" \in Local
  BY DirIsDirectory DEF WriteManifests, Running, Local, PrepInv, PrepTypes
<1>2. CASE Fail(p)
  BY <1>1, <1>2, FailKeeps
<1>3. CASE \E manifests : \E done \in BOOLEAN :
              Leaves(p, [work[Dir(p)] EXCEPT !.manifests = manifests], done, "shards")
  <2>1. PICK manifests : \E done \in BOOLEAN :
            Leaves(p, [work[Dir(p)] EXCEPT !.manifests = manifests], done, "shards")
    BY <1>3
  <2>2. PICK done \in BOOLEAN :
            Leaves(p, [work[Dir(p)] EXCEPT !.manifests = manifests], done, "shards")
    BY <2>1
  <2> DEFINE files == [work[Dir(p)] EXCEPT !.manifests = manifests]
  <2>3. WorkDir(files)
    BY <1>1 DEF WorkDir
  <2>4. Leaves(p, files, done, "shards")
    BY <2>2
  <2> HIDE DEF files
  <2> QED
    BY <1>1, <2>3, <2>4, LeavesKeeps
<1> QED
  BY <1>2, <1>3 DEF WriteManifests

LEMMA ShardsKeep == ASSUME PrepInv, NEW p \in Preparations, WriteShards(p) PROVE PrepInv'
<1>1. /\ Running(p) /\ prep[p].at \in Local /\ UNCHANGED <<commits, payloads>>
      /\ WorkDir(work[Dir(p)]) /\ "validate" \in Local
  BY DirIsDirectory DEF WriteShards, Running, Local, PrepInv, PrepTypes
<1>2. \E stored : \E done \in BOOLEAN :
          Leaves(p, [work[Dir(p)] EXCEPT !.shards[prep[p].options.slug] = stored], done, "validate")
  BY DEF WriteShards
<1>3. PICK stored : \E done \in BOOLEAN :
          Leaves(p, [work[Dir(p)] EXCEPT !.shards[prep[p].options.slug] = stored], done, "validate")
  BY <1>2
<1> DEFINE files == [work[Dir(p)] EXCEPT !.shards[prep[p].options.slug] = stored]
<1>4. PICK done \in BOOLEAN : Leaves(p, files, done, "validate")
  BY <1>3
<1>5. WorkDir(files)
  BY <1>1 DEF WorkDir
<1> HIDE DEF files
<1> QED
  BY <1>1, <1>4, <1>5, LeavesKeeps

LEMMA CollectKeeps == ASSUME PrepInv, NEW p \in Preparations, Collect(p) PROVE PrepInv'
<1>1. /\ Running(p) /\ prep[p].at \in Local /\ UNCHANGED <<commits, payloads>>
      /\ WorkDir(work[Dir(p)]) /\ "clone" \in Local /\ PrepRecord(prep[p])
  BY DirIsDirectory DEF Collect, Running, Local, PrepInv, PrepTypes
<1>2. prep[p].options.slug \in Slugs
  BY <1>1 DEF PrepRecord, Local, Remote, Ended, Slugs
<1> DEFINE Files(dir) == [work[Dir(p)] EXCEPT !.artifacts[prep[p].options.slug] = dir]
<1>3. \E dir : \E done \in BOOLEAN :
          /\ Leaves(p, Files(dir), done, "clone")
          /\ done => dir.map = prep[p].map
  <2> DEFINE stored == work[Dir(p)].shards[prep[p].options.slug]
             old    == work[Dir(p)].artifacts[prep[p].options.slug]
  <2>1. PICK n : Leaves(p, Files([shards |-> Copied([k \in Lowest(n, DOMAIN stored) |-> stored[k]], old.shards),
                                  map    |-> IF n > Cardinality(DOMAIN stored) THEN prep[p].map ELSE old.map,
                                  full   |-> prep[p].model.build]),
                        n > Cardinality(DOMAIN stored), "clone")
    BY Zenon DEF Collect
  <2> DEFINE done == n > Cardinality(DOMAIN stored)
             dir  == [shards |-> Copied([k \in Lowest(n, DOMAIN stored) |-> stored[k]], old.shards),
                      map    |-> IF done THEN prep[p].map ELSE old.map,
                      full   |-> prep[p].model.build]
  <2>2. Leaves(p, Files(dir), done, "clone") /\ (done => dir.map = prep[p].map)
    BY <2>1
  <2> HIDE DEF done, dir, Files
  <2>3. CASE done
    <3>1. Leaves(p, Files(dir), TRUE, "clone")
      BY <2>2, <2>3 DEF Leaves
    <3> QED
      BY <2>2, <2>3, <3>1
  <2>4. CASE ~done
    <3>1. Leaves(p, Files(dir), FALSE, "clone")
      BY <2>2, <2>4 DEF Leaves
    <3> QED
      BY <3>1
  <2> QED
    BY <2>3, <2>4
<1>4. PICK dir : \E done \in BOOLEAN :
          /\ Leaves(p, Files(dir), done, "clone")
          /\ done => dir.map = prep[p].map
  BY <1>3
<1> DEFINE files == Files(dir)
<1>5. PICK done \in BOOLEAN : Leaves(p, files, done, "clone") /\ (done => dir.map = prep[p].map)
  BY <1>4
<1>6. WorkDir(files) /\ files.artifacts[prep[p].options.slug] = dir
  BY <1>1, <1>2 DEF WorkDir
<1> HIDE DEF files
<1> QED
  BY <1>1, <1>5, <1>6, LeavesKeeps

LEMMA ValidateKeeps == ASSUME PrepInv, NEW p \in Preparations, Validate(p) PROVE PrepInv'
<1>1. /\ Running(p) /\ prep[p].at \in Local /\ UNCHANGED <<commits, payloads>>
      /\ WorkDir(work[Dir(p)]) /\ "collect" \in Local /\ PrepRecord(prep[p])
      /\ DOMAIN work = Preparations \cup {Shared}
  BY DirIsDirectory DEF Validate, Running, Local, PrepInv, PrepTypes
<1>2. CASE Fail(p)
  BY <1>1, <1>2, FailKeeps
<1>3. CASE GoTo(p, "collect") /\ UNCHANGED work
  <2> DEFINE r == [prep[p] EXCEPT !.at = "collect"]
  <2>1. /\ prep[p].options \in Options
        /\ prep[p] = [at |-> prep[p].at, options |-> prep[p].options,
                      model |-> prep[p].model, map |-> prep[p].map]
    BY <1>1 DEF PrepRecord, Local, Remote, Ended
  <2>2. /\ prep' = [prep EXCEPT ![p] = r] /\ work' = work
        /\ r.at = "collect" /\ r.options = prep[p].options
        /\ r = [at |-> r.at, options |-> r.options, model |-> r.model, map |-> r.map]
    BY <1>3, <2>1 DEF GoTo
  <2> HIDE DEF r
  <2>3. PrepRecord(r)
    BY <1>1, <2>1, <2>2 DEF PrepRecord
  <2>4. Progressed(p)'
    BY <2>2 DEF Progressed, Remote, PrepInv, PrepTypes
  <2> QED
    BY <1>1, <2>2, <2>3, <2>4, LocalStep
<1> QED
  BY <1>2, <1>3 DEF Validate

------------------------------------------------------------------------------
LEMMA CloneKeeps == ASSUME PrepInv, NEW p \in Preparations, Clone(p) PROVE PrepInv'
<1>1. /\ Running(p) /\ prep[p].at \in Local /\ UNCHANGED <<commits, payloads, work>>
      /\ WorkDir(work[Dir(p)]) /\ PrepRecord(prep[p]) /\ DOMAIN work = Preparations \cup {Shared}
  BY DirIsDirectory DEF Clone, Running, Local, PrepInv, PrepTypes
<1>2. prep[p].options \in Options
  BY <1>1 DEF PrepRecord, Local, Remote, Ended
<1> DEFINE r == [at |-> IF prep[p].options.upload THEN "push" ELSE "print",
                 options |-> prep[p].options, map |-> prep[p].map, base |-> Len(commits)]
<1>3. /\ prep' = [prep EXCEPT ![p] = r]
      /\ r.at \in Remote /\ (r.at = "print" => ~prep[p].options.upload)
      /\ r.options = prep[p].options /\ r.map = prep[p].map /\ r.base = Len(commits)
      /\ r = [at |-> r.at, options |-> r.options, map |-> r.map, base |-> r.base]
  BY DEF Clone, Remote
<1> HIDE DEF r
<1>4. PrepRecord(r)
  BY <1>2, <1>3 DEF PrepRecord
<1>5. prep'[p] = r
  BY <1>3 DEF PrepInv, PrepTypes
<1>6. Len(commits) \in DOMAIN commits
  BY DEF PrepInv, CommitsAre
<1>7. work'[Dir(p)'].artifacts[prep[p].options.slug].map = prep[p].map
  <2>1. Dir(p)' = Dir(p)
    BY <1>3, <1>5 DEF Dir
  <2> QED
    BY <1>1, <2>1 DEF PrepInv, Progressed, Clone
<1>8. Progressed(p)'
  BY <1>1, <1>3, <1>5, <1>6, <1>7 DEF Progressed
<1> QED
  BY <1>1, <1>3, <1>4, <1>8, LocalStep

LEMMA PrintKeeps == ASSUME PrepInv, NEW p \in Preparations, PrintActivation(p) PROVE PrepInv'
<1>1. /\ Running(p) /\ End(p, "done") /\ "done" \in Ended /\ commits' = commits
      /\ prep[p].options.upload => InRepository(prep[p].options.slug, prep[p].map)
  BY DEF PrintActivation, Running, Ended, PrepInv, Progressed
<1> DEFINE r == [at |-> "done"]
<1>2. prep' = [prep EXCEPT ![p] = r] /\ r.at \in Ended
  BY <1>1 DEF End
<1>3. /\ DOMAIN work' = Preparations \cup {Shared} /\ WorkDir(work'[Dir(p)])
      /\ \A d \in Preparations \cup {Shared} : d # Dir(p) => work'[d] = work[d]
      /\ PrepRecord(r) /\ Progressed(p)'
  BY <1>1, EndWorks
<1> HIDE DEF r
<1>4. PayloadsWerePublished'
  BY <1>1 DEF PrintActivation, PrepInv, PayloadsWerePublished, InRepository
<1>5. PushKeepsOtherSlugs'
  BY <1>1 DEF PrepInv, PushKeepsOtherSlugs
<1>6. \E D : CommitsAre(D)'
  <2>1. PICK D : CommitsAre(D)
    BY DEF PrepInv
  <2> QED
    BY <1>1, <2>1 DEF CommitsAre
<1>7. \A i \in DOMAIN commits : i \in DOMAIN commits' /\ commits'[i] = commits[i]
  BY <1>1
<1> QED
  BY <1>1, <1>2, <1>3, <1>4, <1>5, <1>6, <1>7, StepKeeps

LEMMA DieKeeps == ASSUME PrepInv, NEW p \in Preparations, Die(p) PROVE PrepInv'
BY FailKeeps DEF Die

LEMMA RepublishKeeps == ASSUME PrepInv, NEW s \in Sources, Republish(s) PROVE PrepInv'
<1>1. work' = work /\ prep' = prep /\ commits' = commits /\ payloads' = payloads
  BY DEF Republish
<1>2. PICK D : CommitsAre(D)
  BY DEF PrepInv
<1>3. CommitsAre(D)'
  BY <1>1, <1>2 DEF CommitsAre
<1> QED
  BY <1>1, <1>3 DEF PrepInv, PrepTypes, OwnDirectories, Running, Dir, Progressed, InRepository,
                    PayloadsWerePublished, PushKeepsOtherSlugs

------------------------------------------------------------------------------
(* The commit puts the run's artifacts in place of one slug's directory.   *)
LEMMA CommitIsOfOneSlug ==
    ASSUME PrepInv, NEW p \in Preparations, prep[p].at = "push", NEW D, CommitsAre(D)
    PROVE  /\ prep[p].options.slug \in Slugs
           /\ prep[p].base \in DOMAIN commits
           /\ \A s \in Slugs : Committed(p)[s] =
                  IF s = prep[p].options.slug
                  THEN work[Dir(p)].artifacts[prep[p].options.slug]
                  ELSE commits[prep[p].base][s]
           /\ Committed(p)[prep[p].options.slug].map = prep[p].map
           /\ Committed(p) \in
                  [Slugs -> D \cup {work[Dir(p)].artifacts[prep[p].options.slug]}]
<1>1. PrepRecord(prep[p]) /\ Progressed(p)
  BY DEF PrepInv, PrepTypes
<1>2. prep[p].options.slug \in Slugs
  BY <1>1 DEF PrepRecord, Local, Remote, Ended, Slugs
<1>3. prep[p].base \in DOMAIN commits
  BY <1>1 DEF Progressed, Remote
<1>4. commits[prep[p].base] \in [Slugs -> D]
  BY <1>3 DEF CommitsAre
<1>5. work[Dir(p)].artifacts[prep[p].options.slug].map = prep[p].map
  BY <1>1 DEF Progressed
<1> QED
  BY <1>2, <1>3, <1>4, <1>5 DEF Committed

(* The run goes on to print, with its slug and map in the repository.      *)
LEMMA PrintsNext ==
    ASSUME PrepInv, NEW p \in Preparations, prep[p].at = "push", GoTo(p, "print"),
           prep[p].base \in DOMAIN commits',
           \E i \in DOMAIN commits' : commits'[i][prep[p].options.slug].map = prep[p].map,
           NEW r, r = [prep[p] EXCEPT !.at = "print"]
    PROVE  /\ PrepRecord(r) /\ r.at = "print" /\ r.options = prep[p].options
           /\ prep' = [prep EXCEPT ![p] = r] /\ Progressed(p)'
<1>1. PrepRecord(prep[p])
  BY DEF PrepInv, PrepTypes
<1>2. /\ prep[p].options \in Options
      /\ prep[p] = [at |-> prep[p].at, options |-> prep[p].options,
                    map |-> prep[p].map, base |-> prep[p].base]
  BY <1>1 DEF PrepRecord, Local, Remote, Ended
<1>3. /\ r.at = "print" /\ r.options = prep[p].options /\ r.map = prep[p].map /\ r.base = prep[p].base
      /\ r = [at |-> r.at, options |-> r.options, map |-> r.map, base |-> r.base]
  BY <1>2
<1>4. PrepRecord(r)
  BY <1>2, <1>3 DEF PrepRecord, Remote
<1>5. prep' = [prep EXCEPT ![p] = r]
  BY DEF GoTo
<1>6. prep'[p] = r
  BY <1>5 DEF PrepInv, PrepTypes
<1>7. Progressed(p)'
  BY <1>3, <1>6 DEF Progressed, InRepository
<1> QED
  BY <1>3, <1>4, <1>5, <1>7

LEMMA PushKeeps == ASSUME PrepInv, NEW p \in Preparations, Push(p) PROVE PrepInv'
<1>1. /\ Running(p) /\ prep[p].at = "push" /\ payloads' = payloads
      /\ WorkDir(work[Dir(p)]) /\ DOMAIN work = Preparations \cup {Shared}
  BY DirIsDirectory DEF Push, Running, PrepInv, PrepTypes
<1>2. PICK D : CommitsAre(D)
  BY DEF PrepInv
<1> DEFINE slug == prep[p].options.slug
           X    == work[Dir(p)].artifacts[slug]
           new  == Committed(p)
           r    == [prep[p] EXCEPT !.at = "print"]
<1>3. /\ slug \in Slugs /\ prep[p].base \in DOMAIN commits
      /\ \A s \in Slugs : new[s] = IF s = slug THEN X ELSE commits[prep[p].base][s]
      /\ new[slug].map = prep[p].map /\ new \in [Slugs -> D \cup {X}]
  BY <1>1, <1>2, CommitIsOfOneSlug
<1>4. CASE Fail(p) /\ UNCHANGED commits
  BY <1>1, <1>4, FailKeeps
<1>5. CASE new = commits[prep[p].base] /\ GoTo(p, "print") /\ UNCHANGED <<commits, work>>
  <2>1. /\ prep[p].base \in DOMAIN commits'
        /\ \E i \in DOMAIN commits' : commits'[i][slug].map = prep[p].map
    BY <1>3, <1>5
  <2>2. /\ PrepRecord(r) /\ r.at = "print" /\ r.options = prep[p].options
        /\ prep' = [prep EXCEPT ![p] = r] /\ Progressed(p)'
    BY <1>1, <1>5, <2>1, PrintsNext
  <2> HIDE DEF r
  <2> QED
    BY <1>1, <1>5, <2>2, LocalStep
<1>6. CASE /\ prep[p].base = Len(commits) /\ new # commits[prep[p].base]
           /\ commits' = Append(commits, new) /\ GoTo(p, "print") /\ UNCHANGED work
  <2> DEFINE L == Len(commits)
  <2> HIDE DEF new, X, slug
  <2>1. /\ L \in Nat \ {0} /\ DOMAIN commits = 1 .. L /\ DOMAIN commits' = 1 .. L + 1
        /\ Len(commits') = L + 1 /\ commits'[L + 1] = new
        /\ \A i \in 1 .. L : commits'[i] = commits[i]
    BY <1>2, <1>6 DEF CommitsAre
  <2>2. \E C : CommitsAre(C)'
    <3>1. PICK C : C = D \cup {X}
      OBVIOUS
    <3>2. commits \in Seq([Slugs -> C])
      BY <1>2, <2>1, <3>1 DEF CommitsAre
    <3>3. commits' \in Seq([Slugs -> C]) /\ commits' # <<>>
      BY <1>3, <1>6, <3>1, <3>2
    <3> QED
      BY <3>3 DEF CommitsAre
  <2>3. PushKeepsOtherSlugs'
    <3>1. new[slug] # commits[L][slug]
      <4>1. new \in [Slugs -> D \cup {X}] /\ commits[L] \in [Slugs -> D]
        BY <1>2, <1>3, <2>1 DEF CommitsAre
      <4> QED
        BY <1>3, <1>6, <4>1
    <3>2. {s \in Slugs : commits'[L + 1][s] # commits'[L][s]} = {slug}
      BY <1>3, <1>6, <2>1, <3>1
    <3>3. Cardinality({slug}) = 1
      BY FS_Singleton
    <3>4. \A i \in 1 .. L - 1 : i + 1 \in 1 .. L
      BY <2>1
    <3>5. \A i \in 1 .. L - 1 : Cardinality({s \in Slugs : commits'[i + 1][s] # commits'[i][s]}) = 1
      BY <2>1, <3>4 DEF PrepInv, PushKeepsOtherSlugs
    <3>6. \A i \in 1 .. L : i \in 1 .. L - 1 \/ i = L
      <4> HIDE DEF L
      <4> QED
        BY <2>1
    <3>7. \A i \in 1 .. L : Cardinality({s \in Slugs : commits'[i + 1][s] # commits'[i][s]}) = 1
      BY <3>2, <3>3, <3>5, <3>6
    <3>8. Len(commits') - 1 = L
      BY <2>1
    <3> QED
      BY <3>7, <3>8 DEF PushKeepsOtherSlugs
  <2>4. \A i \in DOMAIN commits : i \in DOMAIN commits' /\ commits'[i] = commits[i]
    BY <2>1
  <2>5. /\ prep[p].base \in DOMAIN commits'
        /\ \E i \in DOMAIN commits' : commits'[i][slug].map = prep[p].map
    BY <1>3, <1>6, <2>1
  <2>6. /\ PrepRecord(r) /\ r.at = "print" /\ r.options = prep[p].options
        /\ prep' = [prep EXCEPT ![p] = r] /\ Progressed(p)'
    BY <1>1, <1>6, <2>5, PrintsNext DEF slug
  <2>7. PayloadsWerePublished'
    BY <1>1, <2>4 DEF PrepInv, PayloadsWerePublished
  <2> HIDE DEF r, L
  <2>8. /\ DOMAIN work' = Preparations \cup {Shared} /\ WorkDir(work'[Dir(p)])
        /\ \A d \in Preparations \cup {Shared} : d # Dir(p) => work'[d] = work[d]
    BY <1>1, <1>6
  <2> QED
    BY <1>1, <2>3, <2>4, <2>6, <2>2, <2>7, <2>8, StepKeeps
<1> QED
  BY <1>4, <1>5, <1>6 DEF Push, Pushed

LEMMA PrepNext == PrepInv /\ [Next]_vars => PrepInv'
<1> SUFFICES ASSUME PrepInv, [Next]_vars PROVE PrepInv'
  OBVIOUS
<1>1. CASE UNCHANGED vars
  <2>1. PICK D : CommitsAre(D)
    BY DEF PrepInv
  <2>2. CommitsAre(D)'
    BY <1>1, <2>1 DEF vars, CommitsAre
  <2> QED
    BY <1>1, <2>2 DEF vars, PrepInv, PrepTypes, OwnDirectories, Running, Dir, Progressed,
                      InRepository, PayloadsWerePublished, PushKeepsOtherSlugs
<1>2. CASE Next
  BY <1>2, BeginKeeps, DownloadKeeps, ManifestsKeep, ShardsKeep, ValidateKeeps, CollectKeeps,
     CloneKeeps, PushKeeps, PrintKeeps, DieKeeps, RepublishKeeps DEF Next
<1> QED
  BY <1>1, <1>2

------------------------------------------------------------------------------
(* Whatever runs prepare and push at the same time, each commit differs    *)
(* from the one before in the directory of one slug: upload_artifacts      *)
(* overwrites nothing that another run has pushed since the clone.         *)
THEOREM PushesKeepOtherSlugs == Spec => []PushKeepsOtherSlugs
<1>1. PrepInv => PushKeepsOtherSlugs
  BY DEF PrepInv
<1> QED
  BY <1>1, PrepInit, PrepNext, PTL DEF Spec

(* A run that uploads prints an activation payload only when its stage map *)
(* has been in the artifact repository under the slug of the payload,      *)
(* whichever runs died or lost the race to push.                           *)
THEOREM PrintedPayloadsArePublished == Spec => []PayloadsWerePublished
<1>1. PrepInv => PayloadsWerePublished
  BY DEF PrepInv
<1> QED
  BY <1>1, PrepInit, PrepNext, PTL DEF Spec

------------------------------------------------------------------------------
(* The parts that the tools write, whatever map they come from             *)
IsPart(part) == \E S, k, layers : part = PartOf(S, k, layers)

(* A part is told from others by what validate_one_shard compares.         *)
LEMMA PartsCompare ==
    ASSUME NEW a, NEW b, IsPart(a), IsPart(b), a.stage_id = b.stage_id, Contents(a) = Contents(b)
    PROVE  a = b
<1>1. PICK S, j, l : a = PartOf(S, j, l)
  BY DEF IsPart
<1>2. PICK R, k, m : b = PartOf(R, k, m)
  BY DEF IsPart
<1>3. PICK e, h, f, g : e = (j = 1) /\ h = (j = S) /\ f = (k = 1) /\ g = (k = R)
  OBVIOUS
<1>4. /\ a = Part8(j, j, j, NextStage(S, j), e, l, h, h)
      /\ b = Part8(k, k, k, NextStage(R, k), f, m, g, g)
  BY <1>1, <1>2, <1>3 DEF PartOf
<1>5. j = k
  BY <1>4 DEF Part8
<1>6. << l, e, h, h, NextStage(S, j) >> = << m, f, g, g, NextStage(R, k) >>
  BY <1>4 DEF Part8, Contents
<1>7. l = m /\ e = f /\ h = g /\ NextStage(S, j) = NextStage(R, k)
  BY <1>6
<1> QED BY <1>4, <1>5, <1>7

------------------------------------------------------------------------------
(* A stage map of the preparations, as it is read                          *)
Part(m, k) == PartOf(m.stages, k, LayersOf(m.layers, m.stages, k))

LEMMA MapsAre ==
    ASSUME NEW m \in StageMaps
    PROVE  /\ m.layers \in Nat /\ m.stages \in Nat /\ m.stages # 0 /\ Splittable(m.layers, m.stages)
           /\ Read[m].partitions = PartsFor(GeneratedSplit(m.layers, m.stages))
           /\ Read[m].num_layers = m.layers /\ Read[m].first = 1
           /\ Ids(Read[m]) = 1 .. m.stages
           /\ Partitions(Read[m]) = {Part(m, k) : k \in 1 .. m.stages}
           /\ \A k \in 1 .. m.stages : PartitionOf(k, Read[m]) = Part(m, k)
<1>1. PICK o \in Options : m = StageMapOf(o.slug, Layers(o), o.stages) /\ Splittable(Layers(o), o.stages)
  BY DEF StageMaps
<1>2. m.slug = o.slug /\ m.layers = Layers(o) /\ m.stages = o.stages
  BY <1>1 DEF StageMapOf
<1>3. Layers(o) \in Int /\ o.stages \in Int
  BY PreparationAssumption DEF Layers
<1>4. m.layers \in Nat /\ m.stages \in Nat /\ m.stages # 0 /\ Splittable(m.layers, m.stages)
  BY <1>1, <1>2, <1>3 DEF Splittable
<1> DEFINE split == GeneratedSplit(m.layers, m.stages)
<1>5. /\ split \in Seq(Seq(Nat)) /\ Len(split) = m.stages
      /\ \A k \in 1 .. m.stages : split[k] = LayersOf(m.layers, m.stages, k)
  BY <1>4, GeneratedIsSplit
<1>6. Read[m] = ReadGateway(WrittenMap(m.slug, m.layers, split))
  BY DEF Read, GeneratedMap, GeneratedSplit
<1> HIDE DEF split
<1>7. /\ Read[m].partitions = PartsFor(split) /\ Read[m].num_layers = m.layers /\ Read[m].first = 1
      /\ Partitions(Read[m]) = {PartOf(Len(split), k, split[k]) : k \in 1 .. Len(split)}
      /\ Ids(Read[m]) = 1 .. Len(split)
      /\ \A k \in 1 .. Len(split) : PartitionOf(k, Read[m]) = PartOf(Len(split), k, split[k])
  BY <1>4, <1>5, <1>6, ReadOfWritten
<1>8. {PartOf(Len(split), k, split[k]) : k \in 1 .. Len(split)} = {Part(m, k) : k \in 1 .. m.stages}
  BY <1>5 DEF Part
<1> QED BY <1>4, <1>5, <1>7, <1>8 DEF Part, split

LEMMA PartHas ==
    ASSUME NEW m, NEW k
    PROVE  /\ Part(m, k).partition_id = k /\ Part(m, k).stage_id = k
           /\ Part(m, k).layers = LayersOf(m.layers, m.stages, k)
           /\ Part(m, k).embedding <=> k = 1
           /\ Part(m, k).norm <=> k = m.stages
           /\ Part(m, k).lm_head <=> k = m.stages
           /\ IsPart(Part(m, k))
BY PartOfHas DEF Part, IsPart

------------------------------------------------------------------------------
(* Tensors have different names, and go to one part.                       *)
LEMMA NamesDiffer ==
    /\ Embedding # Norm /\ Norm # LmHead /\ Embedding # LmHead
    /\ \A i : Embedding \notin Block(i) /\ Norm \notin Block(i) /\ LmHead \notin Block(i)
    /\ \A i, j : i # j => Block(i) \cap Block(j) = {}
BY DEF Embedding, Norm, LmHead, Tensor, Block

LEMMA MatchesAre ==
    ASSUME NEW m, NEW k, NEW t
    PROVE  Matches(t, Part(m, k)) <=>
               \/ t = Embedding /\ k = 1
               \/ t \in {Norm, LmHead} /\ k = m.stages
               \/ \E i \in ToSet(LayersOf(m.layers, m.stages, k)) : t \in Block(i)
BY PartHas DEF Matches, RequiredNames, RequiredLayers, HasPrefix

LEMMA OnePartEach ==
    ASSUME NEW m \in StageMaps, NEW j \in 1 .. m.stages, NEW k \in 1 .. m.stages, j # k, NEW t,
           Matches(t, Part(m, j)), Matches(t, Part(m, k))
    PROVE  FALSE
<1>1. /\ m.layers \in Nat /\ m.stages \in Nat /\ Splittable(m.layers, m.stages)
  BY MapsAre
<1>2. ToSet(LayersOf(m.layers, m.stages, j)) \cap ToSet(LayersOf(m.layers, m.stages, k)) = {}
  BY <1>1, RangesAreDisjoint
<1> QED BY <1>2, MatchesAre, NamesDiffer

(* A model that has all that the parts of a map require                    *)
LEMMA ModelCovers ==
    ASSUME NEW m \in StageMaps, NEW model, ~ManifestRefused(Read[m], model),
           NEW t, t \in {Embedding, Norm, LmHead} \cup UNION {Block(i) : i \in 0 .. m.layers - 1}
    PROVE  t \in TensorsOf(model) /\ \E k \in 1 .. m.stages : Matches(t, Part(m, k))
<1>1. /\ m.layers \in Nat /\ m.stages \in Nat /\ m.stages # 0 /\ Splittable(m.layers, m.stages)
      /\ Partitions(Read[m]) = {Part(m, k) : k \in 1 .. m.stages}
  BY MapsAre
<1>2. \A k \in 1 .. m.stages : ~Missing(TensorsOf(model), Part(m, k))
  BY <1>1 DEF ManifestRefused
<1>3. CASE t = Embedding
  <2>1. 1 \in 1 .. m.stages
    BY <1>1
  <2>2. RequiredNames(Part(m, 1)) \subseteq TensorsOf(model) /\ Embedding \in RequiredNames(Part(m, 1))
    BY <1>2, <2>1, PartHas DEF Missing, RequiredNames
  <2> QED BY <1>3, <2>1, <2>2, MatchesAre
<1>4. CASE t \in {Norm, LmHead}
  <2>1. m.stages \in 1 .. m.stages
    BY <1>1
  <2>2. RequiredNames(Part(m, m.stages)) \subseteq TensorsOf(model) /\ t \in RequiredNames(Part(m, m.stages))
    BY <1>2, <1>4, <2>1, PartHas DEF Missing, RequiredNames
  <2> QED BY <1>4, <2>1, <2>2, MatchesAre
<1>5. CASE t \in UNION {Block(i) : i \in 0 .. m.layers - 1}
  <2>1. PICK i \in 0 .. m.layers - 1 : t \in Block(i)
    BY <1>5
  <2>2. PICK k \in 1 .. m.stages : i \in ToSet(LayersOf(m.layers, m.stages, k))
    BY <1>1, EveryLayerIsAssigned
  <2>3. i \in RequiredLayers(Part(m, k))
    BY <2>2, PartHas DEF RequiredLayers
  <2>4. PICK u \in TensorsOf(model) : u \in Block(i)
    BY <1>2, <2>3 DEF Missing, HasPrefix
  <2>5. i \in 0 .. model.blocks - 1
    <3>1. \/ \E x \in 0 .. model.blocks - 1 : u \in Block(x)
          \/ u \in {Embedding, Norm, Tensor("rope_freqs.weight", None), LmHead}
      BY <2>4 DEF TensorsOf
    <3>2. Tensor("rope_freqs.weight", None) \notin Block(i)
      BY DEF Tensor, Block
    <3> QED BY <2>4, <3>1, <3>2, NamesDiffer
  <2>6. t \in TensorsOf(model)
    BY <2>1, <2>5 DEF TensorsOf
  <2> QED BY <2>1, <2>2, <2>6, MatchesAre
<1> QED BY <1>3, <1>4, <1>5

(* What PublishedIsWhole and PublishedIsOneBuild say of one directory      *)
Whole(directory) ==
    LET read == Read[directory.map]
    IN  /\ DOMAIN directory.shards = Ids(read)
        /\ \A k \in Ids(read) : directory.shards[k].part = PartitionOf(k, read)
        /\ Partitioned(directory)

OneBuild(directory) == \A shard \in ShardsOf(directory) : shard.data = directory.full

LEMMA WholeWhenValid ==
    ASSUME NEW directory, directory.map \in StageMaps, NEW model,
           ~ManifestRefused(Read[directory.map], model),
           DOMAIN directory.shards = Ids(Read[directory.map]),
           \A k \in Ids(Read[directory.map]) :
               /\ directory.shards[k].part = PartitionOf(k, Read[directory.map])
               /\ directory.shards[k].tensors =
                      Assigned(TensorsOf(model), PartitionOf(k, Read[directory.map]))
    PROVE  Whole(directory)
<1> DEFINE m == directory.map
           s == directory.shards
<1>1. Ids(Read[m]) = 1 .. m.stages /\ \A k \in 1 .. m.stages : PartitionOf(k, Read[m]) = Part(m, k)
  BY MapsAre
<1>2. \A k \in 1 .. m.stages : s[k].tensors = {t \in TensorsOf(model) : Matches(t, Part(m, k))}
  BY <1>1 DEF Assigned
<1>3. ShardsOf(directory) = {s[k] : k \in 1 .. m.stages}
  BY <1>1 DEF ShardsOf
<1> HIDE DEF m, s
<1>4. m \in StageMaps /\ ~ManifestRefused(Read[m], model)
  BY DEF m
<1>5. ASSUME NEW a \in ShardsOf(directory), NEW b \in ShardsOf(directory), a # b
      PROVE  a.tensors \cap b.tensors = {}
  <2>1. PICK j \in 1 .. m.stages : a = s[j]
    BY <1>3
  <2>2. PICK k \in 1 .. m.stages : b = s[k]
    BY <1>3
  <2>3. j # k
    BY <1>5, <2>1, <2>2
  <2>4. \A t \in a.tensors : Matches(t, Part(m, j))
    BY <1>2, <2>1
  <2>5. \A t \in b.tensors : Matches(t, Part(m, k))
    BY <1>2, <2>2
  <2>6. ASSUME NEW t, t \in a.tensors, t \in b.tensors PROVE FALSE
    <3>1. Matches(t, Part(m, j)) /\ Matches(t, Part(m, k))
      BY <2>4, <2>5, <2>6
    <3> QED BY <1>4, <2>3, <3>1, OnePartEach
  <2> QED BY <2>6
<1>6. ASSUME NEW t \in {Embedding, Norm, LmHead} \cup UNION {Block(i) : i \in 0 .. m.layers - 1}
      PROVE  t \in UNION {shard.tensors : shard \in ShardsOf(directory)}
  <2>1. t \in TensorsOf(model) /\ \E k \in 1 .. m.stages : Matches(t, Part(m, k))
    BY <1>4, <1>6, ModelCovers
  <2>2. PICK k \in 1 .. m.stages : t \in s[k].tensors
    BY <1>2, <2>1
  <2> QED BY <1>3, <2>2
<1>7. Partitioned(directory)
  BY <1>5, <1>6 DEF Partitioned, m
<1> QED BY <1>7 DEF Whole

------------------------------------------------------------------------------
(* What lies in a work directory, whichever runs have left it there        *)
IsShard(x) ==
    x = [part |-> x.part, tensors |-> x.tensors, data |-> x.data] /\ IsPart(x.part)

WorkSound(w) ==
    /\ IsFiniteSet(DOMAIN w.manifests) /\ DOMAIN w.manifests \subseteq Nat
    /\ \A k \in DOMAIN w.manifests : IsPart(w.manifests[k].part)
    /\ DOMAIN w.shards = Slugs
    /\ \A s \in Slugs :
           /\ DOMAIN w.shards[s] \subseteq DOMAIN w.manifests
           /\ \A k \in DOMAIN w.shards[s] : IsShard(w.shards[s][k])
           /\ DOMAIN w.artifacts[s].shards \subseteq DOMAIN w.shards[s]

(* The manifests of a map, made from this model                            *)
Listed(manifests, m, model) ==
    /\ ~ManifestRefused(Read[m], model)
    /\ \A k \in 1 .. m.stages :
           k \in DOMAIN manifests /\ manifests[k] = Manifest(Part(m, k), model)

Stamped(stored, build) == \A k \in DOMAIN stored : stored[k].data = build

(* A directory that may be pushed; bad is badWrites                        *)
Good(directory, bad) ==
    directory.map \in StageMaps /\ Whole(directory) /\ (bad = 0 => OneBuild(directory))

(* What a run has achieved, in a record of prep and its work directory     *)
RunSound(r, w, bad) ==
    /\ r.at \in Local \cup Remote => r.map \in StageMaps
    /\ r.at \in {"shards", "validate", "collect"} => Listed(w.manifests, r.map, r.model)
    /\ r.at \in {"validate", "collect"} /\ bad = 0 =>
           Stamped(w.shards[r.options.slug], r.model.build)
    /\ r.at = "collect" => Validated(Read[r.map], w.manifests, w.shards[r.options.slug])
    /\ r.at \in {"clone", "push"} => Good(w.artifacts[r.options.slug], bad)

CommitsSound ==
    \A i \in DOMAIN commits : \A s \in Slugs :
        commits[i][s] = NoDirectory \/ Good(commits[i][s], badWrites)

PayloadsSound == \A payload \in payloads : payload.map \in StageMaps

Sound ==
    /\ badWrites \in Nat
    /\ \A d \in Preparations \cup {Shared} : WorkSound(work[d])
    /\ \A p \in Preparations : RunSound(prep[p], work[Dir(p)], badWrites)
    /\ CommitsSound
    /\ PayloadsSound

LEMMA EmptyIsSound == WorkSound(EmptyWork)
<1> DEFINE none == <<>>
<1>1. DOMAIN none = {}
  OBVIOUS
<1>2. /\ EmptyWork.manifests = none /\ EmptyWork.shards = [s \in Slugs |-> none]
      /\ \A s \in Slugs : EmptyWork.artifacts[s].shards = none
  BY DEF EmptyWork, NoFiles, NoDirectory
<1>3. IsFiniteSet({})
  BY FS_EmptySet
<1> HIDE DEF none
<1> QED BY <1>1, <1>2, <1>3 DEF WorkSound

LEMMA EndedIsSound ==
    ASSUME NEW r, r.at \in Ended, NEW w, NEW bad PROVE RunSound(r, w, bad)
BY DEF RunSound, Ended, Local, Remote

LEMMA SoundInit == Init => Sound
<1> SUFFICES ASSUME Init PROVE Sound
  OBVIOUS
<1>1. badWrites \in Nat /\ payloads = {} /\ \A p \in Preparations : prep[p].at = "idle"
  BY DEF Init, Idle
<1>2. \A d \in Preparations \cup {Shared} : work[d] = EmptyWork
  BY DEF Init
<1>3. \A i \in DOMAIN commits : \A s \in Slugs : commits[i][s] = NoDirectory
  BY DEF Init
<1>4. \A p \in Preparations : RunSound(prep[p], work[Dir(p)], badWrites)
  BY <1>1, EndedIsSound DEF Ended
<1> QED BY <1>1, <1>2, <1>3, <1>4, EmptyIsSound DEF Sound, CommitsSound, PayloadsSound

(* Once a write has failed, OneBuild is not claimed any more.              *)
LEMMA GoodLater ==
    ASSUME NEW bad, NEW bad2, bad2 = 0 => bad = 0
    PROVE  /\ \A directory : Good(directory, bad) => Good(directory, bad2)
           /\ \A r, w : RunSound(r, w, bad) => RunSound(r, w, bad2)
BY DEF Good, RunSound

(* A step of a run under way changes its own record and directory. What is *)
(* left to show is what becomes of these, and of commits and payloads.     *)
LEMMA SoundStep ==
    ASSUME PrepInv, PrepInv', Sound, NEW q \in Preparations, Running(q), NEW r,
           prep' = [prep EXCEPT ![q] = r], r.at \notin Ended => r.options = prep[q].options,
           \A d \in Preparations \cup {Shared} : d # Dir(q) => work'[d] = work[d],
           WorkSound(work'[Dir(q)]),
           r.at \notin Ended => RunSound(r, work'[Dir(q)], badWrites'),
           badWrites' \in Nat, badWrites' = 0 => badWrites = 0,
           CommitsSound', PayloadsSound'
    PROVE  Sound'
<1>1. prep'[q] = r /\ \A p \in Preparations \ {q} : prep'[p] = prep[p]
  BY DEF PrepInv, PrepTypes
<1>2. \A d \in Preparations \cup {Shared} : WorkSound(work'[d])
  BY DEF Sound
<1>3. \A p \in Preparations \ {q} : Dir(p)' = Dir(p)
  BY <1>1 DEF Dir
<1>4. ASSUME NEW p \in Preparations PROVE RunSound(prep'[p], work'[Dir(p)'], badWrites')
  <2>1. CASE prep'[p].at \in Ended
    BY <2>1, EndedIsSound
  <2>2. CASE p # q /\ prep'[p].at \notin Ended
    <3>1. Running(p)
      BY <1>1, <2>2 DEF Running, Ended
    <3>2. Dir(p) # Dir(q) /\ Dir(p) \in Preparations \cup {Shared}
      BY <2>2, <3>1, DirIsDirectory DEF PrepInv, OwnDirectories
    <3>3. work'[Dir(p)'] = work[Dir(p)] /\ prep'[p] = prep[p]
      BY <1>1, <1>3, <2>2, <3>2
    <3>4. RunSound(prep[p], work[Dir(p)], badWrites)
      BY DEF Sound
    <3> QED BY <3>3, <3>4, GoodLater
  <2>3. CASE p = q /\ prep'[p].at \notin Ended
    <3>1. Dir(p)' = Dir(q)
      BY <1>1, <2>3 DEF Dir
    <3> QED BY <1>1, <2>3, <3>1
  <2> QED BY <2>1, <2>2, <2>3
<1> QED BY <1>2, <1>4 DEF Sound

LEMMA SoundCommits ==
    ASSUME Sound, UNCHANGED commits, badWrites' = 0 => badWrites = 0
    PROVE  CommitsSound'
BY GoodLater DEF Sound, CommitsSound

LEMMA SoundPayloads == ASSUME Sound, UNCHANGED payloads PROVE PayloadsSound'
BY DEF Sound, PayloadsSound

------------------------------------------------------------------------------
(* A run that ends                                                         *)
LEMMA SoundEnd ==
    ASSUME PrepInv, PrepInv', Sound, NEW q \in Preparations, Running(q), NEW at \in Ended, End(q, at),
           UNCHANGED <<commits, badWrites>>, PayloadsSound'
    PROVE  Sound'
<1> DEFINE r == [at |-> at]
<1>1. prep' = [prep EXCEPT ![q] = r] /\ r.at \in Ended
  BY DEF End
<1>2. Dir(q) \in Preparations \cup {Shared} /\ DOMAIN work = Preparations \cup {Shared}
  BY DirIsDirectory DEF PrepInv, PrepTypes
<1>3. /\ work'[Dir(q)] \in {work[Dir(q)], EmptyWork}
      /\ \A d \in Preparations \cup {Shared} : d # Dir(q) => work'[d] = work[d]
  BY <1>2 DEF End, Dir
<1>4. WorkSound(work'[Dir(q)])
  BY <1>2, <1>3, EmptyIsSound DEF Sound
<1>5. CommitsSound' /\ badWrites' \in Nat /\ (badWrites' = 0 => badWrites = 0)
  BY SoundCommits DEF Sound
<1> HIDE DEF r
<1> QED BY <1>1, <1>3, <1>4, <1>5, SoundStep

LEMMA SoundFail ==
    ASSUME PrepInv, PrepInv', Sound, NEW q \in Preparations, Running(q), Fail(q),
           UNCHANGED <<commits, payloads, badWrites>>
    PROVE  Sound'
<1>1. End(q, "failed") /\ "failed" \in Ended
  BY DEF Fail, Ended
<1> QED BY <1>1, SoundEnd, SoundPayloads

(* A step of Leaves                                                        *)
LEMMA SoundLeaves ==
    ASSUME PrepInv, PrepInv', Sound, NEW q \in Preparations, prep[q].at \in Local,
           NEW files, WorkSound(files), NEW done \in BOOLEAN, NEW at \in Local,
           Leaves(q, files, done, at), NEW r, r = [prep[q] EXCEPT !.at = at],
           done => RunSound(r, files, badWrites'),
           UNCHANGED <<commits, payloads>>, badWrites' \in Nat, badWrites' = 0 => badWrites = 0
    PROVE  Sound'
<1>1. Running(q) /\ Dir(q) \in Preparations \cup {Shared} /\ DOMAIN work = Preparations \cup {Shared}
  BY DirIsDirectory DEF Running, Local, PrepInv, PrepTypes
<1>2. CommitsSound' /\ PayloadsSound'
  BY SoundCommits, SoundPayloads
<1>3. CASE done
  <2>1. prep' = [prep EXCEPT ![q] = r] /\ work' = [work EXCEPT ![Dir(q)] = files]
    BY <1>3 DEF Leaves, GoTo
  <2>2. PrepRecord(prep[q])
    BY DEF PrepInv, PrepTypes
  <2>3. r.at = at /\ r.options = prep[q].options
    BY <2>2 DEF PrepRecord, Local, Remote, Ended
  <2>4. /\ work'[Dir(q)] = files
        /\ \A d \in Preparations \cup {Shared} : d # Dir(q) => work'[d] = work[d]
    BY <1>1, <2>1
  <2> QED BY <1>1, <1>2, <1>3, <2>1, <2>3, <2>4, SoundStep
<1>4. CASE ~done
  <2> DEFINE s == [at |-> "failed"]
  <2>1. /\ prep' = [prep EXCEPT ![q] = s] /\ s.at \in Ended
        /\ work' = [work EXCEPT ![Dir(q)] = IF prep[q].options.own THEN EmptyWork ELSE files]
    BY <1>4 DEF Leaves, Ended
  <2>2. /\ work'[Dir(q)] \in {EmptyWork, files}
        /\ \A d \in Preparations \cup {Shared} : d # Dir(q) => work'[d] = work[d]
    BY <1>1, <2>1
  <2>3. WorkSound(work'[Dir(q)])
    BY <2>2, EmptyIsSound
  <2> HIDE DEF s
  <2> QED BY <1>1, <1>2, <2>1, <2>2, <2>3, SoundStep
<1> QED BY <1>3, <1>4

------------------------------------------------------------------------------
(* A loop over a listing that has come to its end has come to all files.   *)
LEMMA LowestAre ==
    ASSUME NEW ids, ids \subseteq Nat, IsFiniteSet(ids)
    PROVE  /\ \A n : Lowest(n, ids) \subseteq ids
           /\ Cardinality(ids) \in Nat
           /\ \A n \in Nat : Cardinality(ids) <= n => Lowest(n, ids) = ids
<1>1. Cardinality(ids) \in Nat
  BY FS_CardinalityType
<1>2. ASSUME NEW k \in ids PROVE Cardinality({i \in ids : i < k}) < Cardinality(ids)
  <2> DEFINE below == {i \in ids : i < k}
  <2>1. below \subseteq ids /\ k \notin below
    OBVIOUS
  <2> HIDE DEF below
  <2>2. below # ids
    BY <2>1
  <2>3. IsFiniteSet(below) /\ Cardinality(below) <= Cardinality(ids)
    BY <2>1, FS_Subset
  <2>4. Cardinality(below) # Cardinality(ids)
    BY <2>1, <2>2, FS_Subset
  <2>5. Cardinality(below) \in Nat
    BY <2>3, FS_CardinalityType
  <2> QED BY <1>1, <2>3, <2>4, <2>5 DEF below
<1>3. ASSUME NEW k \in ids PROVE Cardinality({i \in ids : i < k}) \in Nat
  <2>1. IsFiniteSet({i \in ids : i < k})
    BY FS_Subset
  <2> QED BY <2>1, FS_CardinalityType
<1>4. ASSUME NEW n \in Nat, Cardinality(ids) <= n PROVE Lowest(n, ids) = ids
  <2>1. \A k \in ids : Cardinality({i \in ids : i < k}) < n
    <3>1. ASSUME NEW a \in Nat, NEW b \in Nat, a < b, b <= n PROVE a < n
      BY <3>1
    <3> QED BY <1>1, <1>2, <1>3, <1>4, <3>1
  <2> QED BY <2>1 DEF Lowest
<1> QED BY <1>1, <1>4 DEF Lowest

------------------------------------------------------------------------------
LEMMA BeginSound == ASSUME PrepInv, Sound, NEW p \in Preparations, Begin(p) PROVE Sound'
<1>1. PICK o \in Options : prep' = [prep EXCEPT ![p] = [at |-> "download", options |-> o]]
  BY DEF Begin
<1>2. /\ prep'[p] = [at |-> "download", options |-> o]
      /\ \A q \in Preparations \ {p} : prep'[q] = prep[q]
      /\ work' = work /\ commits' = commits /\ payloads' = payloads /\ badWrites' = badWrites
  BY <1>1 DEF Begin, PrepInv, PrepTypes
<1>3. \A q \in Preparations \ {p} : RunSound(prep'[q], work'[Dir(q)'], badWrites')
  BY <1>2 DEF Sound, Dir
<1>4. RunSound(prep'[p], work'[Dir(p)'], badWrites')
  <2>1. prep'[p].at = "download"
    BY <1>2
  <2> QED BY <2>1 DEF RunSound, Local, Remote
<1> QED BY <1>2, <1>3, <1>4 DEF Sound, CommitsSound, PayloadsSound

LEMMA DownloadSound ==
    ASSUME PrepInv, PrepInv', Sound, NEW p \in Preparations, Download(p) PROVE Sound'
<1>1. /\ Running(p) /\ prep[p].options \in Options /\ UNCHANGED <<commits, payloads, badWrites>>
      /\ Dir(p) \in Preparations \cup {Shared}
  BY DirIsDirectory DEF Download, Running, PrepInv, PrepTypes, PrepRecord, Ended, Local, Remote
<1>2. CASE Fail(p)
  BY <1>1, <1>2, SoundFail
<1>3. CASE ~Fail(p)
  <2> DEFINE o == prep[p].options
             m == StageMapOf(o.slug, Layers(o), o.stages)
  <2>1. PICK model : /\ Splittable(Layers(o), o.stages)
                     /\ prep' = [prep EXCEPT ![p] = [at |-> "manifests", options |-> o, model |-> model,
                                                     map |-> m]]
                     /\ UNCHANGED work
    BY <1>3 DEF Download
  <2>2. m \in StageMaps
    BY <1>1, <2>1 DEF StageMaps
  <2> DEFINE r == [at |-> "manifests", options |-> o, model |-> model, map |-> m]
  <2>3. r.at = "manifests" /\ r.options = prep[p].options /\ r.map \in StageMaps
    BY <2>2
  <2>4. prep' = [prep EXCEPT ![p] = r] /\ UNCHANGED work
    BY <2>1
  <2> HIDE DEF r, m, o
  <2>5. RunSound(r, work'[Dir(p)], badWrites')
    BY <2>3 DEF RunSound
  <2>6. CommitsSound' /\ PayloadsSound' /\ badWrites' \in Nat /\ WorkSound(work'[Dir(p)])
    BY <1>1, <2>4, SoundCommits, SoundPayloads DEF Sound
  <2> QED BY <1>1, <2>3, <2>4, <2>5, <2>6, SoundStep
<1> QED BY <1>2, <1>3

(* What a run under way has to show for itself                             *)
LEMMA RunHas ==
    ASSUME PrepInv, Sound, NEW p \in Preparations, prep[p].at \in Local
    PROVE  /\ Running(p) /\ prep[p].options.slug \in Slugs /\ prep[p].map \in StageMaps
           /\ prep[p] = [at |-> prep[p].at, options |-> prep[p].options,
                         model |-> prep[p].model, map |-> prep[p].map]
           /\ Dir(p) \in Preparations \cup {Shared} /\ WorkSound(work[Dir(p)])
           /\ RunSound(prep[p], work[Dir(p)], badWrites) /\ WorkDir(work[Dir(p)])
           /\ badWrites \in Nat
<1>1. PrepRecord(prep[p]) /\ Dir(p) \in Preparations \cup {Shared} /\ Running(p)
  BY DirIsDirectory DEF PrepInv, PrepTypes, Running, Local
<1>2. /\ prep[p].options \in Options
      /\ prep[p] = [at |-> prep[p].at, options |-> prep[p].options,
                    model |-> prep[p].model, map |-> prep[p].map]
  BY <1>1 DEF PrepRecord, Local, Remote, Ended
<1>3. prep[p].options.slug \in Slugs
  BY <1>2 DEF Slugs
<1>4. RunSound(prep[p], work[Dir(p)], badWrites) /\ WorkSound(work[Dir(p)]) /\ badWrites \in Nat
  BY <1>1 DEF Sound
<1>5. WorkDir(work[Dir(p)])
  BY <1>1 DEF PrepInv, PrepTypes
<1> QED BY <1>1, <1>2, <1>3, <1>4, <1>5 DEF RunSound

(* Manifests of a map, over those that are there                           *)
LEMMA ManifestFiles ==
    ASSUME NEW w, WorkSound(w), NEW m \in StageMaps, NEW model, ~ManifestRefused(Read[m], model),
           NEW ks, ks \subseteq 1 .. m.stages, NEW new, DOMAIN new = ks,
           \A k \in ks : new[k] = Manifest(Part(m, k), model),
           NEW files, files.manifests = Written(new, w.manifests),
           files.shards = w.shards, files.artifacts = w.artifacts
    PROVE  WorkSound(files) /\ (ks = 1 .. m.stages => Listed(files.manifests, m, model))
<1> DEFINE there == w.manifests
           all   == files.manifests
<1>1. /\ DOMAIN all = ks \cup DOMAIN there
      /\ \A k \in ks : all[k] = Manifest(Part(m, k), model)
      /\ \A k \in DOMAIN there : k \notin ks => all[k] = there[k]
  <2>1. all = Written(new, there) /\ DOMAIN new = ks
    OBVIOUS
  <2> HIDE DEF all, there
  <2>2. /\ DOMAIN all = DOMAIN new \cup DOMAIN there
        /\ \A k \in DOMAIN new : all[k] = new[k]
        /\ \A k \in DOMAIN there : k \notin DOMAIN new => all[k] = there[k]
    BY <2>1 DEF Written
  <2> QED BY <2>1, <2>2, Zenon
<1>2. m.stages \in Nat
  BY MapsAre
<1>3. /\ IsFiniteSet(DOMAIN there) /\ DOMAIN there \subseteq Nat
      /\ \A k \in DOMAIN there : IsPart(there[k].part)
  BY DEF WorkSound
<1> HIDE DEF there, all
<1>4. IsFiniteSet(ks) /\ ks \subseteq Nat
  <2>1. IsFiniteSet(1 .. m.stages) /\ 1 .. m.stages \subseteq Nat
    BY <1>2, FS_Interval
  <2> QED BY <2>1, FS_Subset
<1>5. IsFiniteSet(DOMAIN all) /\ DOMAIN all \subseteq Nat
  BY <1>1, <1>3, <1>4, FS_Union
<1>6. ASSUME NEW k \in DOMAIN all PROVE IsPart(all[k].part)
  <2>1. CASE k \in ks
    <3>1. all[k] = Manifest(Part(m, k), model)
      BY <1>1, <2>1, Zenon
    <3>2. Manifest(Part(m, k), model).part = Part(m, k)
      BY DEF Manifest
    <3>3. IsPart(Part(m, k))
      BY PartHas
    <3> QED BY <3>1, <3>2, <3>3, Zenon
  <2>2. CASE k \notin ks
    BY <1>1, <1>3, <2>2
  <2> QED BY <2>1, <2>2
<1>7. WorkSound(files)
  BY <1>1, <1>5, <1>6 DEF WorkSound, all, there
<1>8. ks = 1 .. m.stages => Listed(all, m, model)
  BY <1>1 DEF Listed
<1> QED BY <1>7, <1>8 DEF all

LEMMA ManifestsSound ==
    ASSUME PrepInv, PrepInv', Sound, NEW p \in Preparations, WriteManifests(p) PROVE Sound'
<1>1. prep[p].at = "manifests" /\ prep[p].at \in Local /\ UNCHANGED <<commits, payloads, badWrites>>
  BY DEF WriteManifests, Local
<1>2. CASE Fail(p)
  BY <1>1, <1>2, RunHas, SoundFail
<1>3. CASE ~Fail(p)
  <2>1. PICK m, model, w : m = prep[p].map /\ model = prep[p].model /\ w = work[Dir(p)]
    OBVIOUS
  <2>2. /\ m \in StageMaps /\ WorkSound(w) /\ WorkDir(w) /\ badWrites \in Nat /\ Running(p)
        /\ prep[p] = [at |-> prep[p].at, options |-> prep[p].options, model |-> model, map |-> m]
    BY <1>1, <2>1, RunHas
  <2>3. PICK new : new = Manifests(Read[m], model)
    OBVIOUS
  <2>4. PICK n \in 0 .. Cardinality(DOMAIN new) :
            Leaves(p, [w EXCEPT !.manifests = Written([k \in Lowest(n, DOMAIN new) |-> new[k]], @)],
                   n = Cardinality(DOMAIN new), "shards")
    BY <1>3, <2>1, <2>3 DEF WriteManifests
  <2>5. ~ManifestRefused(Read[m], model)
    BY <1>3, <2>1 DEF WriteManifests
  <2>6. /\ DOMAIN new = 1 .. m.stages /\ m.stages \in Nat
        /\ \A k \in 1 .. m.stages : new[k] = Manifest(Part(m, k), model)
    BY <2>2, <2>3, MapsAre DEF Manifests
  <2>7. DOMAIN new \subseteq Nat /\ IsFiniteSet(DOMAIN new)
    BY <2>6, FS_Interval
  <2>8. PICK ks : ks = Lowest(n, DOMAIN new)
    OBVIOUS
  <2>9. ks \subseteq 1 .. m.stages /\ (n = Cardinality(DOMAIN new) => ks = 1 .. m.stages)
    <3>1. Cardinality(DOMAIN new) \in Nat
      BY <2>7, LowestAre
    <3>2. n \in Nat /\ (n = Cardinality(DOMAIN new) => Cardinality(DOMAIN new) <= n)
      BY <3>1
    <3> QED BY <2>6, <2>7, <2>8, <3>2, LowestAre
  <2>10. PICK some : some = [k \in ks |-> new[k]]
    OBVIOUS
  <2>11. DOMAIN some = ks /\ \A k \in ks : some[k] = Manifest(Part(m, k), model)
    BY <2>6, <2>9, <2>10
  <2>12. PICK files : files = [w EXCEPT !.manifests = Written(some, @)]
    OBVIOUS
  <2>13. /\ files.manifests = Written(some, w.manifests)
         /\ files.shards = w.shards /\ files.artifacts = w.artifacts
    BY <2>2, <2>12 DEF WorkDir
  <2>14. WorkSound(files) /\ (ks = 1 .. m.stages => Listed(files.manifests, m, model))
    BY <2>2, <2>5, <2>9, <2>11, <2>13, ManifestFiles
  <2>15. PICK done \in BOOLEAN : done = (n = Cardinality(DOMAIN new))
    OBVIOUS
  <2>16. Leaves(p, files, done, "shards") /\ "shards" \in Local
    BY <2>4, <2>8, <2>10, <2>12, <2>15 DEF Local
  <2>17. PICK r : r = [prep[p] EXCEPT !.at = "shards"]
    OBVIOUS
  <2>18. r.at = "shards" /\ r.map = m /\ r.model = model
    BY <2>2, <2>17
  <2>19. done => RunSound(r, files, badWrites')
    BY <2>2, <2>9, <2>14, <2>15, <2>18 DEF RunSound
  <2>20. badWrites' \in Nat /\ (badWrites' = 0 => badWrites = 0)
    BY <1>1, <2>2
  <2> QED BY <1>1, <2>14, <2>16, <2>17, <2>19, <2>20, SoundLeaves
<1> QED BY <1>2, <1>3

LEMMA ShardIs ==
    ASSUME NEW manifest, NEW model, IsPart(manifest.part)
    PROVE  /\ IsShard(Shard(manifest, model)) /\ Shard(manifest, model).data = model.build
           /\ Shard(manifest, model).part = manifest.part
           /\ Shard(manifest, model).tensors = manifest.tensors
BY DEF IsShard, Shard

LEMMA CutIs == ASSUME NEW x, IsShard(x) PROVE IsShard(Cut(x))
<1>1. PICK part, tensors, data : x = [part |-> part, tensors |-> tensors, data |-> data] /\ IsPart(part)
  BY DEF IsShard
<1>2. Cut(x) = [part |-> part, tensors |-> tensors, data |-> None]
  BY <1>1 DEF Cut
<1> QED BY <1>1, <1>2 DEF IsShard

(* What is there after some files were not written                         *)
LEMMA NotWrittenAre ==
    ASSUME NEW old, NEW new, NEW left \in NotWritten(old, new),
           \A k \in DOMAIN old : IsShard(old[k]), \A k \in DOMAIN new : IsShard(new[k])
    PROVE  /\ DOMAIN old \subseteq DOMAIN left /\ DOMAIN left \subseteq DOMAIN old \cup DOMAIN new
           /\ \A k \in DOMAIN left : IsShard(left[k])
<1>1. PICK kept \in SUBSET DOMAIN new :
          left = [k \in DOMAIN old \cup (DOMAIN new \ kept) |->
                     IF k \in DOMAIN new \ kept THEN Cut(new[k]) ELSE old[k]]
  BY DEF NotWritten
<1>2. ASSUME NEW k \in DOMAIN left PROVE IsShard(left[k])
  <2>1. CASE k \in DOMAIN new \ kept
    <3>1. left[k] = Cut(new[k]) /\ k \in DOMAIN new
      BY <1>1, <2>1
    <3>2. IsShard(Cut(new[k]))
      BY <3>1, CutIs
    <3> QED BY <3>1, <3>2
  <2>2. CASE k \notin DOMAIN new \ kept
    <3>1. left[k] = old[k] /\ k \in DOMAIN old
      BY <1>1, <2>2
    <3> QED BY <3>1
  <2> QED BY <2>1, <2>2
<1> QED BY <1>1, <1>2

(* Other shards of a slug                                                  *)
LEMMA ShardFiles ==
    ASSUME NEW w, WorkSound(w), NEW slug \in Slugs, NEW all,
           \A k \in DOMAIN all : IsShard(all[k]), DOMAIN all \subseteq DOMAIN w.manifests,
           DOMAIN w.shards[slug] \subseteq DOMAIN all,
           NEW files, files.manifests = w.manifests, files.artifacts = w.artifacts,
           DOMAIN files.shards = Slugs, files.shards[slug] = all,
           \A s \in Slugs : s # slug => files.shards[s] = w.shards[s]
    PROVE  WorkSound(files)
<1>1. ASSUME NEW s \in Slugs
      PROVE  /\ DOMAIN files.shards[s] \subseteq DOMAIN files.manifests
             /\ \A k \in DOMAIN files.shards[s] : IsShard(files.shards[s][k])
             /\ DOMAIN files.artifacts[s].shards \subseteq DOMAIN files.shards[s]
  <2>1. /\ DOMAIN w.shards[s] \subseteq DOMAIN w.manifests
        /\ \A k \in DOMAIN w.shards[s] : IsShard(w.shards[s][k])
        /\ DOMAIN w.artifacts[s].shards \subseteq DOMAIN w.shards[s]
    BY DEF WorkSound
  <2> QED BY <2>1
<1> QED BY <1>1 DEF WorkSound

LEMMA ShardsSound ==
    ASSUME PrepInv, PrepInv', Sound, NEW p \in Preparations, WriteShards(p) PROVE Sound'
<1>1. prep[p].at = "shards" /\ prep[p].at \in Local /\ UNCHANGED <<commits, payloads>>
  BY DEF WriteShards, Local
<1> DEFINE m         == prep[p].map
           model     == prep[p].model
           w         == work[Dir(p)]
           slug      == prep[p].options.slug
           manifests == w.manifests
           old       == w.shards[slug]
           ids       == DOMAIN manifests
           fits      == {k \in ids : \A i \in ids : i <= k => Writable(manifests[i], model)}
           Shards(ks) == [k \in ks |-> Shard(manifests[k], model)]
<1>2. PICK n \in 0 .. Cardinality(fits) :
          \E bad \in {{}} \cup
                        (IF n = Cardinality(ids)
                         THEN {b \in SUBSET Lowest(n, fits) : Cardinality(b) + badWrites <= MaxBadWrites}
                         ELSE {Lowest(n + 1, fits) \ Lowest(n, fits)}) :
          \E left \in NotWritten(old, Shards(bad)) :
              /\ Leaves(p, [w EXCEPT !.shards[slug] = Written(Shards(Lowest(n, fits) \ bad), left)],
                        n = Cardinality(ids), "validate")
              /\ badWrites' = badWrites + IF n = Cardinality(ids) THEN Cardinality(bad) ELSE 0
  BY Zenon DEF WriteShards
<1>3. /\ m \in StageMaps /\ WorkSound(w) /\ WorkDir(w) /\ badWrites \in Nat /\ slug \in Slugs
      /\ prep[p] = [at |-> prep[p].at, options |-> prep[p].options, model |-> model, map |-> m]
      /\ RunSound(prep[p], w, badWrites)
  BY <1>1, RunHas
<1> HIDE DEF m, model, w, slug
<1>4. Listed(manifests, m, model)
  BY <1>1, <1>3 DEF RunSound, m, model
<1>5. fits \subseteq ids
  OBVIOUS
<1>6. ids \subseteq Nat /\ IsFiniteSet(ids) /\ \A k \in ids : IsPart(manifests[k].part)
  BY <1>3 DEF WorkSound
<1>61. DOMAIN old \subseteq ids /\ \A k \in DOMAIN old : IsShard(old[k])
  BY <1>3 DEF WorkSound
<1>7. PICK good, done : good = Lowest(n, fits) /\ done = (n = Cardinality(ids)) /\ done \in BOOLEAN
  OBVIOUS
<1>8. PICK bad : /\ bad \in {{}} \cup
                        (IF done THEN {b \in SUBSET good : Cardinality(b) + badWrites <= MaxBadWrites}
                         ELSE {Lowest(n + 1, fits) \ good})
                 /\ \E left \in NotWritten(old, Shards(bad)) :
                       /\ Leaves(p, [w EXCEPT !.shards[slug] = Written(Shards(good \ bad), left)],
                                 done, "validate")
                       /\ badWrites' = badWrites + IF done THEN Cardinality(bad) ELSE 0
  BY <1>2, <1>7, Zenon
<1>9. PICK left \in NotWritten(old, Shards(bad)) :
          /\ Leaves(p, [w EXCEPT !.shards[slug] = Written(Shards(good \ bad), left)], done, "validate")
          /\ badWrites' = badWrites + IF done THEN Cardinality(bad) ELSE 0
  BY <1>8
<1> HIDE DEF manifests, old, ids, fits
<1>10. fits \subseteq Nat /\ IsFiniteSet(fits) /\ Cardinality(fits) <= Cardinality(ids)
  BY <1>5, <1>6, FS_Subset
<1>11. Cardinality(ids) \in Nat /\ Cardinality(fits) \in Nat
  BY <1>6, <1>10, FS_CardinalityType
<1>12. n \in Nat /\ n <= Cardinality(fits)
  BY <1>11
<1>13. good \subseteq ids /\ bad \subseteq ids /\ (done => bad \subseteq good)
  <2>1. Lowest(n, fits) \subseteq fits /\ Lowest(n + 1, fits) \subseteq fits
    BY <1>6, <1>10, LowestAre
  <2> QED BY <1>5, <1>7, <1>8, <2>1
<1>14. done => good = ids
  <2> SUFFICES ASSUME done PROVE good = ids
    OBVIOUS
  <2>1. n = Cardinality(ids)
    BY <1>7
  <2>2. Cardinality(fits) = Cardinality(ids) /\ Cardinality(fits) <= n
    <3>1. ASSUME NEW a \in Nat, NEW b \in Nat, a <= b, b <= a PROVE a = b
      BY <3>1
    <3> QED BY <1>10, <1>11, <1>12, <2>1, <3>1
  <2>3. fits = ids
    BY <1>5, <1>6, <2>2, FS_Subset
  <2>4. Lowest(n, fits) = fits
    BY <1>10, <1>12, <2>2, LowestAre
  <2> QED BY <1>7, <2>3, <2>4
<1>15. IsFiniteSet(bad) /\ Cardinality(bad) \in Nat
  BY <1>6, <1>13, FS_Subset, FS_CardinalityType
<1>16. badWrites' \in Nat /\ (badWrites' = 0 => badWrites = 0 /\ (done => bad = {}))
  <2>1. badWrites' = 0 => badWrites = 0 /\ (done => Cardinality(bad) = 0)
    BY <1>3, <1>9, <1>15
  <2>2. badWrites' \in Nat
    BY <1>3, <1>9, <1>15
  <2> QED BY <1>15, <2>1, <2>2, FS_EmptySet
<1>17. ASSUME NEW ks, ks \subseteq ids
       PROVE  /\ DOMAIN Shards(ks) = ks
              /\ \A k \in ks : IsShard(Shards(ks)[k]) /\ Shards(ks)[k].data = model.build
  BY <1>6, <1>17, ShardIs
<1>18. PICK new : new = Shards(good \ bad)
  OBVIOUS
<1>19. /\ DOMAIN new = good \ bad
       /\ \A k \in good \ bad : IsShard(new[k]) /\ new[k].data = model.build
  BY <1>13, <1>17, <1>18
<1>20. /\ DOMAIN old \subseteq DOMAIN left /\ DOMAIN left \subseteq ids
       /\ \A k \in DOMAIN left : IsShard(left[k])
  <2>1. PICK cut : cut = Shards(bad)
    OBVIOUS
  <2>2. DOMAIN cut = bad /\ \A k \in DOMAIN cut : IsShard(cut[k])
    BY <1>13, <1>17, <2>1
  <2>3. left \in NotWritten(old, cut)
    BY <2>1
  <2> HIDE DEF Shards
  <2>4. /\ DOMAIN old \subseteq DOMAIN left /\ DOMAIN left \subseteq DOMAIN old \cup DOMAIN cut
        /\ \A k \in DOMAIN left : IsShard(left[k])
    BY <1>61, <2>2, <2>3, NotWrittenAre
  <2> QED BY <1>61, <1>13, <2>2, <2>4
<1>21. PICK files : files = [w EXCEPT !.shards[slug] = Written(new, left)]
  OBVIOUS
<1>22. Leaves(p, files, done, "validate") /\ "validate" \in Local
  BY <1>9, <1>18, <1>21 DEF Local
<1> HIDE DEF Shards
<1>23. DOMAIN new \subseteq ids /\ \A k \in DOMAIN new : IsShard(new[k])
  BY <1>13, <1>19
<1>24. /\ WorkSound(files) /\ files.manifests = manifests
       /\ files.shards[slug] = Written(new, left)
  <2>1. DOMAIN w.shards[slug] \subseteq DOMAIN left
    BY <1>20 DEF old
  <2>2. DOMAIN new \subseteq DOMAIN w.manifests /\ DOMAIN left \subseteq DOMAIN w.manifests
    BY <1>20, <1>23 DEF ids, manifests
  <2>3. PICK x, y : x = w /\ y = slug
    OBVIOUS
  <2>4. /\ WorkSound(x) /\ WorkDir(x) /\ y \in Slugs /\ DOMAIN x.shards[y] \subseteq DOMAIN left
        /\ DOMAIN new \subseteq DOMAIN x.manifests /\ DOMAIN left \subseteq DOMAIN x.manifests
        /\ files = [x EXCEPT !.shards[y] = Written(new, left)]
    BY <1>3, <1>21, <2>1, <2>2, <2>3, Zenon
  <2>5. \A k \in DOMAIN left : IsShard(left[k])
    BY <1>20
  <2>6. PICK all : all = Written(new, left)
    OBVIOUS
  <2>7. /\ files.manifests = x.manifests /\ files.artifacts = x.artifacts
        /\ files.shards = [x.shards EXCEPT ![y] = all]
    BY <2>4, <2>6 DEF WorkDir
  <2>8. /\ DOMAIN files.shards = Slugs /\ files.shards[y] = all
        /\ \A s \in Slugs : s # y => files.shards[s] = x.shards[s]
    BY <2>4, <2>7 DEF WorkSound
  <2>9. /\ DOMAIN all \subseteq DOMAIN x.manifests /\ DOMAIN x.shards[y] \subseteq DOMAIN all
        /\ \A k \in DOMAIN all : IsShard(all[k])
    <3>1. /\ DOMAIN all = DOMAIN new \cup DOMAIN left
          /\ \A k \in DOMAIN new : all[k] = new[k]
          /\ \A k \in DOMAIN left : k \notin DOMAIN new => all[k] = left[k]
      BY <2>6 DEF Written
    <3>2. \A k \in DOMAIN all : IsShard(all[k])
      BY <1>23, <2>5, <3>1, Zenon
    <3> QED BY <2>4, <3>1, <3>2
  <2>10. WorkSound(files)
    <3>1. /\ WorkSound(x) /\ y \in Slugs
          /\ files.manifests = x.manifests /\ files.artifacts = x.artifacts
      BY <2>4, <2>7
    <3> QED BY <2>8, <2>9, <3>1, ShardFiles
  <2> QED BY <2>3, <2>6, <2>7, <2>8, <2>10, Zenon DEF manifests
<1>25. ASSUME done, badWrites' = 0 PROVE Stamped(files.shards[slug], model.build)
  <2>1. DOMAIN new = ids /\ \A k \in ids : new[k].data = model.build
    BY <1>14, <1>16, <1>19, <1>25
  <2>2. PICK all : all = Written(new, left)
    OBVIOUS
  <2>3. DOMAIN all = ids /\ \A k \in ids : all[k] = new[k]
    BY <1>20, <2>1, <2>2 DEF Written
  <2> QED BY <1>24, <2>1, <2>2, <2>3, Zenon DEF Stamped
<1>26. PICK r : r = [prep[p] EXCEPT !.at = "validate"]
  OBVIOUS
<1>27. r.at = "validate" /\ r.map = m /\ r.model = model /\ r.options.slug = slug
  BY <1>3, <1>26 DEF slug
<1>28. done => RunSound(r, files, badWrites')
  BY <1>3, <1>4, <1>24, <1>25, <1>27 DEF RunSound
<1>29. badWrites' \in Nat /\ (badWrites' = 0 => badWrites = 0)
  BY <1>16
<1> QED BY <1>1, <1>7, <1>22, <1>24, <1>26, <1>28, <1>29, SoundLeaves

LEMMA ValidateSound ==
    ASSUME PrepInv, PrepInv', Sound, NEW p \in Preparations, Validate(p) PROVE Sound'
<1>1. /\ prep[p].at = "validate" /\ prep[p].at \in Local
      /\ UNCHANGED <<commits, payloads, badWrites>>
  BY DEF Validate, Local
<1>2. CASE Fail(p)
  BY <1>1, <1>2, RunHas, SoundFail
<1>3. CASE ~Fail(p)
  <2>1. PICK w, slug : w = work[Dir(p)] /\ slug = prep[p].options.slug
    OBVIOUS
  <2>2. Validated(Read[prep[p].map], w.manifests, w.shards[slug]) /\ GoTo(p, "collect") /\ UNCHANGED work
    BY <1>3, <2>1, Zenon DEF Validate
  <2>3. PICK r : r = [prep[p] EXCEPT !.at = "collect"]
    OBVIOUS
  <2>4. prep' = [prep EXCEPT ![p] = r]
    BY <2>2, <2>3 DEF GoTo
  <2>5. /\ Running(p) /\ WorkSound(w) /\ RunSound(prep[p], w, badWrites) /\ badWrites \in Nat
        /\ prep[p] = [at |-> prep[p].at, options |-> prep[p].options,
                      model |-> prep[p].model, map |-> prep[p].map]
    BY <1>1, <2>1, RunHas
  <2>6. /\ r.at = "collect" /\ r.options = prep[p].options /\ r.map = prep[p].map
        /\ r.model = prep[p].model /\ r.options.slug = slug
    BY <2>1, <2>3, <2>5
  <2>7. RunSound(r, w, badWrites)
    <3>1. r.map \in StageMaps /\ Listed(w.manifests, r.map, r.model)
      BY <1>1, <2>5, <2>6 DEF RunSound
    <3>2. badWrites = 0 => Stamped(w.shards[slug], r.model.build)
      BY <1>1, <2>1, <2>5, <2>6 DEF RunSound
    <3>3. Validated(Read[r.map], w.manifests, w.shards[slug])
      BY <2>2, <2>6
    <3> QED BY <2>6, <3>1, <3>2, <3>3 DEF RunSound
  <2>8. work'[Dir(p)] = w /\ \A d \in Preparations \cup {Shared} : d # Dir(p) => work'[d] = work[d]
    BY <2>1, <2>2
  <2>9. CommitsSound' /\ PayloadsSound' /\ badWrites' \in Nat /\ badWrites' = badWrites
    BY <1>1, <2>5, SoundCommits, SoundPayloads
  <2>10. WorkSound(work'[Dir(p)]) /\ RunSound(r, work'[Dir(p)], badWrites')
    BY <2>5, <2>7, <2>8, <2>9
  <2> QED BY <2>4, <2>5, <2>6, <2>8, <2>9, <2>10, SoundStep
<1> QED BY <1>2, <1>3

(* What the validator has accepted may be pushed.                          *)
LEMMA ValidIsGood ==
    ASSUME NEW m \in StageMaps, NEW model, NEW manifests, Listed(manifests, m, model),
           NEW stored, Validated(Read[m], manifests, stored), DOMAIN stored \subseteq DOMAIN manifests,
           \A k \in DOMAIN stored : IsShard(stored[k]),
           NEW bad, bad = 0 => Stamped(stored, model.build),
           NEW directory, directory.map = m, directory.full = model.build,
           DOMAIN directory.shards = DOMAIN stored,
           \A k \in DOMAIN stored : directory.shards[k] = stored[k]
    PROVE  Good(directory, bad)
<1>1. /\ Ids(Read[m]) = 1 .. m.stages
      /\ \A k \in 1 .. m.stages : PartitionOf(k, Read[m]) = Part(m, k)
  BY MapsAre
<1>2. \A k \in DOMAIN manifests : ValidPartition(k, Read[m], manifests, stored)
  BY DEF Validated
<1>3. /\ ~ManifestRefused(Read[m], model)
      /\ \A k \in 1 .. m.stages : k \in DOMAIN manifests /\ manifests[k] = Manifest(Part(m, k), model)
  BY DEF Listed
<1>4. DOMAIN stored = 1 .. m.stages
  BY <1>1, <1>2, <1>3 DEF ValidPartition
<1>5. ASSUME NEW k \in 1 .. m.stages
      PROVE  /\ stored[k].part = Part(m, k)
             /\ stored[k].tensors = Assigned(TensorsOf(model), Part(m, k))
  <2>1. ValidShard(stored[k], manifests[k], Part(m, k))
    BY <1>1, <1>2, <1>3 DEF ValidPartition
  <2>2. manifests[k].part = Part(m, k) /\ manifests[k].tensors = Assigned(TensorsOf(model), Part(m, k))
    <3>1. manifests[k] = Manifest(Part(m, k), model)
      BY <1>3
    <3>2. /\ Manifest(Part(m, k), model).part = Part(m, k)
          /\ Manifest(Part(m, k), model).tensors = Assigned(TensorsOf(model), Part(m, k))
      BY DEF Manifest
    <3> QED BY <3>1, <3>2, Zenon
  <2>3. Identity(stored[k].part) = Identity(Part(m, k)) /\ Contents(stored[k].part) = Contents(Part(m, k))
    BY <2>1, <2>2 DEF ValidShard
  <2>4. IsPart(stored[k].part) /\ IsPart(Part(m, k))
    BY <1>4, PartHas DEF IsShard
  <2>5. stored[k].part.stage_id = Part(m, k).stage_id
    BY <2>3 DEF Identity
  <2>6. stored[k].part = Part(m, k)
    BY <2>3, <2>4, <2>5, PartsCompare
  <2> QED BY <2>1, <2>2, <2>6 DEF ValidShard
<1>6. Whole(directory)
  <2>1. DOMAIN directory.shards = Ids(Read[directory.map]) /\ directory.map \in StageMaps
    BY <1>1, <1>4
  <2>2. \A k \in Ids(Read[directory.map]) :
            /\ directory.shards[k].part = PartitionOf(k, Read[directory.map])
            /\ directory.shards[k].tensors =
                   Assigned(TensorsOf(model), PartitionOf(k, Read[directory.map]))
    BY <1>1, <1>4, <1>5
  <2>3. ~ManifestRefused(Read[directory.map], model)
    BY <1>3
  <2> QED BY <2>1, <2>2, <2>3, WholeWhenValid
<1>7. bad = 0 => OneBuild(directory)
  BY DEF OneBuild, ShardsOf, Stamped
<1> QED BY <1>6, <1>7 DEF Good

(* Artifacts of a slug, from the shards in the same work directory         *)
LEMMA ArtifactFiles ==
    ASSUME NEW w, WorkSound(w), NEW slug \in Slugs, NEW all, DOMAIN all \subseteq DOMAIN w.shards[slug],
           NEW files, files.manifests = w.manifests, files.shards = w.shards,
           files.artifacts[slug].shards = all,
           \A s \in Slugs : s # slug => files.artifacts[s] = w.artifacts[s]
    PROVE  WorkSound(files)
<1>1. ASSUME NEW s \in Slugs PROVE DOMAIN files.artifacts[s].shards \subseteq DOMAIN files.shards[s]
  BY DEF WorkSound
<1> QED BY <1>1 DEF WorkSound

LEMMA CollectSound ==
    ASSUME PrepInv, PrepInv', Sound, NEW p \in Preparations, Collect(p) PROVE Sound'
<1>1. /\ prep[p].at = "collect" /\ prep[p].at \in Local
      /\ UNCHANGED <<commits, payloads, badWrites>>
  BY DEF Collect, Local
<1> DEFINE m      == prep[p].map
           model  == prep[p].model
           w      == work[Dir(p)]
           slug   == prep[p].options.slug
           stored == w.shards[slug]
           Map(done) == IF done THEN m ELSE w.artifacts[slug].map
           Some(n) == Copied([k \in Lowest(n, DOMAIN stored) |-> stored[k]], w.artifacts[slug].shards)
<1>2. PICK n \in 0 .. Cardinality(DOMAIN stored) + 1 :
          Leaves(p, [w EXCEPT !.artifacts[slug] =
                        [shards |-> Some(n), map |-> Map(n > Cardinality(DOMAIN stored)),
                         full   |-> model.build]],
                 n > Cardinality(DOMAIN stored), "clone")
  BY DEF Collect
<1>3. /\ m \in StageMaps /\ WorkSound(w) /\ WorkDir(w) /\ badWrites \in Nat /\ slug \in Slugs
      /\ prep[p] = [at |-> prep[p].at, options |-> prep[p].options, model |-> model, map |-> m]
      /\ RunSound(prep[p], w, badWrites)
  BY <1>1, RunHas
<1>4. /\ Listed(w.manifests, m, model) /\ Validated(Read[m], w.manifests, stored)
      /\ badWrites = 0 => Stamped(stored, model.build)
  BY <1>1, <1>3 DEF RunSound, m, model
<1>5. PICK done \in BOOLEAN : (done <=> n > Cardinality(DOMAIN stored)) /\ done = (n > Cardinality(DOMAIN stored))
  <2>1. Cardinality(DOMAIN stored) \in Nat
    <3>1. IsFiniteSet(DOMAIN w.manifests) /\ DOMAIN stored \subseteq DOMAIN w.manifests
      BY <1>3 DEF WorkSound
    <3> QED BY <3>1, FS_Subset, FS_CardinalityType
  <2>2. \A a, b \in Nat : (a > b) \in BOOLEAN
    OBVIOUS
  <2>3. n \in Nat
    BY <2>1
  <2>4. (n > Cardinality(DOMAIN stored)) \in BOOLEAN
    BY <2>1, <2>2, <2>3
  <2> QED BY <2>4, Zenon
<1>6. PICK all : all = Some(n)
  OBVIOUS
<1>7. PICK files : files = [w EXCEPT !.artifacts[slug] =
                               [shards |-> all, map |-> Map(done), full |-> model.build]]
  OBVIOUS
<1>8. Leaves(p, files, done, "clone") /\ "clone" \in Local
  BY <1>2, <1>5, <1>6, <1>7 DEF Local
<1> HIDE DEF m, model, w, slug
<1>9. /\ IsFiniteSet(DOMAIN stored) /\ DOMAIN stored \subseteq Nat
      /\ DOMAIN stored \subseteq DOMAIN w.manifests /\ \A k \in DOMAIN stored : IsShard(stored[k])
      /\ DOMAIN w.artifacts[slug].shards \subseteq DOMAIN stored
  <2>1. /\ IsFiniteSet(DOMAIN w.manifests) /\ DOMAIN w.manifests \subseteq Nat
        /\ DOMAIN stored \subseteq DOMAIN w.manifests /\ \A k \in DOMAIN stored : IsShard(stored[k])
        /\ DOMAIN w.artifacts[slug].shards \subseteq DOMAIN stored
    BY <1>3 DEF WorkSound
  <2> QED BY <2>1, FS_Subset
<1>10. PICK ks : ks = Lowest(n, DOMAIN stored)
  OBVIOUS
<1>11. ks \subseteq DOMAIN stored /\ (done => ks = DOMAIN stored)
  <2>1. Cardinality(DOMAIN stored) \in Nat /\ n \in Nat
    BY <1>9, FS_CardinalityType
  <2>2. done => Cardinality(DOMAIN stored) <= n
    <3>1. \A a, b \in Nat : a > b => b <= a
      OBVIOUS
    <3> QED BY <1>5, <2>1, <3>1, Zenon
  <2> HIDE DEF stored
  <2> QED BY <1>9, <1>10, <2>1, <2>2, LowestAre
<1>12. PICK some : some = [k \in ks |-> stored[k]]
  OBVIOUS
<1>13. all = Written(some, w.artifacts[slug].shards)
  BY <1>6, <1>10, <1>12 DEF Copied
<1>14. /\ DOMAIN all = ks \cup DOMAIN w.artifacts[slug].shards
       /\ \A k \in ks : all[k] = stored[k]
  <2>1. DOMAIN some = ks /\ \A k \in ks : some[k] = stored[k]
    BY <1>12
  <2> QED BY <1>13, <2>1 DEF Written
<1>15. DOMAIN all \subseteq DOMAIN stored /\ (done => DOMAIN all = DOMAIN stored)
  BY <1>9, <1>11, <1>14
<1>16. PICK directory : directory = [shards |-> all, map |-> Map(done), full |-> model.build]
  OBVIOUS
<1>17. /\ files.manifests = w.manifests /\ files.shards = w.shards
       /\ files.artifacts = [w.artifacts EXCEPT ![slug] = directory]
  BY <1>3, <1>7, <1>16 DEF WorkDir
<1>18. files.artifacts[slug] = directory /\ \A s \in Slugs : s # slug => files.artifacts[s] = w.artifacts[s]
  BY <1>3, <1>17 DEF WorkDir
<1>19. WorkSound(files)
  <2>1. files.artifacts[slug].shards = all
    BY <1>16, <1>18
  <2> QED BY <1>3, <1>15, <1>17, <1>18, <2>1, ArtifactFiles
<1>20. done => Good(files.artifacts[slug], badWrites)
  <2> SUFFICES ASSUME done PROVE Good(directory, badWrites)
    BY <1>18
  <2>1. /\ directory.map = m /\ directory.full = model.build /\ DOMAIN directory.shards = DOMAIN stored
        /\ \A k \in DOMAIN stored : directory.shards[k] = stored[k]
    BY <1>11, <1>14, <1>15, <1>16
  <2> HIDE DEF stored
  <2> QED BY <1>3, <1>4, <1>9, <2>1, ValidIsGood
<1>21. PICK r : r = [prep[p] EXCEPT !.at = "clone"]
  OBVIOUS
<1>22. r.at = "clone" /\ r.map = m /\ r.options.slug = slug
  BY <1>3, <1>21 DEF slug
<1>23. done => RunSound(r, files, badWrites)
  BY <1>3, <1>20, <1>22 DEF RunSound, Local
<1>24. badWrites' \in Nat /\ badWrites' = badWrites
  BY <1>1, <1>3
<1> QED BY <1>1, <1>8, <1>19, <1>21, <1>23, <1>24, SoundLeaves

LEMMA CloneSound ==
    ASSUME PrepInv, PrepInv', Sound, NEW p \in Preparations, Clone(p) PROVE Sound'
<1>1. /\ prep[p].at = "clone" /\ prep[p].at \in Local
      /\ UNCHANGED <<work, commits, payloads, badWrites>>
  BY DEF Clone, Local
<1>2. PICK m, o, w : m = prep[p].map /\ o = prep[p].options /\ w = work[Dir(p)]
  OBVIOUS
<1>3. PICK r : r = [at |-> IF o.upload THEN "push" ELSE "print",
                    options |-> o, map |-> m, base |-> Len(commits)]
  OBVIOUS
<1>4. prep' = [prep EXCEPT ![p] = r] /\ r.at \in {"push", "print"} /\ r.options = o /\ r.map = m
  BY <1>2, <1>3 DEF Clone
<1>5. /\ Running(p) /\ m \in StageMaps /\ WorkSound(w) /\ RunSound(prep[p], w, badWrites)
      /\ badWrites \in Nat
  BY <1>1, <1>2, RunHas
<1>6. Good(w.artifacts[o.slug], badWrites)
  BY <1>1, <1>2, <1>5 DEF RunSound
<1>7. RunSound(r, w, badWrites)
  BY <1>4, <1>5, <1>6 DEF RunSound
<1>8. work'[Dir(p)] = w /\ \A d \in Preparations \cup {Shared} : d # Dir(p) => work'[d] = work[d]
  BY <1>1, <1>2
<1>9. CommitsSound' /\ PayloadsSound' /\ badWrites' \in Nat /\ badWrites' = badWrites
  BY <1>1, <1>5, SoundCommits, SoundPayloads
<1>10. WorkSound(work'[Dir(p)]) /\ RunSound(r, work'[Dir(p)], badWrites')
  BY <1>5, <1>7, <1>8, <1>9
<1> QED BY <1>2, <1>4, <1>5, <1>8, <1>9, <1>10, SoundStep

(* A run that is past its clone                                            *)
LEMMA RemoteHas ==
    ASSUME PrepInv, Sound, NEW p \in Preparations, prep[p].at \in Remote
    PROVE  /\ Running(p) /\ prep[p].options.slug \in Slugs /\ prep[p].map \in StageMaps
           /\ prep[p] = [at |-> prep[p].at, options |-> prep[p].options,
                         map |-> prep[p].map, base |-> prep[p].base]
           /\ Dir(p) \in Preparations \cup {Shared} /\ WorkSound(work[Dir(p)])
           /\ RunSound(prep[p], work[Dir(p)], badWrites) /\ badWrites \in Nat
<1>1. PrepRecord(prep[p]) /\ Dir(p) \in Preparations \cup {Shared} /\ Running(p)
  BY DirIsDirectory DEF PrepInv, PrepTypes, Running, Remote
<1>2. /\ prep[p].options \in Options
      /\ prep[p] = [at |-> prep[p].at, options |-> prep[p].options,
                    map |-> prep[p].map, base |-> prep[p].base]
  BY <1>1 DEF PrepRecord, Local, Remote, Ended
<1>3. prep[p].options.slug \in Slugs
  BY <1>2 DEF Slugs
<1>4. RunSound(prep[p], work[Dir(p)], badWrites) /\ WorkSound(work[Dir(p)]) /\ badWrites \in Nat
  BY <1>1 DEF Sound
<1> QED BY <1>1, <1>2, <1>3, <1>4 DEF RunSound

LEMMA PushSound ==
    ASSUME PrepInv, PrepInv', Sound, NEW p \in Preparations, Push(p) PROVE Sound'
<1>1. /\ prep[p].at = "push" /\ prep[p].at \in Remote /\ UNCHANGED <<payloads, badWrites>>
  BY DEF Push, Remote
<1>2. /\ Running(p) /\ prep[p].options.slug \in Slugs /\ prep[p].map \in StageMaps
      /\ prep[p] = [at |-> prep[p].at, options |-> prep[p].options,
                    map |-> prep[p].map, base |-> prep[p].base]
      /\ Dir(p) \in Preparations \cup {Shared} /\ WorkSound(work[Dir(p)])
      /\ RunSound(prep[p], work[Dir(p)], badWrites) /\ badWrites \in Nat
  BY <1>1, RemoteHas
<1>3. CASE Fail(p) /\ UNCHANGED commits
  BY <1>1, <1>2, <1>3, SoundFail
<1>4. ASSUME GoTo(p, "print"), UNCHANGED work, CommitsSound' PROVE Sound'
  <2>1. PICK r : r = [prep[p] EXCEPT !.at = "print"]
    OBVIOUS
  <2>2. r.at = "print" /\ r.options = prep[p].options /\ r.map = prep[p].map
    BY <1>2, <2>1
  <2>3. prep' = [prep EXCEPT ![p] = r]
    BY <1>4, <2>1 DEF GoTo
  <2>4. RunSound(r, work'[Dir(p)], badWrites')
    BY <1>2, <2>2 DEF RunSound
  <2>5. WorkSound(work'[Dir(p)]) /\ PayloadsSound' /\ badWrites' \in Nat /\ badWrites' = badWrites
    BY <1>1, <1>2, <1>4, SoundPayloads
  <2> QED BY <1>2, <1>4, <2>2, <2>3, <2>4, <2>5, SoundStep
<1>5. CASE GoTo(p, "print") /\ UNCHANGED <<commits, work>>
  BY <1>1, <1>4, <1>5, SoundCommits
<1>6. CASE commits' = Append(commits, Committed(p)) /\ GoTo(p, "print") /\ UNCHANGED work
  <2>1. PICK D : CommitsAre(D)
    BY DEF PrepInv
  <2>2. PICK slug, X, new, base : /\ slug = prep[p].options.slug /\ X = work[Dir(p)].artifacts[slug]
                                  /\ new = Committed(p) /\ base = prep[p].base
    OBVIOUS
  <2>3. /\ base \in DOMAIN commits
        /\ \A s \in Slugs : new[s] = IF s = slug THEN X ELSE commits[base][s]
    BY <1>1, <2>1, <2>2, CommitIsOfOneSlug
  <2>4. Good(X, badWrites)
    BY <1>1, <1>2, <2>2 DEF RunSound
  <2>5. PICK L : L = Len(commits)
    OBVIOUS
  <2>6. /\ DOMAIN commits = 1 .. L /\ DOMAIN commits' = 1 .. L + 1 /\ L \in Nat
        /\ commits'[L + 1] = new /\ \A i \in 1 .. L : commits'[i] = commits[i]
    BY <1>6, <2>1, <2>2, <2>5 DEF CommitsAre
  <2>7. \A i \in DOMAIN commits : \A s \in Slugs : commits[i][s] = NoDirectory \/ Good(commits[i][s], badWrites)
    BY DEF Sound, CommitsSound
  <2>8. \A s \in Slugs : new[s] = NoDirectory \/ Good(new[s], badWrites)
    BY <2>3, <2>4, <2>7
  <2>9. ASSUME NEW i \in DOMAIN commits', NEW s \in Slugs
        PROVE  commits'[i][s] = NoDirectory \/ Good(commits'[i][s], badWrites)
    <3>1. CASE i = L + 1
      BY <2>6, <2>8, <3>1
    <3>2. CASE i # L + 1
      <4>1. i \in DOMAIN commits /\ commits'[i] = commits[i]
        BY <2>6, <3>2
      <4> QED BY <2>7, <4>1
    <3> QED BY <3>1, <3>2
  <2>10. CommitsSound'
    BY <1>1, <2>9 DEF CommitsSound
  <2> QED BY <1>4, <1>6, <2>10
<1> QED BY <1>3, <1>5, <1>6 DEF Push, Pushed

LEMMA PrintSound ==
    ASSUME PrepInv, PrepInv', Sound, NEW p \in Preparations, PrintActivation(p) PROVE Sound'
<1>1. /\ prep[p].at \in Remote /\ End(p, "done") /\ "done" \in Ended /\ UNCHANGED <<commits, badWrites>>
      /\ payloads' = payloads \cup
             {[slug |-> prep[p].options.slug, map |-> prep[p].map, upload |-> prep[p].options.upload]}
  BY DEF PrintActivation, Remote, Ended
<1>2. Running(p) /\ prep[p].map \in StageMaps
  BY <1>1, RemoteHas
<1>3. PayloadsSound'
  BY <1>1, <1>2 DEF PayloadsSound, Sound
<1> QED BY <1>1, <1>2, <1>3, SoundEnd

LEMMA DieSound ==
    ASSUME PrepInv, PrepInv', Sound, NEW p \in Preparations, Die(p) PROVE Sound'
BY SoundFail DEF Die

LEMMA RepublishSound == ASSUME Sound, NEW s \in Sources, Republish(s) PROVE Sound'
<1>1. UNCHANGED <<work, prep, commits, payloads, badWrites>>
  BY DEF Republish
<1> QED BY <1>1 DEF Sound, Dir, CommitsSound, PayloadsSound

LEMMA SoundNext == PrepInv /\ Sound /\ [Next]_vars => Sound'
<1> SUFFICES ASSUME PrepInv, Sound, [Next]_vars PROVE Sound'
  OBVIOUS
<1>1. PrepInv'
  BY PrepNext
<1>2. ASSUME NEW p \in Preparations, Begin(p) PROVE Sound'
  BY <1>2, BeginSound
<1>3. ASSUME NEW p \in Preparations,
             \/ Download(p) \/ WriteManifests(p) \/ WriteShards(p) \/ Validate(p) \/ Collect(p)
             \/ Clone(p) \/ Push(p) \/ PrintActivation(p) \/ Die(p)
      PROVE  Sound'
  BY <1>1, <1>3, DownloadSound, ManifestsSound, ShardsSound, ValidateSound, CollectSound, CloneSound,
     PushSound, PrintSound, DieSound
<1>4. ASSUME NEW s \in Sources, Republish(s) PROVE Sound'
  BY <1>4, RepublishSound
<1>5. CASE UNCHANGED vars
  BY <1>5 DEF vars, Sound, Dir, CommitsSound, PayloadsSound
<1> QED BY <1>2, <1>3, <1>4, <1>5 DEF Next

LEMMA AlwaysSound == Spec => [](PrepInv /\ Sound)
<1>1. Init => PrepInv /\ Sound
  BY PrepInit, SoundInit
<1>2. PrepInv /\ Sound /\ [Next]_vars => (PrepInv /\ Sound)'
  BY PrepNext, SoundNext
<1> QED BY <1>1, <1>2, PTL DEF Spec

LEMMA SoundDirectories ==
    ASSUME Sound, NEW directory \in Directories PROVE Good(directory, badWrites)
BY DEF Directories, Sound, CommitsSound

(* Each directory that was ever pushed holds one shard for each partition  *)
(* of its stage map, stamped with what the map says of it, and all tensors *)
(* of the layers once: whatever earlier runs have left in the work         *)
(* directory, whoever died and whatever was not written.                   *)
THEOREM PublishedAlwaysWhole == Spec => []PublishedIsWhole
<1>1. ASSUME Sound PROVE PublishedIsWhole
  BY <1>1, SoundDirectories DEF PublishedIsWhole, Good, Whole
<1> QED BY <1>1, AlwaysSound, PTL

(* While no shard file has failed to be written unnoticed, the shards and  *)
(* the full model of each pushed directory come from one build, however the*)
(* source is republished while runs are under way.                         *)
THEOREM PublishedAlwaysOneBuild == Spec => []PublishedIsOneBuild
<1>1. ASSUME Sound PROVE PublishedIsOneBuild
  BY <1>1, SoundDirectories DEF PublishedIsOneBuild, Good, OneBuild
<1> QED BY <1>1, AlwaysSound, PTL

(* What a stage finds for itself in a map that is written for it           *)
LEMMA StageHas ==
    ASSUME NEW m \in StageMaps, NEW k \in 1 .. m.stages, NEW part,
           part = ReadStage(GeneratedMap(m.slug, m.layers, m.stages), k)
    PROVE  /\ Contents(part) = Contents(Part(m, k)) /\ part.layers = LayersOf(m.layers, m.stages, k)
           /\ part.embedding <=> k = 1
           /\ part.lm_head <=> k = m.stages
<1> DEFINE split == GeneratedSplit(m.layers, m.stages)
<1>1. m.layers \in Nat /\ m.stages \in Nat /\ Splittable(m.layers, m.stages)
  BY MapsAre
<1>2. split \in Seq(Seq(Nat)) /\ Len(split) = m.stages /\ split[k] = LayersOf(m.layers, m.stages, k)
  BY <1>1, GeneratedIsSplit
<1>3. part = ReadStage(WrittenMap(m.slug, m.layers, split), k)
  BY DEF GeneratedMap, GeneratedSplit
<1> HIDE DEF split
<1>4. part = PartRead(k, m.stages, k, LayersOf(m.layers, m.stages, k))
  BY <1>2, <1>3, StageReadsWhatIsWritten
<1>5. Contents(part) = Contents(Part(m, k))
  BY <1>4, StageContentsAre DEF Part
<1>6. PICK other : other = Part(m, k)
  OBVIOUS
<1>7. part.layers = other.layers /\ part.embedding = other.embedding /\ part.lm_head = other.lm_head
  BY <1>5, <1>6 DEF Contents
<1>8. /\ other.layers = LayersOf(m.layers, m.stages, k)
      /\ other.embedding <=> k = 1
      /\ other.lm_head <=> k = m.stages
  BY <1>6, PartHas
<1> QED BY <1>5, <1>7, <1>8

(* The walk over a map of the preparations                                 *)
LEMMA MapRoutes ==
    ASSUME NEW m \in StageMaps, NEW text, text = GeneratedMap(m.slug, m.layers, m.stages),
           NEW route, route = GatewayRoute(Read[m].partitions, Read[m].first)
    PROVE  /\ \A k \in Ids(Read[m]) : Contents(ReadStage(text, k)) = Contents(PartitionOf(k, Read[m]))
           /\ FlattenSeq([i \in DOMAIN route |-> ReadStage(text, route[i]).layers])
                  = [i \in 1 .. m.layers |-> i - 1]
           /\ ReadStage(text, route[1]).embedding /\ ReadStage(text, route[Len(route)]).lm_head
<1> DEFINE split == GeneratedSplit(m.layers, m.stages)
<1>1. /\ m.layers \in Nat /\ m.stages \in Nat /\ Splittable(m.layers, m.stages) /\ m.stages # 0
      /\ Read[m].partitions = PartsFor(split) /\ Read[m].first = 1
      /\ Ids(Read[m]) = 1 .. m.stages
      /\ \A k \in 1 .. m.stages : PartitionOf(k, Read[m]) = Part(m, k)
  BY MapsAre
<1>2. /\ split \in Seq(Seq(Nat)) /\ Len(split) = m.stages
      /\ \A k \in 1 .. m.stages : split[k] = LayersOf(m.layers, m.stages, k)
      /\ FlattenSeq(split) = Ascending(m.layers)
  BY <1>1, GeneratedIsSplit, GeneratedLayersAscend
<1>3. ASSUME NEW k \in 1 .. m.stages
      PROVE  /\ Contents(ReadStage(text, k)) = Contents(Part(m, k))
             /\ ReadStage(text, k).layers = split[k]
             /\ k = 1 => ReadStage(text, k).embedding
             /\ k = m.stages => ReadStage(text, k).lm_head
  <2> HIDE DEF split
  <2>1. PICK part : part = ReadStage(text, k)
    OBVIOUS
  <2>2. part = ReadStage(GeneratedMap(m.slug, m.layers, m.stages), k)
    BY <2>1
  <2>3. /\ Contents(part) = Contents(Part(m, k)) /\ part.layers = LayersOf(m.layers, m.stages, k)
        /\ part.embedding <=> k = 1
        /\ part.lm_head <=> k = m.stages
    BY <2>2, StageHas
  <2> QED BY <1>2, <2>1, <2>3
<1> HIDE DEF split
<1>4. route = [i \in 1 .. m.stages |-> i]
  BY <1>1, <1>2, WalkIsInOrder
<1>5. DOMAIN route = 1 .. m.stages /\ Len(route) = m.stages /\ \A i \in 1 .. m.stages : route[i] = i
  <2>1. route \in [1 .. m.stages -> Nat]
    BY <1>1, <1>4
  <2>2. route \in Seq(Nat)
    BY <1>1, <2>1
  <2> QED BY <1>1, <1>4, <2>1, <2>2
<1>6. [i \in DOMAIN route |-> ReadStage(text, route[i]).layers] = split
  <2>1. DOMAIN split = 1 .. m.stages /\ split = [i \in 1 .. m.stages |-> split[i]]
    BY <1>2
  <2>2. [i \in DOMAIN route |-> ReadStage(text, route[i]).layers] = [i \in 1 .. m.stages |-> split[i]]
    BY <1>3, <1>5
  <2> QED BY <2>1, <2>2
<1>7. FlattenSeq([i \in DOMAIN route |-> ReadStage(text, route[i]).layers]) = [i \in 1 .. m.layers |-> i - 1]
  BY <1>2, <1>6 DEF Ascending
<1>8. ReadStage(text, route[1]).embedding /\ ReadStage(text, route[Len(route)]).lm_head
  <2>1. 1 \in 1 .. m.stages /\ m.stages \in 1 .. m.stages
    BY <1>1
  <2> QED BY <1>3, <1>5, <2>1
<1> QED BY <1>1, <1>3, <1>7, <1>8

(* Of each payload that print_activation prints every stage reads what the *)
(* gateway does, and the gateway's walk leads through all layers in order, *)
(* from the embedding to the head.                                         *)
THEOREM PayloadsAlwaysRoute == Spec => []PayloadsRouteEveryLayer
<1>1. ASSUME Sound PROVE PayloadsRouteEveryLayer
  <2>1. ASSUME NEW payload \in payloads
        PROVE  LET text  == GeneratedMap(payload.map.slug, payload.map.layers, payload.map.stages)
                   read  == Read[payload.map]
                   route == GatewayRoute(read.partitions, read.first)
                   Stage(k) == ReadStage(text, k)
               IN  /\ \A k \in Ids(read) : Contents(Stage(k)) = Contents(PartitionOf(k, read))
                   /\ FlattenSeq([i \in DOMAIN route |-> Stage(route[i]).layers])
                          = [i \in 1 .. payload.map.layers |-> i - 1]
                   /\ Stage(route[1]).embedding /\ Stage(route[Len(route)]).lm_head
    <3>1. PICK m, text, route :
              /\ m = payload.map /\ text = GeneratedMap(m.slug, m.layers, m.stages)
              /\ route = GatewayRoute(Read[m].partitions, Read[m].first)
      OBVIOUS
    <3>2. m \in StageMaps
      BY <1>1, <3>1 DEF Sound, PayloadsSound
    <3>3. /\ \A k \in Ids(Read[m]) : Contents(ReadStage(text, k)) = Contents(PartitionOf(k, Read[m]))
          /\ FlattenSeq([i \in DOMAIN route |-> ReadStage(text, route[i]).layers])
                 = [i \in 1 .. m.layers |-> i - 1]
          /\ ReadStage(text, route[1]).embedding /\ ReadStage(text, route[Len(route)]).lm_head
      <4>1. text = GeneratedMap(m.slug, m.layers, m.stages)
        BY <3>1
      <4>2. route = GatewayRoute(Read[m].partitions, Read[m].first)
        BY <3>1
      <4> QED BY <3>2, <4>1, <4>2, MapRoutes
    <3> QED BY <3>1, <3>3
  <2> QED BY <2>1, Zenon DEF PayloadsRouteEveryLayer
<1> QED BY <1>1, AlwaysSound, PTL

------------------------------------------------------------------------------
(* The rollout                                                             *)
Phases == {"idle", "patch", "restart", "done", "failed"}

RolloutTypeOK ==
    /\ config \in Payloads
    /\ act \in [Activations -> [at : Phases, payload : Payloads, next : Deployments]]
    /\ patcher \subseteq Activations
    /\ DOMAIN deploy = Deployments
    /\ deploy = [d \in Deployments |->
                    [serving |-> deploy[d].serving, pending |-> deploy[d].pending]]

(* A deployment has a pod under the map of the config map, or one to come  *)
Follows(d) == deploy[d].pending # "none" \/ deploy[d].serving.map = config

(* What PodsFollowConfig says when the activation has completed holds step *)
(* by step while it restarts the deployments, for those it is done with.   *)
FollowSoFar ==
    \A a \in patcher :
        /\ act[a].at \notin {"idle", "patch"}
        /\ act[a].at = "restart" => \A d \in Deployments : d < act[a].next => Follows(d)
        /\ act[a].at = "done" => \A d \in Deployments : Follows(d)

RolloutInv == RolloutTypeOK /\ FollowSoFar

------------------------------------------------------------------------------
(* As deployed nothing has patched the config map.                         *)
LEMMA InitFollows == RolloutInit => RolloutInv
<1> SUFFICES ASSUME RolloutInit PROVE RolloutInv
  OBVIOUS
<1>1. Gateway \in Deployments
  BY NumStagesAssumption DEF Gateway, Deployments
<1>2. RolloutTypeOK
  BY <1>1, CatalogAssumption DEF RolloutInit, RolloutTypeOK, Inactive, Phases
<1>3. FollowSoFar
  BY DEF RolloutInit, FollowSoFar
<1> QED
  BY <1>2, <1>3 DEF RolloutInv

(* A deployment that follows the config map goes on doing so, in a step    *)
(* that leaves the config map alone and gives other pods to d only.        *)
LEMMA FollowsStill ==
    ASSUME RolloutInv, UNCHANGED <<config, act, patcher>>, NEW d \in Deployments,
           NEW pod, deploy' = [deploy EXCEPT ![d] = pod],
           DOMAIN pod = {"serving", "pending"},
           pod = [serving |-> pod.serving, pending |-> pod.pending],
           Follows(d) => pod.pending # "none" \/ pod.serving.map = config
    PROVE  RolloutInv'
<1>1. RolloutTypeOK'
  BY DEF RolloutInv, RolloutTypeOK
<1>2. \A e \in Deployments : Follows(e) => Follows(e)'
  BY DEF RolloutInv, RolloutTypeOK, Follows
<1>3. FollowSoFar'
  BY <1>2 DEF RolloutInv, FollowSoFar
<1> QED
  BY <1>1, <1>3 DEF RolloutInv

(* A request that arrives is not the activation that patched last.         *)
LEMMA RequestKeeps ==
    ASSUME RolloutInv, NEW a \in Activations, Request(a)
    PROVE  RolloutInv'
<1>1. Gateway \in Deployments
  BY NumStagesAssumption DEF Gateway, Deployments
<1>2. a \notin patcher
  BY DEF RolloutInv, FollowSoFar, Request
<1>3. RolloutTypeOK'
  BY <1>1 DEF RolloutInv, RolloutTypeOK, Request, volumes, Phases
<1>4. \A b \in patcher : act'[b] = act[b]
  BY <1>2 DEF RolloutInv, RolloutTypeOK, Request
<1>5. \A d \in Deployments : Follows(d)' <=> Follows(d)
  BY DEF Follows, Request, volumes
<1>6. FollowSoFar'
  BY <1>4, <1>5 DEF RolloutInv, FollowSoFar, Request, volumes
<1> QED
  BY <1>3, <1>6 DEF RolloutInv

(* The patch of the config map, when it takes effect, makes its activation *)
(* the one to look at, which has not restarted anything yet. When it does  *)
(* not, the activation ends, and the last one to patch is another.         *)
LEMMA PatchKeeps ==
    ASSUME RolloutInv, NEW a \in Activations, PatchConfigMap(a)
    PROVE  RolloutInv'
<1>1. Gateway \in Deployments /\ \A d \in Deployments : ~(d < Gateway)
  BY NumStagesAssumption DEF Gateway, Deployments
<1>2. a \notin patcher /\ patcher \subseteq Activations
  BY DEF RolloutInv, RolloutTypeOK, FollowSoFar, PatchConfigMap
<1>3. PICK took \in BOOLEAN, ok \in BOOLEAN :
        /\ ok => took
        /\ config' = IF took THEN act[a].payload ELSE config
        /\ patcher' = IF took THEN {a} ELSE patcher
        /\ act' = [act EXCEPT ![a] = [Inactive EXCEPT !.at = IF ok THEN "restart" ELSE "failed"]]
  BY DEF PatchConfigMap
<1>4. deploy' = deploy
  BY DEF PatchConfigMap
<1>5. act'[a] = [at |-> IF ok THEN "restart" ELSE "failed", payload |-> Initial, next |-> Gateway]
  BY <1>3 DEF RolloutInv, RolloutTypeOK, Inactive
<1>6. RolloutTypeOK'
  <2>1. act'[a] \in [at : Phases, payload : Payloads, next : Deployments]
    BY <1>1, <1>5, CatalogAssumption DEF Phases
  <2>2. act' \in [Activations -> [at : Phases, payload : Payloads, next : Deployments]]
    BY <1>3, <2>1 DEF RolloutInv, RolloutTypeOK
  <2>3. config' \in Payloads /\ patcher' \subseteq Activations
    BY <1>3 DEF RolloutInv, RolloutTypeOK
  <2> QED
    BY <1>4, <2>2, <2>3 DEF RolloutInv, RolloutTypeOK
<1>7. FollowSoFar'
  <2>1. CASE took
    <3>1. patcher' = {a} /\ act'[a].at \in {"restart", "failed"} /\ act'[a].next = Gateway
      BY <1>3, <1>5, <2>1
    <3> QED
      BY <1>1, <3>1 DEF FollowSoFar
  <2>2. CASE ~took
    <3>1. \A b \in patcher : act'[b] = act[b]
      BY <1>2, <1>3 DEF RolloutInv, RolloutTypeOK
    <3>2. patcher' = patcher /\ config' = config
      BY <1>3, <2>2
    <3>3. \A d \in Deployments : Follows(d)' <=> Follows(d)
      BY <1>4, <3>2 DEF Follows
    <3> QED
      BY <3>1, <3>2, <3>3 DEF RolloutInv, FollowSoFar
  <2> QED
    BY <2>1, <2>2
<1> QED
  BY <1>6, <1>7 DEF RolloutInv

(* A restart that takes effect leaves its deployment with a pod to come;   *)
(* the activation goes on only then. Those restarted before still follow.  *)
LEMMA RestartKeeps ==
    ASSUME RolloutInv, NEW a \in Activations, RestartDeployment(a)
    PROVE  RolloutInv'
<1>1. PICK n \in Deployments : n = act[a].next /\ act[a].at = "restart"
  BY DEF RolloutInv, RolloutTypeOK, RestartDeployment
<1>2. PICK took \in BOOLEAN, ok \in BOOLEAN :
        /\ ok => took
        /\ deploy' = IF took THEN [deploy EXCEPT ![n].pending = "init"] ELSE deploy
        /\ act' = Restarted(a, ok)
  BY <1>1 DEF RestartDeployment
<1>3. config' = config /\ patcher' = patcher
  BY DEF RestartDeployment
<1> DEFINE step == IF ok THEN Further(a) ELSE [Inactive EXCEPT !.at = "failed"]
<1>4. act' = [act EXCEPT ![a] = step]
  BY <1>2 DEF Restarted
<1>5. act[a] = [at |-> act[a].at, payload |-> act[a].payload, next |-> act[a].next]
      /\ act[a].payload \in Payloads
  BY DEF RolloutInv, RolloutTypeOK
<1>6. Gateway \in Deployments
  BY NumStagesAssumption DEF Gateway, Deployments
<1>7. /\ step \in [at : Phases, payload : Payloads, next : Deployments]
      /\ step.at \in {"restart", "done", "failed"}
      /\ step.at = "restart" => ok /\ step.next = n + 1
      /\ step.at = "done" => ok /\ n = NumStages
  <2>1. CASE ~ok
    BY <1>6, <2>1, CatalogAssumption DEF Inactive, Phases
  <2>2. CASE ok /\ n = NumStages
    BY <1>1, <1>6, <2>2, CatalogAssumption DEF Inactive, Phases, Further
  <2>3. CASE ok /\ n # NumStages
    <3>1. step = [at |-> "restart", payload |-> act[a].payload, next |-> n + 1]
      BY <1>1, <1>5, <2>3 DEF Further
    <3>2. n + 1 \in Deployments
      BY <1>1, <2>3, NumStagesAssumption DEF Deployments
    <3> QED
      BY <1>5, <2>3, <3>1, <3>2 DEF Phases
  <2> QED
    BY <2>1, <2>2, <2>3
<1> HIDE DEF step
<1>8. /\ act' \in [Activations -> [at : Phases, payload : Payloads, next : Deployments]]
      /\ act'[a] = step
      /\ \A b \in Activations : b # a => act'[b] = act[b]
  BY <1>4, <1>7 DEF RolloutInv, RolloutTypeOK
<1>9. /\ DOMAIN deploy' = Deployments
      /\ deploy' = [d \in Deployments |->
                       [serving |-> deploy'[d].serving, pending |-> deploy'[d].pending]]
      /\ \A d \in Deployments : Follows(d) => Follows(d)'
      /\ took => Follows(n)'
  <2>1. CASE took
    <3>1. deploy' = [d \in Deployments |->
                [serving |-> deploy[d].serving,
                 pending |-> IF d = n THEN "init" ELSE deploy[d].pending]]
      BY <1>1, <1>2, <2>1 DEF RolloutInv, RolloutTypeOK
    <3>2. \A d \in Deployments :
              /\ deploy'[d].serving = deploy[d].serving
              /\ deploy'[d].pending = IF d = n THEN "init" ELSE deploy[d].pending
      BY <3>1
    <3>3. \A d \in Deployments : Follows(d) => Follows(d)'
      BY <1>3, <3>2 DEF Follows
    <3>4. Follows(n)'
      BY <1>1, <3>2 DEF Follows
    <3> QED
      BY <3>1, <3>3, <3>4
  <2>2. CASE ~took
    BY <1>2, <1>3, <2>2 DEF RolloutInv, RolloutTypeOK, Follows
  <2> QED
    BY <2>1, <2>2
<1>10. RolloutTypeOK'
  BY <1>3, <1>8, <1>9 DEF RolloutInv, RolloutTypeOK
<1>11. FollowSoFar'
  <2>1. ASSUME NEW b \in patcher, b # a
        PROVE  /\ act'[b].at \notin {"idle", "patch"}
               /\ act'[b].at = "restart" => \A d \in Deployments : d < act'[b].next => Follows(d)'
               /\ act'[b].at = "done" => \A d \in Deployments : Follows(d)'
    <3>1. b \in Activations /\ act'[b] = act[b]
      BY <1>8, <2>1 DEF RolloutInv, RolloutTypeOK
    <3> QED
      BY <1>9, <3>1 DEF RolloutInv, FollowSoFar
  <2>2. ASSUME a \in patcher
        PROVE  /\ act'[a].at \notin {"idle", "patch"}
               /\ act'[a].at = "restart" => \A d \in Deployments : d < act'[a].next => Follows(d)'
               /\ act'[a].at = "done" => \A d \in Deployments : Follows(d)'
    <3>1. \A d \in Deployments : d < n => Follows(d)'
      BY <1>1, <1>9, <2>2 DEF RolloutInv, FollowSoFar, RestartDeployment
    <3>2. ok => \A d \in Deployments : d <= n => Follows(d)'
      <4>1. \A d \in Deployments : d <= n => d < n \/ d = n
        BY <1>1, NumStagesAssumption DEF Deployments
      <4>2. ok => Follows(n)'
        BY <1>2, <1>9
      <4> QED
        BY <3>1, <4>1, <4>2
    <3>3. \A d \in Deployments : (d < n + 1 <=> d <= n) /\ d <= NumStages
      BY <1>1, NumStagesAssumption DEF Deployments
    <3> QED
      BY <1>7, <1>8, <3>2, <3>3
  <2> QED
    BY <1>3, <2>1, <2>2 DEF FollowSoFar
<1> QED
  BY <1>10, <1>11 DEF RolloutInv

(* The init containers only move on a pod that is still to come.           *)
LEMMA InitKeeps ==
    ASSUME RolloutInv, NEW d \in Deployments, deploy[d].pending = "init",
           deploy' = [deploy EXCEPT ![d].pending = "start"],
           UNCHANGED <<config, act, patcher>>
    PROVE  RolloutInv'
<1> DEFINE pod == [serving |-> deploy[d].serving, pending |-> "start"]
<1>1. deploy' = [deploy EXCEPT ![d] = pod]
  <2>1. deploy[d] = [serving |-> deploy[d].serving, pending |-> deploy[d].pending]
    BY DEF RolloutInv, RolloutTypeOK
  <2>2. [deploy[d] EXCEPT !.pending = "start"] = pod
    BY <2>1
  <2> QED
    BY <2>2
<1>2. pod.pending # "none"
  OBVIOUS
<1> QED
  BY <1>1, <1>2, FollowsStill

(* A pod that becomes ready has read the config map as it is now.          *)
LEMMA StartKeeps ==
    ASSUME RolloutInv, NEW d \in Deployments, StartContainer(d)
    PROVE  RolloutInv'
<1> DEFINE pod == [serving |-> Pod(d), pending |-> "none"]
<1>1. deploy' = [deploy EXCEPT ![d] = pod] /\ UNCHANGED <<config, act, patcher>>
  BY DEF StartContainer
<1>2. pod.serving.map = config
  BY DEF Pod
<1> QED
  BY <1>1, <1>2, FollowsStill

(* A container that ends has its pod start it again, or has one to come.   *)
LEMMA CrashKeeps ==
    ASSUME RolloutInv, NEW d \in Deployments, Crash(d)
    PROVE  RolloutInv'
<1> DEFINE pod == [serving |-> NoPod,
                   pending |-> IF deploy[d].pending = "none" THEN "start" ELSE deploy[d].pending]
<1>1. deploy' = [deploy EXCEPT ![d] = pod] /\ UNCHANGED <<config, act, patcher>>
  BY DEF Crash, RolloutInv, RolloutTypeOK
<1>2. pod.pending # "none"
  OBVIOUS
<1> QED
  BY <1>1, <1>2, FollowsStill

LEMMA StepFollows == RolloutInv /\ [RolloutNext]_rolloutVars => RolloutInv'
<1> SUFFICES ASSUME RolloutInv, [RolloutNext]_rolloutVars PROVE RolloutInv'
  OBVIOUS
<1>1. Stages \subseteq Deployments /\ Gateway \in Deployments
  BY NumStagesAssumption DEF Stages, Deployments, Gateway
<1>2. ASSUME NEW a \in Activations, Request(a) PROVE RolloutInv'
  BY <1>2, RequestKeeps
<1>3. ASSUME NEW a \in Activations, PatchConfigMap(a) PROVE RolloutInv'
  BY <1>3, PatchKeeps
<1>4. ASSUME NEW a \in Activations, RestartDeployment(a) PROVE RolloutInv'
  BY <1>4, RestartKeeps
<1>5. ASSUME InitGateway PROVE RolloutInv'
  BY <1>1, <1>5, InitKeeps DEF InitGateway
<1>6. ASSUME NEW k \in Stages, InitStage(k) PROVE RolloutInv'
  BY <1>1, <1>6, InitKeeps DEF InitStage
<1>7. ASSUME NEW d \in Deployments, StartContainer(d) PROVE RolloutInv'
  BY <1>7, StartKeeps
<1>8. ASSUME NEW d \in Deployments, Crash(d) PROVE RolloutInv'
  BY <1>8, CrashKeeps
<1>9. ASSUME UNCHANGED rolloutVars PROVE RolloutInv'
  BY <1>9 DEF rolloutVars, RolloutInv, RolloutTypeOK, FollowSoFar, Follows
<1> QED
  BY <1>2, <1>3, <1>4, <1>5, <1>6, <1>7, <1>8, <1>9 DEF RolloutNext

(* Whatever other activations have been doing before or do still, and      *)
(* however often containers end: after a completed one that no other has   *)
(* patched over, each pod serves under the payload of the config map or    *)
(* has one on the way that will.                                           *)
THEOREM PodsFollow == RolloutSpec => []PodsFollowConfig
<1>1. RolloutInv => PodsFollowConfig
  BY DEF RolloutInv, FollowSoFar, Follows, PodsFollowConfig, Activated
<1> QED
  BY <1>1, InitFollows, StepFollows, PTL DEF RolloutSpec

(* A shard file comes from the preparation of a payload of that many stages*)
Kept(x, k) == \E p \in AtRoot : k \in Ids(Parsed[p]) /\ x \in {Prepared(p, k), Cut(Prepared(p, k))}

(* A stage that serves has loaded one that fits what it has read.          *)
Fits(pod, k) ==
    pod.map \in Payloads => Kept(pod.shard, k) /\ Contents(pod.shard.part) = Contents(Item[pod.map][k])

ShardsFit ==
    /\ DOMAIN shards = Stages
    /\ \A k \in Stages : /\ shards[k] = NoShard \/ Kept(shards[k], k)
                         /\ Fits(deploy[k].serving, k)

LEMMA StagesAreDeployments == Stages \subseteq Deployments /\ Gateway \notin Stages /\ Gateway \in Deployments
BY NumStagesAssumption DEF Stages, Deployments, Gateway

LEMMA InitFits == RolloutInit => ShardsFit
<1> SUFFICES ASSUME RolloutInit PROVE ShardsFit
  OBVIOUS
<1>1. /\ DOMAIN shards = Stages
      /\ \A k \in Stages : shards[k] = NoShard /\ deploy[k].serving = NoPod
  BY StagesAreDeployments DEF RolloutInit
<1>2. NoPod.map \notin Payloads
  BY CatalogAssumption
<1> QED BY <1>1, <1>2 DEF ShardsFit, Fits

(* Steps that leave the files alone and no other pod to serve              *)
LEMMA FitsStill ==
    ASSUME ShardsFit, UNCHANGED shards, \A k \in Stages : deploy'[k].serving = deploy[k].serving
    PROVE  ShardsFit'
BY DEF ShardsFit

LEMMA PodGivesWay ==
    ASSUME RolloutInv, NEW d \in Deployments, NEW pod, pod.map \notin Payloads,
           NEW pending, deploy' = [deploy EXCEPT ![d] = [serving |-> pod, pending |-> pending]],
           ShardsFit, UNCHANGED shards
    PROVE  ShardsFit'
<1>1. ASSUME NEW k \in Stages PROVE Fits(deploy'[k].serving, k)
  <2>1. CASE k = d
    <3>1. deploy'[k].serving = pod
      BY <2>1 DEF RolloutInv, RolloutTypeOK
    <3> QED BY <3>1 DEF Fits
  <2>2. CASE k # d
    <3>1. deploy'[k].serving = deploy[k].serving
      BY <2>2, StagesAreDeployments DEF RolloutInv, RolloutTypeOK
    <3> QED BY <3>1 DEF ShardsFit
  <2> QED BY <2>1, <2>2
<1> QED BY <1>1 DEF ShardsFit

LEMMA InitStageFits ==
    ASSUME RolloutInv, ShardsFit, NEW k \in Stages, InitStage(k) PROVE ShardsFit'
<1>1. \A j \in Stages : deploy'[j].serving = deploy[j].serving
  <2>1. deploy' = [deploy EXCEPT ![k].pending = "start"] /\ k \in Deployments
    BY StagesAreDeployments DEF InitStage
  <2>2. ASSUME NEW j \in Deployments PROVE deploy'[j].serving = deploy[j].serving
    <3>1. deploy[j] = [serving |-> deploy[j].serving, pending |-> deploy[j].pending] /\ DOMAIN deploy = Deployments
      BY DEF RolloutInv, RolloutTypeOK
    <3>2. deploy'[j] = IF j = k THEN [deploy[k] EXCEPT !.pending = "start"] ELSE deploy[j]
      BY <2>1, <3>1
    <3> QED BY <3>1, <3>2
  <2> QED BY <2>2, StagesAreDeployments
<1>2. CASE UNCHANGED volumes
  BY <1>1, <1>2, FitsStill DEF volumes
<1>3. CASE ~UNCHANGED volumes
  <2>1. PICK shard \in Fetched(k) : /\ config \in AtRoot /\ k \in Ids(Parsed[config])
                                    /\ shards' = [shards EXCEPT ![k] = shard]
    BY <1>3 DEF InitStage
  <2>2. shard \in {Prepared(config, k), Cut(Prepared(config, k))}
    BY <2>1 DEF Fetched
  <2>3. Kept(shard, k)
    BY <2>1, <2>2 DEF Kept
  <2>4. DOMAIN shards' = Stages /\ \A j \in Stages : shards'[j] = IF j = k THEN shard ELSE shards[j]
    BY <2>1 DEF ShardsFit
  <2> QED BY <1>1, <2>3, <2>4 DEF ShardsFit
<1> QED BY <1>2, <1>3

LEMMA StartFits ==
    ASSUME RolloutInv, ShardsFit, NEW d \in Deployments, StartContainer(d) PROVE ShardsFit'
<1>1. /\ deploy' = [deploy EXCEPT ![d] = [serving |-> Pod(d), pending |-> "none"]]
      /\ UNCHANGED <<config, shards>>
  BY DEF StartContainer, volumes
<1>2. ASSUME NEW k \in Stages PROVE Fits(deploy'[k].serving, k)
  <2>1. CASE k = d
    <3>1. deploy'[k].serving = Pod(k)
      BY <1>1, <2>1 DEF RolloutInv, RolloutTypeOK
    <3>2. Pod(k).map = config /\ Pod(k).shard = shards[k]
      BY StagesAreDeployments DEF Pod
    <3>3. Loadable(shards[k], Item[config][k])
      BY <2>1, StagesAreDeployments DEF StartContainer, StageStarts
    <3>4. Contents(shards[k].part) = Contents(Item[config][k]) /\ shards[k] # NoShard
      BY <3>3 DEF Loadable, NoShard
    <3>5. Kept(shards[k], k)
      BY <3>4 DEF ShardsFit
    <3>6. PICK pod : pod = Pod(k)
      OBVIOUS
    <3>7. Fits(pod, k)
      BY <3>2, <3>4, <3>5, <3>6 DEF Fits
    <3> QED BY <3>1, <3>6, <3>7
  <2>2. CASE k # d
    <3>1. deploy'[k].serving = deploy[k].serving
      BY <1>1, <2>2, StagesAreDeployments DEF RolloutInv, RolloutTypeOK
    <3> QED BY <3>1 DEF ShardsFit
  <2> QED BY <2>1, <2>2
<1> QED BY <1>1, <1>2 DEF ShardsFit

LEMMA NextFits == RolloutInv /\ ShardsFit /\ [RolloutNext]_rolloutVars => ShardsFit'
<1> SUFFICES ASSUME RolloutInv, ShardsFit, [RolloutNext]_rolloutVars PROVE ShardsFit'
  OBVIOUS
<1>1. ASSUME NEW a \in Activations, Request(a) \/ PatchConfigMap(a) PROVE ShardsFit'
  BY <1>1, FitsStill DEF Request, PatchConfigMap, volumes
<1>2. ASSUME NEW d, NEW pending, deploy' = [deploy EXCEPT ![d].pending = pending]
      PROVE  \A k \in Stages : deploy'[k].serving = deploy[k].serving
  <2>1. ASSUME NEW k \in Deployments PROVE deploy'[k].serving = deploy[k].serving
    <3>1. deploy[k] = [serving |-> deploy[k].serving, pending |-> deploy[k].pending] /\ DOMAIN deploy = Deployments
      BY DEF RolloutInv, RolloutTypeOK
    <3>2. deploy'[k] = IF k = d THEN [deploy[k] EXCEPT !.pending = pending] ELSE deploy[k]
      BY <1>2, <3>1
    <3> QED BY <3>1, <3>2
  <2> QED BY <2>1, StagesAreDeployments
<1>3. ASSUME NEW a \in Activations, RestartDeployment(a) PROVE ShardsFit'
  <2>1. UNCHANGED shards
    BY <1>3 DEF RestartDeployment, volumes
  <2>2. deploy' = deploy \/ deploy' = [deploy EXCEPT ![act[a].next].pending = "init"]
    BY <1>3 DEF RestartDeployment
  <2> QED BY <1>2, <2>1, <2>2, FitsStill
<1>4. ASSUME InitGateway PROVE ShardsFit'
  BY <1>2, <1>4, FitsStill DEF InitGateway
<1>5. ASSUME NEW k \in Stages, InitStage(k) PROVE ShardsFit'
  BY <1>5, InitStageFits
<1>6. ASSUME NEW d \in Deployments, StartContainer(d) PROVE ShardsFit'
  BY <1>6, StartFits
<1>7. ASSUME NEW d \in Deployments, Crash(d) PROVE ShardsFit'
  <2>1. PICK pending : /\ deploy' = [deploy EXCEPT ![d] = [serving |-> NoPod, pending |-> pending]]
                       /\ UNCHANGED shards
    BY <1>7 DEF Crash, volumes
  <2>2. NoPod.map \notin Payloads
    BY CatalogAssumption
  <2> QED BY <2>1, <2>2, PodGivesWay
<1>8. CASE UNCHANGED rolloutVars
  BY <1>8, FitsStill DEF rolloutVars
<1> QED BY <1>1, <1>3, <1>4, <1>5, <1>6, <1>7, <1>8 DEF RolloutNext

(* A model with one tensor of a layer has the layer's others.              *)
LEMMA LayersAreComplete ==
    ASSUME NEW model, NEW i, NEW u \in TensorsOf(model), u \in Block(i)
    PROVE  Block(i) \subseteq TensorsOf(model)
<1>1. \/ \E x \in 0 .. model.blocks - 1 : u \in Block(x)
      \/ u \in {Embedding, Norm, Tensor("rope_freqs.weight", None), LmHead}
  BY DEF TensorsOf
<1>2. Tensor("rope_freqs.weight", None) \notin Block(i)
  BY DEF Tensor, Block
<1>3. i \in 0 .. model.blocks - 1
  BY <1>1, <1>2, NamesDiffer
<1> QED BY <1>3 DEF TensorsOf

LEMMA AssignedAre ==
    ASSUME NEW model, NEW part, ~Missing(TensorsOf(model), part)
    PROVE  /\ RequiredNames(part) \subseteq Assigned(TensorsOf(model), part)
           /\ \A layer \in ToSet(part.layers) : Block(layer) \subseteq Assigned(TensorsOf(model), part)
<1>1. RequiredNames(part) \subseteq Assigned(TensorsOf(model), part)
  BY DEF Missing, Assigned, Matches
<1>2. ASSUME NEW layer \in ToSet(part.layers) PROVE Block(layer) \subseteq Assigned(TensorsOf(model), part)
  <2>1. layer \in RequiredLayers(part)
    BY DEF RequiredLayers
  <2>2. PICK u \in TensorsOf(model) : u \in Block(layer)
    BY <2>1 DEF Missing, HasPrefix
  <2>3. Block(layer) \subseteq TensorsOf(model)
    BY <2>2, LayersAreComplete
  <2> QED BY <2>1, <2>3 DEF Assigned, Matches, HasPrefix
<1> QED BY <1>1, <1>2

------------------------------------------------------------------------------
(* What is read of the map of a payload                                    *)
LEMMA CatalogSplits ==
    ASSUME NEW p \in Payloads, NEW split, split = Catalog[p].split
    PROVE  /\ split \in Seq(Seq(Nat)) /\ Len(split) \in Nat \ {0}
           /\ FlattenSeq(split) = [i \in 1 .. Catalog[p].layers |-> i - 1]
<1>1. /\ split \in Seq(Seq(Nat)) /\ split # <<>>
      /\ FlattenSeq(split) = [i \in 1 .. Catalog[p].layers |-> i - 1]
  BY CatalogAssumption
<1> QED BY <1>1

LEMMA CatalogPartitions ==
    ASSUME NEW p \in Payloads, NEW split, split = Catalog[p].split,
           NEW k \in Ids(Parsed[p]), NEW part, part = PartitionOf(k, Parsed[p])
    PROVE  part = PartOf(Len(split), k, split[k]) /\ part \in Partitions(Parsed[p])
<1>1. split \in Seq(Seq(Nat))
  BY CatalogSplits
<1>2. Len(split) # 0
  BY CatalogSplits
<1>3. PICK read, slug, L : read = Parsed[p] /\ slug = Catalog[p].slug /\ L = Catalog[p].layers
  OBVIOUS
<1>4. read = ReadGateway(WrittenMap(slug, L, split))
  BY <1>3 DEF Parsed, Text
<1>5. Ids(read) = 1 .. Len(split)
  BY <1>1, <1>2, <1>4, ReadOfWritten
<1>6. read.partitions = PartsFor(split)
  BY <1>1, <1>2, <1>4, ReadOfWritten
<1>7. \A j \in 1 .. Len(split) : PartitionOf(j, read) = PartOf(Len(split), j, split[j])
  BY <1>1, <1>2, <1>4, ReadOfWritten
<1>8. k \in 1 .. Len(split)
  BY <1>3, <1>5
<1>9. part = PartOf(Len(split), k, split[k])
  BY <1>3, <1>7, <1>8
<1>10. k \in DOMAIN PartsFor(split) /\ PartsFor(split)[k] = part
  BY <1>1, <1>8, <1>9, PartsAre
<1>11. part \in Partitions(read)
  BY <1>6, <1>10 DEF Partitions, ToSet
<1> QED BY <1>3, <1>9, <1>11

LEMMA CatalogRoute ==
    ASSUME NEW p \in Payloads, NEW split, split = Catalog[p].split
    PROVE  GatewayRoute(Parsed[p].partitions, 1) = [i \in 1 .. Len(split) |-> i]
<1>1. split \in Seq(Seq(Nat))
  BY CatalogSplits
<1>2. Len(split) # 0
  BY CatalogSplits
<1>3. PICK read, slug, L : read = Parsed[p] /\ slug = Catalog[p].slug /\ L = Catalog[p].layers
  OBVIOUS
<1>4. read = ReadGateway(WrittenMap(slug, L, split))
  BY <1>3 DEF Parsed, Text
<1>5. read.partitions = PartsFor(split)
  BY <1>1, <1>2, <1>4, ReadOfWritten
<1> QED BY <1>1, <1>2, <1>3, <1>5, WalkIsInOrder

LEMMA CatalogItems ==
    ASSUME NEW p \in Payloads, NEW split, split = Catalog[p].split, NEW k \in Stages, k <= Len(split)
    PROVE  Contents(Item[p][k]) = Contents(PartOf(Len(split), k, split[k]))
<1>1. split \in Seq(Seq(Nat))
  BY CatalogSplits
<1>2. k \in 1 .. Len(split)
  BY <1>1, NumStagesAssumption DEF Stages
<1>3. Item[p][k] = ReadStage(WrittenMap(Catalog[p].slug, Catalog[p].layers, split), k)
  BY DEF Item, Text
<1>4. Item[p][k] = PartRead(k, Len(split), k, split[k])
  BY <1>1, <1>2, <1>3, StageReadsWhatIsWritten
<1> QED BY <1>4, StageContentsAre

(* A file that fits has the layers and the tensors of its stage.           *)
LEMMA FitHas ==
    ASSUME NEW p \in Payloads, NEW split, split = Catalog[p].split,
           NEW k \in Stages, k <= Len(split), NEW x, Kept(x, k),
           Contents(x.part) = Contents(Item[p][k])
    PROVE  /\ x.part.layers = split[k]
           /\ \A layer \in ToSet(x.part.layers) : Block(layer) \subseteq x.tensors
           /\ k = 1 => Embedding \in x.tensors
           /\ k = Len(split) => {Norm, LmHead} \subseteq x.tensors
<1>1. PICK q \in AtRoot : k \in Ids(Parsed[q]) /\ x \in {Prepared(q, k), Cut(Prepared(q, k))}
  BY DEF Kept
<1>2. PICK part, model : part = PartitionOf(k, Parsed[q]) /\ model = Catalog[q].model
  OBVIOUS
<1>3. PICK data : x = [part |-> part, tensors |-> Assigned(TensorsOf(model), part), data |-> data]
  BY <1>1, <1>2 DEF Prepared, Cut, Shard, Manifest
<1>4. ~Missing(TensorsOf(model), part)
  <2>1. q \in Payloads /\ ~ManifestRefused(Parsed[q], model)
    BY <1>2, CatalogAssumption
  <2>2. q \in Payloads
    BY <2>1
  <2>3. PICK there : there = Catalog[q].split
    OBVIOUS
  <2>4. part \in Partitions(Parsed[q])
    BY <1>1, <1>2, <2>2, <2>3, CatalogPartitions
  <2> QED BY <2>1, <2>4 DEF ManifestRefused
<1>5. PICK other : other = PartOf(Len(split), k, split[k])
  OBVIOUS
<1>6. Contents(part) = Contents(other)
  <2>1. x.part = part
    BY <1>3
  <2>2. Contents(Item[p][k]) = Contents(other)
    BY <1>5, CatalogItems
  <2> QED BY <2>1, <2>2
<1>7. /\ part.layers = other.layers /\ part.embedding = other.embedding
      /\ part.norm = other.norm /\ part.lm_head = other.lm_head
  BY <1>6 DEF Contents
<1>8. /\ other.layers = split[k]
      /\ other.embedding <=> k = 1
      /\ other.norm <=> k = Len(split)
      /\ other.lm_head <=> k = Len(split)
  BY <1>5, PartOfHas
<1>9. /\ RequiredNames(part) \subseteq x.tensors
      /\ \A layer \in ToSet(part.layers) : Block(layer) \subseteq x.tensors
      /\ x.part = part
  BY <1>3, <1>4, AssignedAre
<1>10. k = 1 => Embedding \in RequiredNames(part)
  BY <1>7, <1>8 DEF RequiredNames
<1>11. k = Len(split) => {Norm, LmHead} \subseteq RequiredNames(part)
  BY <1>7, <1>8 DEF RequiredNames
<1> QED BY <1>7, <1>8, <1>9, <1>10, <1>11

(* When the gateway and all stages serve under one payload, its walk finds *)
(* each layer once and in order, with its tensors, between embedding and   *)
(* head: whatever init containers had cached and whichever payloads were   *)
(* active when they did.                                                   *)
THEOREM ReadyPipelineAlwaysWhole == RolloutSpec => []ReadyPipelineIsWhole
<1>1. ASSUME ShardsFit PROVE ReadyPipelineIsWhole
  <2>1. ASSUME NEW p \in Payloads, \A d \in Deployments : deploy[d].serving.map = p,
               Len(Catalog[p].split) <= NumStages
        PROVE  LET route    == GatewayRoute(Parsed[p].partitions, 1)
                   Serves(i) == deploy[route[i]].serving.shard
               IN  /\ FlattenSeq([i \in DOMAIN route |-> Serves(i).part.layers])
                          = [i \in 1 .. Catalog[p].layers |-> i - 1]
                   /\ \A i \in DOMAIN route :
                          \A layer \in ToSet(Serves(i).part.layers) : Block(layer) \subseteq Serves(i).tensors
                   /\ Embedding \in Serves(1).tensors
                   /\ {Norm, LmHead} \subseteq Serves(Len(route)).tensors
    <3>1. PICK route : route = GatewayRoute(Parsed[p].partitions, 1)
      OBVIOUS
    <3>2. PICK s : s = [i \in DOMAIN route |-> deploy[route[i]].serving.shard]
      OBVIOUS
    <3>3. /\ FlattenSeq([i \in DOMAIN route |-> s[i].part.layers])
                 = [i \in 1 .. Catalog[p].layers |-> i - 1]
          /\ \A i \in DOMAIN route :
                 \A layer \in ToSet(s[i].part.layers) : Block(layer) \subseteq s[i].tensors
          /\ Embedding \in s[1].tensors
          /\ {Norm, LmHead} \subseteq s[Len(route)].tensors
      <4>1. PICK split : split = Catalog[p].split
        OBVIOUS
      <4>2. /\ split \in Seq(Seq(Nat)) /\ Len(split) \in Nat \ {0} /\ Len(split) <= NumStages
            /\ FlattenSeq(split) = [i \in 1 .. Catalog[p].layers |-> i - 1]
            /\ route = [i \in 1 .. Len(split) |-> i]
        BY <2>1, <3>1, <3>2, <4>1, CatalogSplits, CatalogRoute
      <4>3. ASSUME NEW k \in 1 .. Len(split)
            PROVE  /\ s[k].part.layers = split[k]
                   /\ \A layer \in ToSet(s[k].part.layers) : Block(layer) \subseteq s[k].tensors
                   /\ k = 1 => Embedding \in s[k].tensors
                   /\ k = Len(split) => {Norm, LmHead} \subseteq s[k].tensors
        <5>1. k \in Stages /\ k <= Len(split)
          BY <4>2, NumStagesAssumption DEF Stages
        <5>2. s[k] = deploy[k].serving.shard
          BY <2>1, <3>1, <3>2, <4>2
        <5>3. PICK pod : pod = deploy[k].serving
          OBVIOUS
        <5>4. pod.map = p /\ Fits(pod, k)
          BY <1>1, <2>1, <3>1, <3>2, <5>1, <5>3, StagesAreDeployments DEF ShardsFit
        <5>5. Kept(pod.shard, k) /\ Contents(pod.shard.part) = Contents(Item[p][k]) /\ s[k] = pod.shard
          BY <2>1, <3>1, <3>2, <5>2, <5>3, <5>4 DEF Fits
        <5>6. PICK x : x = pod.shard
          OBVIOUS
        <5>7. Kept(x, k) /\ Contents(x.part) = Contents(Item[p][k]) /\ s[k] = x
          BY <5>5, <5>6
        <5>8. /\ x.part.layers = split[k]
              /\ \A layer \in ToSet(x.part.layers) : Block(layer) \subseteq x.tensors
              /\ k = 1 => Embedding \in x.tensors
              /\ k = Len(split) => {Norm, LmHead} \subseteq x.tensors
          BY <4>1, <5>1, <5>7, FitHas
        <5> QED BY <5>7, <5>8
      <4>4. DOMAIN route = 1 .. Len(split) /\ Len(route) = Len(split)
        <5>1. route \in Seq(Nat)
          BY <4>2
        <5> QED BY <4>2, <5>1
      <4>5. [i \in DOMAIN route |-> s[i].part.layers] = split
        <5>1. split = [i \in 1 .. Len(split) |-> split[i]]
          BY <4>2
        <5>2. [i \in DOMAIN route |-> s[i].part.layers] = [i \in 1 .. Len(split) |-> split[i]]
          BY <4>3, <4>4
        <5> QED BY <5>1, <5>2
      <4>6. 1 \in 1 .. Len(split) /\ Len(split) \in 1 .. Len(split)
        BY <4>2
      <4> QED BY <4>2, <4>3, <4>4, <4>5, <4>6
    <3>4. 1 \in DOMAIN route /\ Len(route) \in DOMAIN route
      <4>1. PICK split : split = Catalog[p].split
        OBVIOUS
      <4>2. route = [i \in 1 .. Len(split) |-> i] /\ Len(split) \in Nat \ {0}
        BY <3>1, <4>1, CatalogSplits, CatalogRoute
      <4>3. route \in Seq(Nat)
        BY <4>2
      <4> QED BY <4>2, <4>3
    <3>5. [i \in DOMAIN route |-> s[i].part.layers] =
              [i \in DOMAIN route |-> deploy[route[i]].serving.shard.part.layers]
      BY <3>2
    <3>6. \A i \in DOMAIN route : s[i] = deploy[route[i]].serving.shard
      BY <3>2
    <3> QED BY <3>1, <3>3, <3>4, <3>5, <3>6
  <2> QED BY <2>1, Zenon DEF ReadyPipelineIsWhole
<1>2. RolloutInit => RolloutInv /\ ShardsFit
  BY InitFollows, InitFits
<1>3. RolloutInv /\ ShardsFit /\ [RolloutNext]_rolloutVars => (RolloutInv /\ ShardsFit)'
  BY StepFollows, NextFits
<1> QED BY <1>1, <1>2, <1>3, PTL DEF RolloutSpec
=============================================================================
