----------------------- MODULE TerraformDeployProofs -----------------------
(***************************************************************************)
(* What the module promises, for any number of versions, zips, changes and *)
(* failed downloads: of the code, and with Deployment of the environment.  *)
(***************************************************************************)
EXTENDS Deployment, TLAPS

\* Damaged zips are possible only if all applies run on one host.
OneHostIfDamaging == Damaging => \A g, h \in Hosts : g = h

\* What the release cache of a host may hold for a version.
CachedZips(v) == {Absent, Damaged} \cup {ReleaseZip(r, v) : r \in Repositories}

Shape ==
    /\ artifact \in Artifacts
    /\ repository \in Repositories
    /\ content \in [Zips -> Contents]
    /\ phase \in {"idle", "fetch", "function"}
    /\ host \in Hosts
    /\ DOMAIN cache = Hosts
    /\ \A h \in Hosts : /\ DOMAIN cache[h] = Versions
                        /\ \A v \in Versions : cache[h][v] \in CachedZips(v)

\* A download that is recorded as done left an undamaged zip.
RecordedIsClean ==
    fetched # Null /\ ~fetched.tainted =>
        \A h \in Hosts : fetched.triggers.release_version \in Versions =>
            cache[h][fetched.triggers.release_version] # Damaged

NoDamage == ~Damaging => \A h \in Hosts, v \in Versions : cache[h][v] # Damaged

\* So the file that is about to be deployed is clean, and there is one.
ReadyIsClean ==
    phase = "function" =>
        /\ use_release_asset => cache[host][artifact.release_version] # Damaged
        /\ ~use_release_asset => use_local_zip

Clean ==
    /\ Shape
    /\ RecordedIsClean
    /\ NoDamage
    /\ ReadyIsClean
    /\ phase = "fetch" => use_release_asset
    /\ DamagedNeverRuns

----------------------------------------------------------------------------
\* A version in use is one of the versions.
LEMMA VersionInUse ==
    ASSUME artifact \in Artifacts, use_release_asset
    PROVE  artifact.release_version \in Versions
BY DEF Artifacts, use_release_asset

LEMMA ZipInUse ==
    ASSUME artifact \in Artifacts, use_local_zip
    PROVE  artifact.lambda_zip_path \in Zips
BY DEF Artifacts, use_local_zip

\* The kinds of code are different.
LEMMA ZipsDiffer ==
    /\ \A r, v : ReleaseZip(r, v) # Damaged
    /\ \A z : LocalZip(z) # Damaged
    /\ Absent # Damaged
BY DEF ReleaseZip, LocalZip, Damaged, Absent

\* Putting a zip of its kind into the cache keeps the shape.
LEMMA CacheKeepsShape ==
    ASSUME Shape, NEW v \in Versions, v = artifact.release_version,
           NEW zip \in CachedZips(v), Cached(zip)
    PROVE  /\ DOMAIN cache' = Hosts
           /\ \A h \in Hosts : /\ DOMAIN cache'[h] = Versions
                               /\ \A w \in Versions : cache'[h][w] \in CachedZips(w)
           /\ cache'[host][v] = zip
           /\ \A h \in Hosts, w \in Versions :
                 cache'[h][w] = IF h = host /\ w = v THEN zip ELSE cache[h][w]
BY DEF Shape, Cached

LEMMA CleanInductive ==
    ASSUME OneHostIfDamaging
    PROVE  Clean /\ [Next]_vars => Clean'
<1> SUFFICES ASSUME Clean, [Next]_vars
             PROVE  Clean'
    OBVIOUS
<1> USE DeployAssumption DEF Clean
<1>1. ASSUME NEW h \in Hosts, StartApply(h)
      PROVE  Clean'
    <2> USE <1>1 DEF StartApply
    <2>1. Shape'
        BY DEF Shape
    <2>2. RecordedIsClean'
        <3>1. CASE fetched' = fetched
            BY <3>1 DEF RecordedIsClean
        <3>2. CASE fetched' = Null
            BY <3>2 DEF RecordedIsClean
        <3> QED
            BY <3>1, <3>2
    <2>3. NoDamage' /\ DamagedNeverRuns'
        BY DEF NoDamage, DamagedNeverRuns
    <2>4. ReadyIsClean'
        <3>1. CASE use_release_asset /\ phase' = "function"
            <4>1. artifact.release_version \in Versions
                BY <3>1, VersionInUse DEF Shape
            <4>2. fetched # Null /\ ~fetched.tainted /\ fetched.triggers = Triggers
                BY <3>1 DEF FetchNeeded
            <4>3. fetched.triggers.release_version = artifact.release_version
                BY <4>2 DEF Triggers
            <4> QED
                BY <4>1, <4>2, <4>3, <3>1 DEF ReadyIsClean, RecordedIsClean, use_release_asset
        <3>2. CASE ~use_release_asset /\ phase' = "function"
            BY <3>2 DEF ReadyIsClean, FilenameFails, use_release_asset, use_local_zip
        <3> QED
            BY <3>1, <3>2 DEF ReadyIsClean
    <2>5. (phase = "fetch" => use_release_asset)'
        BY DEF FetchNeeded, use_release_asset
    <2> QED
        BY <2>1, <2>2, <2>3, <2>4, <2>5
<1>2. CASE FetchRelease
    <2> DEFINE v == artifact.release_version
               zip == ReleaseZip(repository, v)
    <2>1. v \in Versions /\ zip \in CachedZips(v) /\ zip # Damaged
        BY <1>2, VersionInUse, ZipsDiffer DEF FetchRelease, Shape, CachedZips
    <2>2. /\ Cached(zip)
          /\ fetched' = [triggers |-> Triggers, tainted |-> FALSE]
          /\ phase' = "function"
          /\ UNCHANGED <<artifact, repository, content, host, result, function, code, asked, changes>>
        BY <1>2 DEF FetchRelease
    <2> HIDE DEF v, zip
    <2>3. /\ DOMAIN cache' = Hosts
          /\ \A h \in Hosts : /\ DOMAIN cache'[h] = Versions
                              /\ \A w \in Versions : cache'[h][w] \in CachedZips(w)
          /\ cache'[host][v] = zip
          /\ \A h \in Hosts, w \in Versions :
                cache'[h][w] = IF h = host /\ w = v THEN zip ELSE cache[h][w]
        BY <2>1, <2>2, CacheKeepsShape DEF v
    <2>4. Shape'
        BY <2>2, <2>3 DEF Shape, CachedZips, ReleaseZip, Absent, Damaged
    <2>5. NoDamage'
        <3>1. ASSUME ~Damaging, NEW h \in Hosts, NEW w \in Versions
              PROVE  cache'[h][w] # Damaged
            <4>1. cache[h][w] # Damaged
                BY <3>1 DEF NoDamage
            <4> QED
                BY <2>1, <2>3, <4>1
        <3>2. Damaged' = Damaged
            BY DEF Damaged
        <3> QED
            BY <3>1, <3>2 DEF NoDamage
    <2>6. \A h \in Hosts : cache'[h][v] # Damaged
        BY <2>1, <2>3 DEF NoDamage, OneHostIfDamaging, Shape
    <2>7. RecordedIsClean'
        BY <2>2, <2>6 DEF RecordedIsClean, Triggers, v, Damaged
    <2>8. ReadyIsClean'
        BY <1>2, <2>2, <2>6 DEF ReadyIsClean, FetchRelease, Shape, use_release_asset, v, Damaged
    <2> QED
        BY <2>2, <2>4, <2>5, <2>7, <2>8 DEF DamagedNeverRuns, Damaged
<1>3. CASE FetchFails
    <2> DEFINE v == artifact.release_version
    <2>1. v \in Versions /\ Damaged \in CachedZips(v)
        BY <1>3, VersionInUse DEF FetchFails, Shape, CachedZips
    <2>2. /\ fetched'.tainted
          /\ phase' = "idle"
          /\ UNCHANGED <<artifact, repository, content, host, code>>
        BY <1>3 DEF FetchFails
    <2>3. (Damaging /\ Cached(Damaged)) \/ UNCHANGED cache
        BY <1>3 DEF FetchFails
    <2> HIDE DEF v
    <2>4. Shape' /\ NoDamage'
        <3>1. CASE UNCHANGED cache
            BY <2>2, <3>1 DEF Shape, NoDamage, CachedZips, ReleaseZip, Absent, Damaged
        <3>2. CASE Damaging /\ Cached(Damaged)
            <4>1. /\ DOMAIN cache' = Hosts
                  /\ \A h \in Hosts : /\ DOMAIN cache'[h] = Versions
                                      /\ \A w \in Versions : cache'[h][w] \in CachedZips(w)
                BY <2>1, <3>2, CacheKeepsShape DEF v
            <4> QED
                BY <2>2, <3>2, <4>1 DEF Shape, NoDamage, CachedZips, ReleaseZip, Absent, Damaged
        <3> QED
            BY <2>3, <3>1, <3>2
    <2> QED
        BY <2>2, <2>4 DEF RecordedIsClean, ReadyIsClean, DamagedNeverRuns, Damaged
<1>4. CASE UpdateFunction
    <2>1. /\ code' = FileContent(host)
          /\ phase = "function" /\ phase' = "idle"
          /\ UNCHANGED <<artifact, repository, content, host, cache, fetched>>
        BY <1>4 DEF UpdateFunction
    <2>2. FileContent(host) # Damaged
        BY <2>1, ZipsDiffer DEF FileContent, ReadyIsClean
    <2> QED
        BY <2>1, <2>2
        DEF Shape, RecordedIsClean, NoDamage, ReadyIsClean, DamagedNeverRuns, Damaged,
            CachedZips, ReleaseZip, Absent
<1>5. CASE KeepFunction \/ FileMissing
    BY <1>5 DEF KeepFunction, FileMissing, resources, Shape, RecordedIsClean, NoDamage,
                ReadyIsClean, DamagedNeverRuns, Damaged, CachedZips, ReleaseZip, Absent
<1>6. ASSUME Change,
             artifact' \in Artifacts, repository' \in Repositories,
             content' \in [Zips -> Contents],
             cache' = cache, code' = code \/ code' = Absent
      PROVE  Clean'
    BY <1>6, ZipsDiffer
    DEF Change, Shape, RecordedIsClean, NoDamage, ReadyIsClean, DamagedNeverRuns,
        Damaged, CachedZips, ReleaseZip, Absent
<1>7. CASE Configure
    BY <1>6, <1>7 DEF Configure, Change, Shape
<1>8. CASE FunctionDeleted
    BY <1>6, <1>8 DEF FunctionDeleted, Change, Shape
<1>9. ASSUME NEW z \in Zips, ReplaceZip(z)
      PROVE  Clean'
    BY <1>6, <1>9 DEF ReplaceZip, Change, Shape
<1>10. ASSUME NEW h \in Hosts, CacheRemoved(h)
       PROVE  Clean'
    <2>1. /\ Change
          /\ UNCHANGED <<artifact, repository, content, code>>
          /\ \A g \in Hosts, v \in Versions :
                cache'[g][v] = IF g = h THEN Absent ELSE cache[g][v]
          /\ DOMAIN cache' = Hosts
          /\ \A g \in Hosts : DOMAIN cache'[g] = Versions
        BY <1>10 DEF CacheRemoved, Shape
    <2>2. Shape' /\ RecordedIsClean' /\ NoDamage'
        BY <2>1, ZipsDiffer DEF Change, Shape, RecordedIsClean, NoDamage, Damaged,
                                CachedZips, ReleaseZip, Absent
    <2> QED
        BY <2>1, <2>2 DEF Change, ReadyIsClean, DamagedNeverRuns, Damaged
<1>11. CASE UNCHANGED vars
    BY <1>11 DEF vars, apply, resources, Shape, RecordedIsClean, NoDamage, ReadyIsClean,
                 DamagedNeverRuns, Damaged, CachedZips, ReleaseZip, Absent,
                 use_release_asset, use_local_zip
<1> QED
    BY <1>1, <1>2, <1>3, <1>4, <1>5, <1>7, <1>8, <1>9, <1>10, <1>11 DEF Next

\* A function deployed from one host never runs a zip that failed its checksum,
\* through any sequence of failed downloads and changes of the variables.
THEOREM OneHostStaysClean ==
    ASSUME OneHostIfDamaging
    PROVE  Spec => []DamagedNeverRuns
<1>1. Init => Clean
    BY ZipsDiffer
    DEF Init, Clean, Shape, RecordedIsClean, NoDamage, ReadyIsClean, DamagedNeverRuns,
        CachedZips
<1>2. Clean => DamagedNeverRuns
    BY DEF Clean
<1> QED
    BY <1>1, <1>2, CleanInductive, PTL DEF Spec

----------------------------------------------------------------------------
(* What a file name says of the code behind it, and what it does not.      *)

\* What a name of a file stands for.
Cover(name) ==
    {ReleaseZip(r, v) : r \in Repositories,
                        v \in {w \in Versions : name = <<"cached", w>>}}
    \cup {<<"local", z, c>> : c \in Contents,
                              z \in {y \in Zips : name = <<"local", y>>}}

\* The function runs code that its recorded file name stands for, and that an
\* apply once asked for.
CodeHasItsName ==
    function # Null => code \in Cover(function.filename) \cap asked

\* A zip is in a cache only because an apply has asked for it.
CacheIsAsked ==
    \A h \in Hosts, v \in Versions :
        cache[h][v] \in {Absent, Damaged} \/ cache[h][v] \in asked

\* During an apply, what the variables ask for has been noted.
WantedIsAsked == phase # "idle" => Wanted \in asked /\ result = "none"

Faithful ==
    Clean /\ CodeHasItsName /\ CacheIsAsked /\ WantedIsAsked /\ AppliedMeansDeployed

\* The code a name stands for is told apart from what the variables ask for by
\* neither the name nor the hash.
LEMMA CoverHasSameName ==
    ASSUME Shape, phase = "function", ReadyIsClean, NEW c \in Cover(lambda_filename)
    PROVE  SameName(c, Wanted)
<1>1. CASE use_release_asset
    <2>1. lambda_filename = <<"cached", artifact.release_version>>
          /\ Wanted = ReleaseZip(repository, artifact.release_version)
        BY <1>1 DEF lambda_filename, Wanted
    <2>2. \E r \in Repositories : c = ReleaseZip(r, artifact.release_version)
        BY <2>1 DEF Cover
    <2> QED
        BY <2>1, <2>2 DEF SameName, ReleaseZip
<1>2. CASE ~use_release_asset
    <2>1. lambda_filename = <<"local", artifact.lambda_zip_path>>
          /\ Wanted = LocalZip(artifact.lambda_zip_path)
        BY <1>2 DEF lambda_filename, Wanted, ReadyIsClean
    <2>2. \E d \in Contents : c = <<"local", artifact.lambda_zip_path, d>>
        BY <2>1 DEF Cover
    <2> QED
        BY <2>1, <2>2 DEF SameName, LocalZip
<1> QED
    BY <1>1, <1>2

\* A file that is ready to be deployed has been asked for, under its name.
LEMMA ReadyIsAsked ==
    ASSUME Faithful, phase = "function", FileContent(host) # Absent
    PROVE  FileContent(host) \in Cover(lambda_filename) \cap asked
<1>1. CASE use_release_asset
    <2> DEFINE v == artifact.release_version
    <2>1. v \in Versions
        BY <1>1, VersionInUse DEF Faithful, Clean, Shape
    <2>2. FileContent(host) = cache[host][v] /\ lambda_filename = <<"cached", v>>
        BY <1>1 DEF FileContent, lambda_filename
    <2>3. cache[host][v] # Damaged /\ cache[host][v] # Absent
        BY <1>1, <2>2 DEF Faithful, Clean, ReadyIsClean
    <2>4. PICK r \in Repositories : cache[host][v] = ReleaseZip(r, v)
        BY <2>1, <2>3 DEF Faithful, Clean, Shape, CachedZips
    <2>5. cache[host][v] \in asked
        BY <2>1, <2>3 DEF Faithful, Clean, Shape, CacheIsAsked
    <2> QED
        BY <2>1, <2>2, <2>4, <2>5 DEF Cover
<1>2. CASE ~use_release_asset
    <2>1. use_local_zip
        BY <1>2 DEF Faithful, Clean, ReadyIsClean
    <2>2. artifact.lambda_zip_path \in Zips
        BY <2>1, ZipInUse DEF Faithful, Clean, Shape
    <2>3. /\ FileContent(host) = LocalZip(artifact.lambda_zip_path)
          /\ Wanted = LocalZip(artifact.lambda_zip_path)
          /\ lambda_filename = <<"local", artifact.lambda_zip_path>>
        BY <1>2, <2>1 DEF FileContent, Wanted, lambda_filename
    <2>4. Wanted \in asked
        BY DEF Faithful, WantedIsAsked
    <2>5. content[artifact.lambda_zip_path] \in Contents
        BY <2>2 DEF Faithful, Clean, Shape
    <2> QED
        BY <2>2, <2>3, <2>4, <2>5 DEF Cover, LocalZip
<1> QED
    BY <1>1, <1>2

\* What is in use by an apply does not change under it.
LEMMA WantedKept ==
    ASSUME UNCHANGED <<artifact, repository, content>>
    PROVE  UNCHANGED Wanted /\ UNCHANGED lambda_filename
BY DEF Wanted, lambda_filename, use_release_asset, use_local_zip, ReleaseZip, LocalZip

\* A cache that gained nothing but what was asked for.
LEMMA CacheStaysAsked ==
    ASSUME Faithful, asked \subseteq asked',
           \A h \in Hosts, v \in Versions :
               cache'[h][v] \in {cache[h][v], Absent, Damaged} \cup asked
    PROVE  CacheIsAsked'
BY DEF Faithful, CacheIsAsked, Absent, Damaged

\* Steps that leave the function alone and end no apply well.
LEMMA FaithfulKept ==
    ASSUME Faithful, Clean', CacheIsAsked', WantedIsAsked',
           asked \subseteq asked', result' # "ok",
           function' = Null \/ UNCHANGED <<function, code>>
    PROVE  Faithful'
<1>1. CodeHasItsName'
    BY DEF Faithful, CodeHasItsName, Cover, ReleaseZip
<1> QED
    BY <1>1 DEF Faithful, AppliedMeansDeployed

\* A change between applies.
LEMMA FaithfulChange ==
    ASSUME Faithful, Clean', Change,
           \A h \in Hosts, v \in Versions : cache'[h][v] \in {cache[h][v], Absent},
           function' = Null \/ UNCHANGED <<function, code>>
    PROVE  Faithful'
<1>1. phase' = "idle" /\ asked' = asked /\ result' # "ok"
    BY DEF Change
<1>2. CacheIsAsked'
    BY <1>1, CacheStaysAsked
<1> QED
    BY <1>1, <1>2, FaithfulKept DEF WantedIsAsked

LEMMA FaithfulInductive ==
    ASSUME OneHostIfDamaging
    PROVE  Faithful /\ [Next]_vars => Faithful'
<1> SUFFICES ASSUME Faithful, [Next]_vars
             PROVE  Faithful'
    OBVIOUS
<1>1. Clean /\ Clean'
    BY CleanInductive DEF Faithful
<1>2. ASSUME NEW h \in Hosts, StartApply(h)
      PROVE  Faithful'
    <2>1. /\ UNCHANGED <<artifact, repository, content, cache, function, code>>
          /\ result' # "ok" /\ asked \subseteq asked'
          /\ phase' # "idle" => Wanted \in asked' /\ result' = "none"
        BY <1>2 DEF StartApply
    <2>2. CacheIsAsked'
        BY <2>1, CacheStaysAsked
    <2>3. WantedIsAsked'
        BY <2>1, WantedKept DEF WantedIsAsked
    <2> QED
        BY <1>1, <2>1, <2>2, <2>3, FaithfulKept
<1>3. CASE FetchRelease
    <2> DEFINE v == artifact.release_version
               zip == ReleaseZip(repository, v)
    <2>1. /\ Cached(zip) /\ phase = "fetch"
          /\ UNCHANGED <<artifact, repository, content, result, function, code, asked>>
        BY <1>3 DEF FetchRelease
    <2>2. v \in Versions /\ zip \in CachedZips(v) /\ zip = Wanted
        BY <1>1, <2>1, VersionInUse DEF Clean, Shape, CachedZips, Wanted
    <2>3. zip \in asked /\ result = "none"
        BY <2>1, <2>2 DEF Faithful, WantedIsAsked
    <2> HIDE DEF v, zip
    <2>4. \A h \in Hosts, w \in Versions :
              cache'[h][w] = IF h = host /\ w = v THEN zip ELSE cache[h][w]
        BY <1>1, <2>1, <2>2, CacheKeepsShape DEF Clean, v
    <2>5. CacheIsAsked'
        BY <2>1, <2>3, <2>4, CacheStaysAsked
    <2>6. WantedIsAsked'
        BY <2>1, <2>2, <2>3, WantedKept DEF WantedIsAsked
    <2> QED
        BY <1>1, <2>1, <2>3, <2>5, <2>6, FaithfulKept
<1>4. CASE FetchFails
    <2>1. /\ phase' = "idle" /\ result' # "ok"
          /\ UNCHANGED <<artifact, function, code, asked>>
          /\ Cached(Damaged) \/ UNCHANGED cache
        BY <1>4 DEF FetchFails
    <2>2. CacheIsAsked'
        <3>1. \A h \in Hosts, w \in Versions : cache'[h][w] \in {cache[h][w], Damaged}
            <4>1. artifact.release_version \in Versions
                BY <1>1, <1>4, VersionInUse DEF Clean, Shape, FetchFails
            <4>2. CASE Cached(Damaged)
                BY <1>1, <4>1, <4>2, CacheKeepsShape DEF Clean, CachedZips
            <4> QED
                BY <2>1, <4>2
        <3> QED
            BY <2>1, <3>1, CacheStaysAsked
    <2> QED
        BY <1>1, <2>1, <2>2, FaithfulKept DEF WantedIsAsked
<1>5. CASE UpdateFunction
    <2>1. /\ FileContent(host) # Absent /\ phase = "function" /\ phase' = "idle"
          /\ code' = FileContent(host) /\ function'.filename = lambda_filename
          /\ UNCHANGED <<artifact, repository, content, cache, asked>>
        BY <1>5 DEF UpdateFunction
    <2>2. code' \in Cover(lambda_filename) \cap asked
        BY <2>1, ReadyIsAsked
    <2>3. SameName(code', Wanted)
        BY <1>1, <2>1, <2>2, CoverHasSameName DEF Clean
    <2>4. AppliedMeansDeployed'
        BY <2>1, <2>2, <2>3, WantedKept DEF AppliedMeansDeployed, SameName
    <2>5. CodeHasItsName'
        BY <2>1, <2>2 DEF CodeHasItsName, Cover, ReleaseZip
    <2> QED
        BY <1>1, <2>1, <2>4, <2>5, CacheStaysAsked DEF Faithful, WantedIsAsked
<1>6. CASE KeepFunction
    <2>1. /\ phase = "function" /\ phase' = "idle"
          /\ function # Null /\ function.filename = lambda_filename
          /\ UNCHANGED <<artifact, repository, content, cache, function, code, asked>>
        BY <1>6 DEF KeepFunction, CodeChanges, resources
    <2>2. code \in Cover(lambda_filename) \cap asked
        BY <2>1 DEF Faithful, CodeHasItsName
    <2>3. SameName(code, Wanted)
        BY <1>1, <2>1, <2>2, CoverHasSameName DEF Clean
    <2>4. AppliedMeansDeployed'
        BY <2>1, <2>2, <2>3, WantedKept DEF AppliedMeansDeployed, SameName
    <2>5. CodeHasItsName'
        BY <2>1, <2>2 DEF CodeHasItsName, Cover, ReleaseZip
    <2> QED
        BY <1>1, <2>1, <2>4, <2>5, CacheStaysAsked DEF Faithful, WantedIsAsked
<1>7. CASE FileMissing
    <2>1. /\ phase' = "idle" /\ result' # "ok"
          /\ UNCHANGED <<artifact, function, code, cache, asked>>
        BY <1>7 DEF FileMissing, resources
    <2> QED
        BY <1>1, <2>1, CacheStaysAsked, FaithfulKept DEF WantedIsAsked
<1>8. CASE Configure \/ FunctionDeleted
    BY <1>1, <1>8, FaithfulChange DEF Configure, FunctionDeleted
<1>9. ASSUME NEW z \in Zips, ReplaceZip(z)
      PROVE  Faithful'
    BY <1>1, <1>9, FaithfulChange DEF ReplaceZip
<1>10. ASSUME NEW h \in Hosts, CacheRemoved(h)
       PROVE  Faithful'
    <2>1. \A g \in Hosts, v \in Versions : cache'[g][v] \in {cache[g][v], Absent}
        BY <1>1, <1>10 DEF CacheRemoved, Clean, Shape
    <2> QED
        BY <1>1, <1>10, <2>1, FaithfulChange DEF CacheRemoved
<1>11. CASE UNCHANGED vars
    <2>1. /\ UNCHANGED <<artifact, repository, content, phase, result, cache>>
          /\ UNCHANGED <<function, code, asked>>
        BY <1>11 DEF vars, apply, resources
    <2>2. CodeHasItsName'
        BY <2>1 DEF Faithful, CodeHasItsName, Cover, ReleaseZip
    <2>3. AppliedMeansDeployed' /\ WantedIsAsked'
        BY <2>1, WantedKept DEF Faithful, AppliedMeansDeployed, SameName, WantedIsAsked
    <2> QED
        BY <1>1, <2>1, <2>2, <2>3, CacheStaysAsked DEF Faithful
<1> QED
    BY <1>2, <1>3, <1>4, <1>5, <1>6, <1>7, <1>8, <1>9, <1>10, <1>11 DEF Next

\* After an apply that succeeds the function runs code of the version or the path
\* that the variables ask for, as an apply has asked for it: through failed
\* downloads, repositories that change under a version and zips under a path,
\* caches that are behind on another host, and a deleted function.
THEOREM AppliedWasAsked ==
    ASSUME OneHostIfDamaging
    PROVE  Spec => []AppliedMeansDeployed
<1>1. Init => Faithful
    BY ZipsDiffer
    DEF Init, Faithful, Clean, Shape, RecordedIsClean, NoDamage, ReadyIsClean,
        DamagedNeverRuns, CachedZips, CodeHasItsName, CacheIsAsked, WantedIsAsked,
        AppliedMeansDeployed
<1>2. Faithful => AppliedMeansDeployed
    BY DEF Faithful
<1> QED
    BY <1>1, <1>2, FaithfulInductive, PTL DEF Spec

----------------------------------------------------------------------------
(* Deployment: the environment                                             *)

\* What every step keeps of the variables, and what an apply that succeeded
\* leaves in the environment.
Provisioned ==
    /\ artifact \in Artifacts /\ Accepted(artifact)
    /\ repository \in Repositories
    /\ inputs \in Inputs
    /\ result = "ok" => function # Null /\ environment = inputs

\* An apply ends with "ok" only where it leaves a function behind.
LEMMA AppliedHasFunction ==
    ASSUME Provisioned, UpdateFunction \/ KeepFunction
    PROVE  function' # Null
<1>1. CASE UpdateFunction
    <2>1. lambda_filename \in ({"cached"} \X Versions) \cup ({"local"} \X (Zips \cup {Null}))
        BY DEF Provisioned, Artifacts, lambda_filename, use_release_asset
    <2>2. lambda_source_code_hash \in Versions \cup {Null}
        BY DEF Provisioned, Artifacts, lambda_source_code_hash
    <2> QED
        BY <1>1, <2>1, <2>2, DeploymentAssumption DEF UpdateFunction
<1>2. CASE KeepFunction
    BY <1>2 DEF KeepFunction, CodeChanges, resources
<1> QED
    BY <1>1, <1>2

LEMMA ProvisionedInductive ==
    ASSUME Provisioned, [DeploymentNext]_deployment
    PROVE  Provisioned'
<1>1. CASE ApplyOrChange
    <2>1. inputs' = inputs
          /\ environment' = IF function' = Null THEN Null
                            ELSE IF phase = "function" /\ result' = "ok" THEN inputs
                            ELSE environment
        BY <1>1 DEF ApplyOrChange
    <2>2. CASE UpdateFunction \/ KeepFunction
        <3>1. function' # Null
            BY <2>2, AppliedHasFunction
        <3>2. phase = "function" /\ UNCHANGED <<artifact, repository>>
            BY <2>2 DEF UpdateFunction, KeepFunction
        <3> QED
            BY <2>1, <3>1, <3>2 DEF Provisioned
    <2>3. CASE \E h \in Hosts : StartApply(h)
        <3>1. result' # "ok" /\ UNCHANGED <<artifact, repository>>
            BY <2>3 DEF StartApply
        <3> QED
            BY <2>1, <3>1 DEF Provisioned
    <2>4. CASE FetchRelease
        BY <2>1, <2>4 DEF FetchRelease, Provisioned
    <2>5. CASE FetchFails \/ FileMissing
        BY <2>1, <2>5 DEF FetchFails, FileMissing, Provisioned
    <2>6. CASE Configure
        BY <2>1, <2>6 DEF Configure, Change, Provisioned
    <2>7. CASE FunctionDeleted \/ (\E z \in Zips : ReplaceZip(z))
               \/ \E h \in Hosts : CacheRemoved(h)
        <3>1. result' # "ok" /\ UNCHANGED <<artifact, repository>>
            BY <2>7 DEF FunctionDeleted, ReplaceZip, CacheRemoved, Change
        <3> QED
            BY <2>1, <3>1 DEF Provisioned
    <2> QED
        BY <1>1, <2>2, <2>3, <2>4, <2>5, <2>6, <2>7 DEF ApplyOrChange, Next
<1>2. CASE ConfigureBroker
    BY <1>2 DEF ConfigureBroker, Change, Provisioned
<1>3. CASE EditEnvironment
    BY <1>3 DEF EditEnvironment, Change, Provisioned
<1>4. CASE UNCHANGED deployment
    BY <1>4 DEF deployment, vars, apply, resources, Provisioned
<1> QED
    BY <1>1, <1>2, <1>3, <1>4 DEF DeploymentNext

LEMMA ProvisionedHolds ==
    DeploymentSpec => []Provisioned
<1>1. DeploymentInit => Provisioned
    BY DEF DeploymentInit, Init, Provisioned
<1> QED
    BY <1>1, ProvisionedInductive, PTL DEF DeploymentSpec

----------------------------------------------------------------------------
\* What Terraform's conditions let through, Load's patterns let through after it
\* has trimmed it.
LEMMA ValidatedTextsMatch ==
    /\ \A text : NameIsLiteral(text) => githubLiteralNamePattern(TrimSpace(text))
    /\ \A text : PathIsLiteral(text) => ssmParameterPathPattern(envOrDefault(text))
<1>1. ASSUME NEW text, NameIsLiteral(text)
      PROVE  githubLiteralNamePattern(TrimSpace(text))
    BY <1>1 DEF NameIsLiteral, githubLiteralNamePattern, TrimSpace, Text
<1>2. ASSUME NEW text, PathIsLiteral(text)
      PROVE  ssmParameterPathPattern(envOrDefault(text))
    <2>1. ssmParameterPathPattern(TrimSpace(text))
        BY <1>2 DEF PathIsLiteral, ssmParameterPathPattern, TrimSpace, Text
    <2>2. ssmParameterPathPattern(DefaultPath)
        BY DEF ssmParameterPathPattern, DefaultPath, Text
    <2> QED
        BY <2>1, <2>2 DEF envOrDefault
<1> QED
    BY <1>1, <1>2

\* So are the permissions: what is not blank to Terraform is not empty to Load.
LEMMA ValidatedPermissionsUsable ==
    ASSUME NEW e, Deployed(e)
    PROVE  PermissionsUsable(loadPermissions(e.permissions))
BY DEF Deployed, PermissionsNamed, PermissionsUsable, loadPermissions

LEMMA ValidatedLoads ==
    ASSUME NEW e \in Inputs
    PROVE  /\ Load(e) # Refused
           /\ e.url \in {Blank, DefaultURL} => Serves(e)
<1>1. e \in Environments /\ Deployed(e)
    BY DEF Inputs
<1>2. \A p \in Parameters : ssmParameterPathPattern(Loaded(e).params[p])
    BY <1>1, ValidatedTextsMatch DEF Deployed, Loaded
<1>3. \A n \in Names : githubLiteralNamePattern(Loaded(e).names[n])
    BY <1>1, ValidatedTextsMatch DEF Deployed, Loaded
<1>4. PermissionsUsable(Loaded(e).permissions)
    BY <1>1, ValidatedPermissionsUsable DEF Loaded
<1>5. Load(e) = Loaded(e) /\ Load(e) # Refused
    BY <1>1, <1>2, <1>3, <1>4, DeploymentAssumption DEF Load, Valid, Deployed
<1>6. ASSUME e.url \in {Blank, DefaultURL}
      PROVE  Serves(e)
    <2>1. Load(e).url = DefaultURL
        BY <1>5, <1>6 DEF Loaded, BaseURL
    <2>2. Secure(DefaultURL)
        BY DeploymentAssumption DEF Secure, DefaultURL
    <2> QED
        BY <1>5, <2>1, <2>2 DEF Serves
<1> QED
    BY <1>5, <1>6

\* Whatever the variables were before, whoever edited the environment: after an
\* apply that succeeded, the function has an environment that loads, and that it
\* serves with if the base URL is the default.
THEOREM AppliesLoad ==
    DeploymentSpec => []ValidatedDeploymentLoads
<1>1. Provisioned => ValidatedDeploymentLoads
    <2> SUFFICES ASSUME Provisioned, result = "ok"
                 PROVE  /\ environment # Null
                        /\ Load(environment) # Refused
                        /\ environment.url \in {Blank, DefaultURL} => Serves(environment)
        BY DEF ValidatedDeploymentLoads
    <2>1. environment \in Inputs
        BY DEF Provisioned
    <2>2. environment # Null
        BY <2>1, DeploymentAssumption DEF Inputs
    <2> QED
        BY <2>1, <2>2, ValidatedLoads
<1> QED
    BY <1>1, ProvisionedHolds, PTL
=============================================================================
