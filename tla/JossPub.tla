------------------------------- MODULE JossPub -------------------------------
(***************************************************************************)
(* The package manager behind `joss pub` (src/cmd/joss/pub_cli.go): what   *)
(* the processes of one project do to the files they share.  The manifest  *)
(* joss.yaml, the lock file, the directory plugins/<name>/<version> and    *)
(* the cache of downloads have no lock of their own: every command reads   *)
(* and rewrites them in several steps, any number of commands may run at   *)
(* once, and each may be killed between two steps.                         *)
(*                                                                         *)
(* A package is a pair <<name, version>>.  A file of the cache is the set  *)
(* of its blocks that are on the disk, an installed plugin the set of its  *)
(* parts: the manifest "yaml" that lists what it needs, and its "code".    *)
(* A .jp is one file and is there as a whole or not; os.RemoveAll removes  *)
(* entry by entry and the directory last.                                  *)
(***************************************************************************)
EXTENDS Naturals, FiniteSets

CONSTANTS Procs,        \* the processes that may run a command, numbered
          Names,        \* names of packages
          Versions,     \* their versions, Latest among them
          Latest,       \* "latest": what a GitHub release installs
          No,           \* no version: the name is not among the dependencies
          None,         \* no file, no directory, no package
          Jps, Zips,    \* the packages published as a .jp and as a .zip
          Legacy,       \* the .jp of the first format, with no signature
          Needs,        \* the dependencies in the manifest of each package
          Sealed,       \* the packages whose checksum the registry knows
          Commands,     \* the commands a process may be asked for
          Initially,    \* what the manifest may ask for at first
          MaxCommands, MaxTroubles   \* bounds

VARIABLES manifest,  \* joss.yaml
          lock,      \* joss.lock
          plugins,   \* plugins/<name>/<version>: None or its parts
          cache,     \* the file of a package in the cache: None or its blocks
          tmp,       \* the same for its download, <file>.tmp
          proc,      \* what each process is doing
          left,      \* how much of every bound is left
          cut        \* the plugins that were left in pieces (history)

pubVars == <<manifest, lock, plugins, cache, tmp, proc, left, cut>>

Ids    == Jps \union Zips
Blocks == 1 .. 2
Parts  == {"yaml", "code"}

NoDeps == [n \in Names |-> No]
Dependencies == [Names -> Versions \union {No}]

\* A package has a name and a version, asks for such packages, and is published
\* in one way; None is no set of parts and no package.
ASSUME PubAssumption ==
    /\ IsFiniteSet(Names) /\ Latest \in Versions /\ No \notin Versions
    /\ \A s \in SUBSET Parts : s # None
    /\ Ids \subseteq Names \X Versions /\ Jps \intersect Zips = {} /\ Legacy \subseteq Jps
    /\ Needs \in [Ids -> Dependencies] /\ Initially \subseteq Dependencies
    /\ \A c \in Commands :
         /\ c.op \in {"add", "remove", "install", "offline", "clean"}
         /\ c.op \in {"add", "remove"} => c.id \in Names \X Versions
    /\ MaxCommands \in Nat /\ MaxTroubles \in Nat

\* The identifiers a manifest asks for, without ^ and ~.
Asked(deps) == {<<n, deps[n]>> : n \in {m \in Names : deps[m] # No}}

\* joss.yaml: absent, truncated, or with a list of dependencies.
NoFile  == [there |-> FALSE, text |-> FALSE, deps |-> NoDeps]
Blank   == [there |-> TRUE,  text |-> FALSE, deps |-> NoDeps]
Text(d) == [there |-> TRUE,  text |-> TRUE,  deps |-> d]

Idle == [pc |-> "idle", op |-> "none", alone |-> TRUE, id |-> None, sum |-> FALSE, got |-> 0,
         fd |-> "closed", staged |-> "no", damaged |-> FALSE, dirs |-> {}, todo |-> {},
         part |-> "none", back |-> "none",
         roots |-> {}, queue |-> {}, visited |-> {},
         deps |-> NoDeps, read |-> NoFile, hash |-> NoFile]

Active == {p \in Procs : proc[p].pc # "idle"}

\* Something goes wrong: a process is killed or a request fails.
Trouble == left.troubles > 0 /\ left' = [left EXCEPT !.troubles = @ - 1]

\* The fields of r, and those of s that r does not have.
Merged(r, s) == [k \in DOMAIN r \union DOMAIN s |-> IF k \in DOMAIN r THEN r[k] ELSE s[k]]

\* Process p goes on with the fields of r changed.
Goes(p, r) == proc' = [proc EXCEPT ![p] = Merged(r, @)]

\* The command of process p is over.
Ends(p) == proc' = [proc EXCEPT ![p] = Idle]

PubInit ==
    /\ manifest \in {NoFile} \union {Text(d) : d \in Initially}
    /\ lock = None
    /\ plugins = [id \in Ids |-> None]
    /\ cache = [id \in Ids |-> None]
    /\ tmp = [id \in Ids |-> None]
    /\ proc = [p \in Procs |-> Idle]
    /\ left = [commands |-> MaxCommands, troubles |-> MaxTroubles]
    /\ cut = {}

-----------------------------------------------------------------------------
(* Commands, and processes that are killed.                                *)

\* The commands under way do not run alone any more (history).
Accompanied == [p \in Procs |-> IF p \in Active THEN [proc[p] EXCEPT !.alone = FALSE]
                                ELSE proc[p]]

\* handlePubCli: p starts command c.  Processes are alike: the first that is
\* idle takes the command.
Begin(p, c) ==
    /\ proc[p].pc = "idle"
    /\ \A q \in Procs : q < p => q \in Active
    /\ left.commands > 0
    /\ left' = [left EXCEPT !.commands = @ - 1]
    /\ LET first == CASE c.op = "add"    -> [pc |-> "ask", id |-> c.id]
                      [] c.op = "remove" -> [pc |-> "delete", id |-> c.id]
                      [] c.op = "clean"  -> [pc |-> "clean"]
                      [] OTHER           -> [pc |-> "manifest"]
       IN proc' = [Accompanied EXCEPT ![p] =
                     Merged(Merged(first, [op |-> c.op, alone |-> Active = {}]), @)]
    /\ UNCHANGED <<manifest, lock, plugins, cache, tmp, cut>>

Extracting(p) == proc[p].pc \in {"open", "fill"}
Removing(p) == proc[p].pc = "unlink"
Extracted(id) == \E p \in Procs : Extracting(p) /\ proc[p].id = id
Removed(id) == \E p \in Procs : Removing(p) /\ proc[p].id = id

\* Who was at the plugin `id` leaves it as it is now, in pieces or not (history).
Leaves(id) == cut' = IF plugins'[id] \in {None, Parts} THEN cut ELSE cut \union {id}

\* Process p is killed.  Its temporary directory and its download stay.
Crash(p) ==
    /\ proc[p].pc # "idle"
    /\ Trouble
    /\ Ends(p)
    /\ UNCHANGED <<manifest, lock, plugins, cache, tmp>>
    /\ IF Extracting(p) \/ Removing(p) THEN Leaves(proc[p].id) ELSE UNCHANGED cut

-----------------------------------------------------------------------------
(* downloadAndExtract: the cache, the download and the check of its hash.  *)
(* A process writes to a file, not to a path: fd says where the file it    *)
(* has open is now, which a rename or a removal by another one changes.    *)

Whole(file) == file = Blocks

\* The file of p's package leaves `from` for `to`, under every open handle.
Moved(id, from, to) ==
    [q \in Procs |-> IF proc[q].id = id /\ proc[q].fd = from
                     THEN [proc[q] EXCEPT !.fd = to] ELSE proc[q]]

\* What a download of p returns to: the next step of its caller.
Returns(p, ok) ==
    CASE ok -> [pc |-> IF proc[p].op = "add" THEN "edit" ELSE proc[p].back]
      [] ~ok /\ proc[p].op = "add" /\ proc[p].id[2] # Latest -> [pc |-> "github"]
      [] OTHER -> Idle

\* pubAdd: the registry is asked for the package; without it, GitHub is tried.
Ask(p) ==
    /\ proc[p].pc = "ask"
    /\ \/ /\ proc[p].id \in Ids
          /\ Goes(p, [pc |-> "lookup", sum |-> proc[p].id \in Sealed])
          /\ UNCHANGED left
       \/ /\ proc[p].id \notin Ids
          /\ Goes(p, [pc |-> "github"])
          /\ UNCHANGED left
       \/ /\ Trouble
          /\ Goes(p, [pc |-> "github"])
    /\ UNCHANGED <<manifest, lock, plugins, cache, tmp, cut>>

\* installFromGitHubRepo: the release is downloaded with no checksum.
GitHub(p) ==
    /\ proc[p].pc = "github"
    /\ LET id == <<proc[p].id[1], Latest>> IN
         IF id \in Jps THEN Goes(p, [pc |-> "lookup", id |-> id, sum |-> FALSE])
         ELSE Ends(p)
    /\ UNCHANGED <<manifest, lock, plugins, cache, tmp, left, cut>>

\* A cached file is used when its checksum is known and right, else removed.
Lookup(p) ==
    LET id == proc[p].id IN
    /\ proc[p].pc = "lookup"
    /\ IF cache[id] = None THEN Goes(p, [pc |-> "get"]) /\ UNCHANGED cache
       ELSE IF proc[p].sum /\ Whole(cache[id])
       THEN Goes(p, [pc |-> "unpack"]) /\ UNCHANGED cache
       ELSE /\ proc' = [Moved(id, "cache", "gone") EXCEPT ![p].pc = "get"]
            /\ cache' = [cache EXCEPT ![id] = None]
    /\ UNCHANGED <<manifest, lock, plugins, tmp, left, cut>>

\* The request, and os.Create of the temporary file, which truncates it.
Get(p) ==
    LET id == proc[p].id IN
    /\ proc[p].pc = "get"
    /\ \/ /\ tmp' = [tmp EXCEPT ![id] = {}]
          /\ Goes(p, [pc |-> "copy", got |-> 0, fd |-> "tmp"])
          /\ UNCHANGED left
       \/ /\ Trouble
          /\ Goes(p, Returns(p, FALSE))
          /\ UNCHANGED tmp
    /\ UNCHANGED <<manifest, lock, plugins, cache, cut>>

\* io.Copy writes the next block into the file that p has open.
Copy(p) ==
    LET id == proc[p].id
        block == proc[p].got + 1
        Put(files, where) ==
            IF proc[p].fd = where THEN [files EXCEPT ![id] = @ \union {block}] ELSE files
    IN
    /\ proc[p].pc = "copy"
    /\ block \in Blocks
    /\ tmp' = Put(tmp, "tmp")
    /\ cache' = Put(cache, "cache")
    /\ Goes(p, [got |-> block, pc |-> IF block + 1 \in Blocks THEN "copy" ELSE "verify"])
    /\ UNCHANGED <<manifest, lock, plugins, left, cut>>

\* The path of the temporary file is removed and the download fails.
Drops(p) ==
    LET id == proc[p].id IN
    /\ tmp' = [tmp EXCEPT ![id] = None]
    /\ proc' = [Moved(id, "tmp", "gone") EXCEPT
                  ![p] = Merged(Returns(p, FALSE), [proc[p] EXCEPT !.fd = "closed"])]

\* The connection fails half-way.
Broken(p) ==
    /\ proc[p].pc = "copy"
    /\ Trouble
    /\ Drops(p)
    /\ UNCHANGED <<manifest, lock, plugins, cache, cut>>

\* verifyFileSHA256 opens the path again: it may be another file by now.
Verify(p) ==
    LET id == proc[p].id IN
    /\ proc[p].pc = "verify"
    /\ IF proc[p].sum /\ ~Whole(tmp[id]) THEN Drops(p)
       ELSE Goes(p, [pc |-> "rename", fd |-> "closed"]) /\ UNCHANGED tmp
    /\ UNCHANGED <<manifest, lock, plugins, cache, left, cut>>

\* os.Rename of whatever is at the temporary path now; its error is ignored.
Rename(p) ==
    LET id == proc[p].id
        away == Moved(id, "cache", "gone")
    IN
    /\ proc[p].pc = "rename"
    /\ IF tmp[id] = None
       THEN Goes(p, [pc |-> "unpack"]) /\ UNCHANGED <<tmp, cache>>
       ELSE /\ cache' = [cache EXCEPT ![id] = tmp[id]]
            /\ tmp' = [tmp EXCEPT ![id] = None]
            /\ proc' = [[q \in Procs |->
                           IF proc[q].id = id /\ proc[q].fd = "tmp"
                           THEN [proc[q] EXCEPT !.fd = "cache"] ELSE away[q]]
                        EXCEPT ![p].pc = "unpack"]
    /\ UNCHANGED <<manifest, lock, plugins, left, cut>>

-----------------------------------------------------------------------------
(* installJPFile and extractPluginZip.                                     *)

\* What is looked at before anything is written: a .jp is verified as a whole,
\* of a ZIP only the directory at its end is read, and one of the first format
\* is decoded and not verified: with a hole in it, it may pass.
Valid(p) ==
    LET id == proc[p].id IN
    /\ cache[id] # None
    /\ Whole(cache[id]) \/ (id \in Zips \union Legacy /\ 2 \in cache[id])

\* MUTANT: every archive is extracted in place.
UnpackInPlace(p) ==
    LET id == proc[p].id IN
    /\ proc[p].pc = "unpack" /\ Valid(p)
    /\ Goes(p, [pc |-> "open", todo |-> Parts, damaged |-> ~Whole(cache[id])])
    /\ plugins' = [plugins EXCEPT ![id] = IF @ = None THEN {} ELSE @]
    /\ UNCHANGED <<manifest, lock, cache, tmp, left, cut>>

\* The archive is read; a .jp is written to a directory of the process, a
\* ZIP is extracted in place.
Unpack(p) ==
    LET id == proc[p].id
        whole == Whole(cache[id])
    IN
    /\ proc[p].pc = "unpack"
    /\ \/ /\ Goes(p, Returns(p, FALSE))
          /\ Trouble \/ (~whole /\ UNCHANGED left)
          /\ UNCHANGED plugins
       \/ /\ Valid(p) /\ id \in Jps
          /\ Goes(p, [pc |-> "replace", staged |-> IF whole THEN "whole" ELSE "damaged"])
          /\ UNCHANGED <<plugins, left>>
       \/ /\ Valid(p) /\ id \notin Jps
          /\ Goes(p, [pc |-> "open", todo |-> Parts, damaged |-> ~whole])
          /\ plugins' = [plugins EXCEPT ![id] = IF @ = None THEN {} ELSE @]
          /\ UNCHANGED left
    /\ UNCHANGED <<manifest, lock, cache, tmp, cut>>

\* What there is to remove of a directory.
Entries(id) == IF plugins[id] = None THEN {} ELSE plugins[id]
\* The entry that `part` is in.
EntryOf(id, part) == IF id \in Jps THEN Parts ELSE {part}

\* os.RemoveAll of the directory the plugin goes to begins: it is listed...
Replace(p) ==
    /\ proc[p].pc = "replace"
    /\ Goes(p, [pc |-> "unlink", todo |-> Entries(proc[p].id)])
    /\ UNCHANGED <<manifest, lock, plugins, cache, tmp, left, cut>>

\* ...what was listed is removed, or cannot be, one entry after the other...
UnlinkEntry(p, part) ==
    LET id == proc[p].id
        entry == EntryOf(id, part)
    IN
    /\ proc[p].pc = "unlink" /\ part \in proc[p].todo
    /\ \/ plugins' = [plugins EXCEPT ![id] = IF @ = None THEN None ELSE @ \ entry] /\ UNCHANGED left
       \/ Trouble /\ UNCHANGED plugins
    /\ Goes(p, [todo |-> proc[p].todo \ entry])
    /\ UNCHANGED <<manifest, lock, cache, tmp, cut>>

\* What follows a removal: `joss pub remove` goes on whatever came of it.
AfterRemoval(p, ok) ==
    CASE proc[p].op = "remove"       -> [pc |-> "next"]
      [] proc[p].op # "remove" /\ ok -> [pc |-> "place"]
      [] OTHER -> Merged([staged |-> "no"], Returns(p, FALSE))

\* ...and then the directory, unless something is in it again, be it a file that
\* is not complete.
RemoveDir(p) ==
    LET id == proc[p].id IN
    /\ proc[p].pc = "unlink" /\ proc[p].todo = {}
    /\ \/ /\ plugins[id] \in {None, {}}
          /\ plugins' = [plugins EXCEPT ![id] = None]
          /\ cut' = IF Extracted(id) THEN cut \union {id} ELSE cut
          /\ Goes(p, AfterRemoval(p, TRUE))
          /\ UNCHANGED left
       \/ /\ plugins[id] # None
          /\ \/ Trouble
             \/ /\ plugins[id] # {} \/ Extracted(id) \/ id \in Zips \intersect cut
                /\ UNCHANGED left
          /\ Goes(p, AfterRemoval(p, FALSE))
          /\ UNCHANGED plugins /\ Leaves(id)
    /\ UNCHANGED <<manifest, lock, cache, tmp>>

\* What a directory of a process holds.
Prepared(staged) ==
    CASE staged = "whole" -> Parts [] staged = "damaged" -> {"code"} [] OTHER -> {}

\* os.Rename of the temporary directory: it fails when the directory is there
\* again, or when the temporary one was removed with the rest of the plugin.
Place(p) ==
    LET id == proc[p].id
        staged == proc[p].staged
    IN
    /\ proc[p].pc = "place"
    /\ \/ /\ plugins[id] = None /\ staged # "no"
          /\ plugins' = [plugins EXCEPT ![id] = Prepared(staged)]
          /\ cut' = IF staged = "whole" THEN cut \ {id} ELSE cut \union {id}
          /\ Goes(p, Merged([staged |-> "no"], Returns(p, TRUE)))
          /\ UNCHANGED left
       \/ /\ \/ Trouble
             \/ (plugins[id] # None \/ staged = "no") /\ UNCHANGED left
          /\ Goes(p, Merged([staged |-> "no"], Returns(p, FALSE)))
          /\ UNCHANGED <<plugins, cut>>
    /\ UNCHANGED <<manifest, lock, cache, tmp>>

\* One entry of a ZIP: its file is created or truncated...
Open(p, part) ==
    LET id == proc[p].id IN
    /\ proc[p].pc = "open"
    /\ part \in proc[p].todo
    /\ plugins' = [plugins EXCEPT ![id] = IF @ = None THEN {} ELSE @ \ {part}]
    /\ Goes(p, [pc |-> "fill", todo |-> proc[p].todo \ {part}, part |-> part])
    /\ UNCHANGED <<manifest, lock, cache, tmp, left, cut>>

\* ...and written.  A file that was removed meanwhile is lost.
Fill(p) ==
    LET id == proc[p].id IN
    /\ proc[p].pc = "fill"
    /\ plugins' \in {[plugins EXCEPT ![id] = IF @ = None THEN None ELSE @ \union {proc[p].part}]}
                    \union IF Removed(id) \/ id \in cut THEN {plugins} ELSE {}
    /\ Goes(p, IF proc[p].todo = {} THEN Returns(p, TRUE) ELSE [pc |-> "open"])
    /\ UNCHANGED <<manifest, lock, cache, tmp, left, cut>>

\* The disk is full, or the archive has not all of the entry: the extraction
\* ends there and what it has written stays.
ExtractionFails(p) ==
    /\ Extracting(p)
    /\ Trouble \/ (proc[p].pc = "fill" /\ proc[p].damaged /\ UNCHANGED left)
    /\ Goes(p, Returns(p, FALSE))
    /\ UNCHANGED <<manifest, lock, plugins, cache, tmp>>
    /\ Leaves(proc[p].id)

-----------------------------------------------------------------------------
(* pubInstall and installTransitiveDependencies.                           *)

\* The manifest is read; without dependencies the command is over.
ReadManifest(p) ==
    /\ proc[p].pc = "manifest"
    /\ IF Asked(manifest.deps) = {} THEN Ends(p)
       ELSE Goes(p, [pc |-> "roots", deps |-> manifest.deps,
                     roots |-> Asked(manifest.deps), queue |-> Asked(manifest.deps)])
    /\ UNCHANGED <<manifest, lock, plugins, cache, tmp, left, cut>>

\* resolvePackageDownload of `id` and its download, which go back to `back`;
\* r is what the loop that asks for it has changed.
Resolve(p, id, back, r) ==
    \/ /\ proc[p].op = "install" /\ id \in Ids
       /\ Goes(p, Merged(r, [pc |-> "lookup", id |-> id, sum |-> id \in Sealed, back |-> back]))
       /\ UNCHANGED left
    \/ /\ proc[p].op = "offline" \/ id \notin Ids
       /\ Ends(p)
       /\ UNCHANGED left
    \/ /\ proc[p].op = "install" /\ Trouble
       /\ Ends(p)

Installed(id) == id \in Ids /\ plugins[id] # None
\* Its manifest can be read: never that of a .jp of the first format.
Readable(id) ==
    /\ Installed(id) /\ "yaml" \in plugins[id]
    /\ id \in Jps => id \notin Legacy /\ plugins[id] = Parts

\* The loop over the dependencies of the manifest, in the order of a Go map.
Root(p, id) ==
    /\ proc[p].pc = "roots"
    /\ id \in proc[p].roots
    /\ LET taken == [roots |-> proc[p].roots \ {id}] IN
         IF Installed(id) THEN Goes(p, taken) /\ UNCHANGED left
         ELSE Resolve(p, id, "roots", taken)
    /\ UNCHANGED <<manifest, lock, plugins, cache, tmp, cut>>

RootsDone(p) ==
    /\ proc[p].pc = "roots" /\ proc[p].roots = {}
    /\ Goes(p, [pc |-> "queue"])
    /\ UNCHANGED <<manifest, lock, plugins, cache, tmp, left, cut>>

\* The next package of the queue, unless it was visited before.
Visit(p, id) ==
    /\ proc[p].pc = "queue"
    /\ id \in proc[p].queue
    /\ LET taken == [queue |-> proc[p].queue \ {id}, visited |-> proc[p].visited \union {id}] IN
         CASE id \in proc[p].visited -> Goes(p, taken) /\ UNCHANGED left
           [] id \notin proc[p].visited /\ Installed(id) ->
                Goes(p, Merged(taken, [pc |-> "needs", id |-> id])) /\ UNCHANGED left
           [] OTHER -> Resolve(p, id, "needs", taken)
    /\ UNCHANGED <<manifest, lock, plugins, cache, tmp, cut>>

\* MUTANT: what a dependency needs is not looked at.
ReadNeedsShallow(p) ==
    /\ proc[p].pc = "needs"
    /\ Goes(p, [pc |-> "queue"])
    /\ UNCHANGED <<manifest, lock, plugins, cache, tmp, left, cut>>

\* Its manifest is read and its dependencies join the queue.
ReadNeeds(p) ==
    LET id == proc[p].id IN
    /\ proc[p].pc = "needs"
    /\ IF Readable(id)
       THEN Goes(p, [pc |-> "queue", queue |-> proc[p].queue \union Asked(Needs[id])])
       ELSE Ends(p)
    /\ UNCHANGED <<manifest, lock, plugins, cache, tmp, left, cut>>

QueueDone(p) ==
    /\ proc[p].pc = "queue" /\ proc[p].queue = {}
    /\ Goes(p, [pc |-> "hash"])
    /\ UNCHANGED <<manifest, lock, plugins, cache, tmp, left, cut>>

-----------------------------------------------------------------------------
(* updateJossYamlDependency, removeJossYamlDependency, pubRemove.          *)

\* os.RemoveAll of plugins/<name> begins: its directories are listed...
Delete(p) ==
    LET n == proc[p].id[1] IN
    /\ proc[p].pc = "delete"
    /\ Goes(p, [pc |-> "next", dirs |-> {id \in Ids : id[1] = n /\ plugins[id] # None}])
    /\ UNCHANGED <<manifest, lock, plugins, cache, tmp, left, cut>>

\* ...and removed in turn; its errors are only told.
NextDir(p) ==
    /\ proc[p].pc = "next"
    /\ \/ proc[p].dirs = {} /\ Goes(p, [pc |-> "edit"])
       \/ \E id \in proc[p].dirs :
            Goes(p, [pc |-> "unlink", id |-> id, dirs |-> proc[p].dirs \ {id},
                     todo |-> Entries(id)])
    /\ UNCHANGED <<manifest, lock, plugins, cache, tmp, left, cut>>

\* So is what process q prepares beside them: first its file, then the directory.
Unstage(p, q) ==
    /\ proc[p].op = "remove" /\ proc[p].pc \in {"next", "unlink"}
    /\ proc[q].staged # "no" /\ proc[q].id[1] = proc[p].id[1]
    /\ proc' = [proc EXCEPT ![q].staged = IF @ = "empty" THEN "no" ELSE "empty"]
    /\ UNCHANGED <<manifest, lock, plugins, cache, tmp, left, cut>>

\* The manifest is read (add writes the template first when there is none).
EditRead(p) ==
    /\ proc[p].pc = "edit"
    /\ CASE manifest.there ->
              Goes(p, [pc |-> "truncate", read |-> manifest]) /\ UNCHANGED manifest
         [] ~manifest.there /\ proc[p].op = "add" ->
              /\ manifest' = Text(NoDeps)
              /\ Goes(p, [pc |-> "truncate", read |-> Text(NoDeps)])
         [] OTHER -> Goes(p, [pc |-> "reread"]) /\ UNCHANGED manifest
    /\ UNCHANGED <<lock, plugins, cache, tmp, left, cut>>

\* os.WriteFile truncates the file...
Truncate(p) ==
    /\ proc[p].pc = "truncate"
    /\ manifest' = Blank
    /\ Goes(p, [pc |-> "write"])
    /\ UNCHANGED <<lock, plugins, cache, tmp, left, cut>>

\* ...and writes what was read, with the line of the package changed.
Write(p) ==
    LET v == IF proc[p].op = "add" THEN proc[p].id[2] ELSE No IN
    /\ proc[p].pc = "write"
    /\ manifest' = Text([proc[p].read.deps EXCEPT ![proc[p].id[1]] = v])
    /\ Goes(p, [pc |-> "reread", read |-> NoFile])
    /\ UNCHANGED <<lock, plugins, cache, tmp, left, cut>>

\* MUTANT: the manifest is not read again after the edit.
RereadForgotten(p) ==
    /\ proc[p].pc = "reread"
    /\ Goes(p, [pc |-> "hash"])
    /\ UNCHANGED <<manifest, lock, plugins, cache, tmp, left, cut>>

\* The manifest is read again for the lock file, if it can be.
Reread(p) ==
    /\ proc[p].pc = "reread"
    /\ IF manifest.there THEN Goes(p, [pc |-> "hash", deps |-> manifest.deps])
       ELSE Ends(p)
    /\ UNCHANGED <<manifest, lock, plugins, cache, tmp, left, cut>>

-----------------------------------------------------------------------------
(* generateLockFile and the cache.                                         *)

\* The hash is that of the manifest at this moment, not of the one that was
\* parsed.
Hash(p) ==
    /\ proc[p].pc = "hash"
    /\ Goes(p, [pc |-> "lock", hash |-> manifest])
    /\ UNCHANGED <<manifest, lock, plugins, cache, tmp, left, cut>>

\* What plugins/ says that a package needs: nothing when it is not there.
Known(id) == IF Readable(id) THEN Needs[id] ELSE NoDeps
\* The checksum of its .jp: empty for a ZIP and where there is no .jp.
Sum(id)   == IF Installed(id) /\ id \in Jps /\ plugins[id] # {} THEN plugins[id] ELSE None

PackageSets == SUBSET (Names \X Versions)
NamesOf(ids) == {id[1] : id \in ids}

\* What is pending after `id` of the packages `open`: what it needs, and those of
\* the others that it does not need in another version.
Pending(open, done, id) ==
    LET fresh == {d \in Asked(Known(id)) : d[1] \notin NamesOf(done \union {id})}
    IN fresh \union {d \in open \ {id} : d[1] \notin NamesOf(fresh)}

\* The sets of packages the walk may end with, from those pending and those done.
\* The map is taken in any order and a name keeps the version it is first taken
\* with.
Walk[s \in PackageSets \X PackageSets] ==
    LET open == {id \in s[1] : id[1] \notin NamesOf(s[2])}
    IN IF open = {} THEN {s[2]}
       ELSE UNION {Walk[<<Pending(open, s[2], id), s[2] \union {id}>>] : id \in open}

Collected(deps) == Walk[<<Asked(deps), {}>>]

\* The packages are collected and the lock file is written.
WriteLock(p) ==
    /\ proc[p].pc = "lock"
    /\ \E set \in Collected(proc[p].deps) :
         lock' = [hash |-> proc[p].hash,
                  packages |-> {[id |-> id, sum |-> Sum(id), deps |-> Known(id)] : id \in set}]
    /\ Ends(p)
    /\ UNCHANGED <<manifest, plugins, cache, tmp, left, cut>>

\* cache clean: os.RemoveAll of the cache, file after file, downloads included...
CleanFile(p, id) ==
    /\ proc[p].pc = "clean"
    /\ \/ /\ cache[id] # None /\ cache' = [cache EXCEPT ![id] = None] /\ UNCHANGED tmp
          /\ proc' = Moved(id, "cache", "gone")
       \/ /\ tmp[id] # None /\ tmp' = [tmp EXCEPT ![id] = None] /\ UNCHANGED cache
          /\ proc' = Moved(id, "tmp", "gone")
    /\ UNCHANGED <<manifest, lock, plugins, left, cut>>

\* ...until what was listed is gone.  A file that another command has made since
\* may stay, and so does one that cannot be removed.
Clean(p) ==
    /\ proc[p].pc = "clean"
    /\ \/ /\ ~proc[p].alone \/ \A id \in Ids : cache[id] = None /\ tmp[id] = None
          /\ UNCHANGED left
       \/ Trouble
    /\ Ends(p)
    /\ UNCHANGED <<manifest, lock, plugins, cache, tmp, cut>>

-----------------------------------------------------------------------------
Steps(p) ==
    \/ Ask(p) \/ GitHub(p) \/ Lookup(p) \/ Get(p) \/ Copy(p) \/ Broken(p)
    \/ Verify(p) \/ Rename(p) \/ Unpack(p) \/ Replace(p) \/ RemoveDir(p) \/ Place(p)
    \/ \E part \in Parts : Open(p, part) \/ UnlinkEntry(p, part)
    \/ Fill(p) \/ ExtractionFails(p) \/ ReadManifest(p)
    \/ \E id \in proc[p].roots : Root(p, id)
    \/ RootsDone(p)
    \/ \E id \in proc[p].queue : Visit(p, id)
    \/ ReadNeeds(p) \/ QueueDone(p)
    \/ Delete(p) \/ NextDir(p) \/ \E q \in Procs : Unstage(p, q)
    \/ EditRead(p) \/ Truncate(p) \/ Write(p) \/ Reread(p) \/ Hash(p) \/ WriteLock(p)
    \/ (\E id \in Ids : CleanFile(p, id)) \/ Clean(p)

PubNext == \E p \in Procs : Steps(p) \/ Crash(p) \/ \E c \in Commands : Begin(p, c)
PubSpec == PubInit /\ [][PubNext]_pubVars

-----------------------------------------------------------------------------
(* Properties.                                                             *)

Files == {None} \union SUBSET Blocks
Manifests == {NoFile, Blank} \union {Text(d) : d \in Dependencies}
PubTypeOK ==
    /\ manifest \in Manifests
    /\ plugins \in [Ids -> {None} \union SUBSET Parts]
    /\ cache \in [Ids -> Files] /\ tmp \in [Ids -> Files]
    /\ \A p \in Procs :
         /\ proc[p].fd \in {"closed", "tmp", "cache", "gone"}
         /\ proc[p].staged \in {"no", "whole", "damaged", "empty"}
         /\ proc[p].deps \in Dependencies
         /\ {proc[p].read, proc[p].hash} \subseteq Manifests
         /\ proc[p].visited \subseteq Ids
    /\ cut \subseteq Ids

\* An installed plugin is the whole published one, whatever downloads, removals
\* and crashes go on around it, but while a process removes it or extracts it, if
\* it is a ZIP, and when it was left in pieces: by a crash, an error or a removal
\* in the midst of these, or by the install of what had lost a part before it was
\* placed: an unsigned .jp with a hole, a file that a removal took from the
\* directory it was prepared in.  A .jp that is placed whole after that is whole
\* again (downloadAndExtract, installJPFile, extractPluginZip, pubRemove).
InstalledIsWhole ==
    \A id \in Ids : plugins[id] # None =>
        \/ plugins[id] = Parts
        \/ id \in cut \/ Removed(id)
        \/ id \in Zips /\ Extracted(id)

\* The packages that those of the set `ids` need, directly or not, and these:
\* the least set that has them and is closed.
Closed(ids) == \A id \in ids \intersect Ids : Asked(Needs[id]) \subseteq ids
Reach(ids) ==
    {d \in Names \X Versions :
       \A set \in SUBSET (Names \X Versions) : ids \subseteq set /\ Closed(set) => d \in set}

\* An install that ran alone leaves everything that the manifest needs,
\* directly or not, in plugins/, and the lock file names only packages that it
\* needs, with the checksum of each .jp (pubInstall,
\* installTransitiveDependencies, generateLockFile).  Where two packages ask
\* for different versions of a third both are installed and the lock file has
\* the one that the order of a Go map gave.
InstallIsComplete ==
    [][\A p \in Procs :
         /\ proc[p].alone /\ proc[p].op \in {"install", "offline"} /\ proc[p].pc = "lock"
         /\ proc'[p].pc = "idle" /\ left' = left
         => LET all == Reach(Asked(manifest.deps)) IN
            /\ \A id \in all : Installed(id)
            /\ {e.id : e \in lock'.packages} \subseteq all
            /\ \A e \in lock'.packages : e.id \in Jps => e.sum = Parts]_pubVars

\* A lock file that a command wrote alone is that of the manifest as it is
\* then, and names every package that one of its entries needs (pubAdd,
\* pubRemove, pubInstall, generateLockFile).
LockIsClosed ==
    [][\A p \in Procs :
         /\ proc[p].alone /\ proc[p].pc = "lock" /\ left' = left /\ proc'[p].pc = "idle"
         => /\ lock'.hash = manifest'
            /\ \A d \in Asked(manifest'.deps) \union UNION {Asked(e.deps) : e \in lock'.packages} :
                 \E e \in lock'.packages : e.id[1] = d[1]]_pubVars
=============================================================================
