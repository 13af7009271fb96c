------------------------------ MODULE JossUpdater ------------------------------
(***************************************************************************)
(* `joss update` (src/cmd/joss/updater.go): a process replaces the file it *)
(* runs from.  Unix writes the new binary beside the old one and renames   *)
(* it; Windows moves the running one to <exe>.old and writes in its place. *)
(* Every step may fail and the process may be killed between two of them,  *)
(* and two updates may run at once.  An error while the binary is taken    *)
(* out of its archive is not noticed: what there is of it is installed.    *)
(*                                                                         *)
(* A file is None or the release it holds and whether all of it is there.  *)
(***************************************************************************)
EXTENDS Naturals, Sequences

CONSTANTS Updaters,      \* the processes, numbered
          NoFileHere,    \* no file at a path
          Releases,      \* what GitHub lists, newest first: [v, draft, pre]
          MaxUpdates, MaxFaults   \* bounds

ASSUME UpdaterAssumption ==
    /\ Releases \in Seq([v : Nat, draft : BOOLEAN, pre : BOOLEAN]) /\ Len(Releases) > 0
    /\ NoFileHere \notin [v : Nat, whole : BOOLEAN]

VARIABLES system,  \* "unix" or "windows"
          exe,     \* the executable
          old,     \* <exe>.old
          part,    \* the temporary file of each process (Unix)
          up,      \* where each process is, the file it has to install and the path
                   \* of the file it runs from
          spent    \* updates begun, faults and crashes so far, and the faults among
                   \* them that the code ignores

updaterVars == <<system, exe, old, part, up, spent>>

Channels == {"stable", "canary"}
Binary(v)  == [v |-> v, whole |-> TRUE]
Torn(v)    == [v |-> v, whole |-> FALSE]
Asleep     == [pc |-> "asleep", new |-> Torn(0), img |-> "none"]
IsWhole(f) == f # NoFileHere /\ f.whole

UpdaterInit ==
    /\ system \in {"unix", "windows"}
    /\ exe = Binary(1)
    /\ old \in {NoFileHere} \union (IF system = "windows" THEN {Binary(0)} ELSE {})
    /\ part = [u \in Updaters |-> NoFileHere]
    /\ up = [u \in Updaters |-> Asleep]
    /\ spent = [updates |-> 0, faults |-> 0, ignored |-> 0]

-----------------------------------------------------------------------------
Fault == /\ spent.faults < MaxFaults
         /\ spent' = [spent EXCEPT !.faults = @ + 1]

\* One that the code does not look at.
IgnoredFault ==
    /\ spent.faults < MaxFaults
    /\ spent' = [updates |-> spent.updates, faults |-> spent.faults + 1,
                  ignored |-> spent.ignored + 1]

Step(u, from, to) == up[u].pc = from /\ up' = [up EXCEPT ![u].pc = to]
Stop(u) == up' = [up EXCEPT ![u] = Asleep]

\* The first release of the list that suits the channel, or the first at all.
selectReleaseByChannel(channel) ==
    LET Suits(r) == ~r.draft /\ r.pre = (channel = "canary")
        fit == {i \in DOMAIN Releases : Suits(Releases[i])}
    IN IF fit = {} THEN Releases[1]
       ELSE Releases[CHOOSE i \in fit : \A j \in fit : i <= j]

\* handleUpdateCommand: the release is chosen, unless it is the one that runs
\* already.
Update(u, channel, force) ==
    LET v == selectReleaseByChannel(channel).v IN
    /\ IsWhole(exe)
    /\ spent.updates < MaxUpdates
    /\ \A w \in Updaters : w < u => up[w] # Asleep
    /\ up[u] = Asleep
    /\ force \/ v # exe.v
    /\ up' = [up EXCEPT ![u] = [pc |-> "download", new |-> Torn(v), img |-> "exe"]]
    /\ spent' = [spent EXCEPT !.updates = @ + 1]
    /\ UNCHANGED <<system, exe, old, part>>

\* downloadFile, to a directory of the process: its errors end the update.
Download(u) ==
    /\ up[u].pc = "download"
    /\ \/ up' = [up EXCEPT ![u].pc = "extract"] /\ UNCHANGED spent
       \/ Fault /\ Stop(u)
    /\ UNCHANGED <<system, exe, old, part>>

\* The binary is taken out of the archive, which may be one, and read.  The
\* errors of io.ReadAll and os.WriteFile are dropped, and so is that of reading
\* the archive, which is then installed itself; only that of the last read is
\* not.
Extract(u) ==
    LET Replaces(whole) ==
          up' = [up EXCEPT ![u] = [pc |-> IF system = "unix" THEN "stage" ELSE "forget",
                                   new |-> [v |-> @.new.v, whole |-> whole], img |-> @.img]]
    IN
    /\ up[u].pc = "extract"
    /\ \/ Replaces(TRUE) /\ UNCHANGED spent
       \/ Replaces(FALSE) /\ IgnoredFault
       \/ Fault /\ Stop(u)
    /\ UNCHANGED <<system, exe, old, part>>

\* The process is killed: its deferred removal of the temporary file is lost.
Killed(u) ==
    /\ up[u] # Asleep /\ Fault
    /\ Stop(u)
    /\ UNCHANGED <<system, exe, old, part>>

-----------------------------------------------------------------------------
(* replaceExecutable on Unix.                                              *)

\* The new binary is created in the directory of the executable...
Stage(u) ==
    /\ \/ Step(u, "stage", "staged") /\ part' = [part EXCEPT ![u] = Torn(up[u].new.v)] /\ UNCHANGED spent
       \/ up[u].pc = "stage" /\ Fault /\ Stop(u) /\ UNCHANGED part
    /\ UNCHANGED <<system, exe, old>>

\* MUTANT: the rename does not wait for the file to be written.
StagedEarly(u) ==
    /\ Step(u, "staged", "swap") /\ UNCHANGED <<part, spent>>
    /\ UNCHANGED <<system, exe, old>>

\* ...and written.  A disk that is full leaves the temporary file torn.
Staged(u) ==
    /\ \/ Step(u, "staged", "swap") /\ part' = [part EXCEPT ![u] = up[u].new] /\ UNCHANGED spent
       \/ up[u].pc = "staged" /\ Fault /\ Stop(u) /\ UNCHANGED part
    /\ UNCHANGED <<system, exe, old>>

\* os.Rename of the temporary file over the running one.  When it fails for
\* another reason than a permission the target is unlinked first.
Swap(u) ==
    /\ up[u].pc = "swap"
    /\ \/ /\ exe' = part[u] /\ UNCHANGED spent
          /\ up' = [up EXCEPT ![u].pc = "sweep"]
          /\ part' = [part EXCEPT ![u] = NoFileHere]
       \/ /\ Fault /\ UNCHANGED <<exe, part>>
          /\ \E to \in {"sweep", "unlink"} : up' = [up EXCEPT ![u].pc = to]
    /\ UNCHANGED <<system, old>>

Unlink(u) ==
    /\ Step(u, "unlink", "retry")
    /\ exe' = NoFileHere
    /\ UNCHANGED <<system, old, part, spent>>

Retry(u) ==
    /\ up[u].pc = "retry"
    /\ up' = [up EXCEPT ![u].pc = "sweep"]
    /\ \/ exe' = part[u] /\ part' = [part EXCEPT ![u] = NoFileHere] /\ UNCHANGED spent
       \/ Fault /\ UNCHANGED <<exe, part>>
    /\ UNCHANGED <<system, old>>

\* The deferred removal of the temporary file.
Sweep(u) ==
    /\ up[u].pc = "sweep" /\ Stop(u)
    /\ part' = [part EXCEPT ![u] = NoFileHere]
    /\ UNCHANGED <<system, exe, old, spent>>

-----------------------------------------------------------------------------
(* replaceExecutable on Windows, where the file a process runs from can be *)
(* renamed and neither removed nor replaced.                               *)

Runs(path) == \E w \in Updaters : up[w].img = path
\* The file at `from` goes to `to` with the processes that run from it.
Moves(from, to, pcs) ==
    up' = [w \in Updaters |-> [pc |-> pcs[w], new |-> up[w].new,
                                 img |-> IF up[w].img = from THEN to ELSE up[w].img]]
At(u, pc) == [w \in Updaters |-> IF w = u THEN pc ELSE up[w].pc]

\* os.Remove of <exe>.old, whose error is ignored.
ForgetOld(u) ==
    /\ Step(u, "forget", "aside")
    /\ old' = IF Runs("old") THEN old ELSE NoFileHere
    /\ UNCHANGED <<system, exe, part, spent>>

\* The running executable becomes <exe>.old.
Aside(u) ==
    /\ up[u].pc = "aside"
    /\ \/ /\ exe # NoFileHere /\ ~Runs("old")
          /\ old' = exe /\ exe' = NoFileHere
          /\ Moves("exe", "old", At(u, "write"))
          /\ UNCHANGED spent
       \/ /\ exe = NoFileHere \/ Runs("old")
          /\ Stop(u) /\ UNCHANGED <<exe, old, spent>>
       \/ Fault /\ Stop(u) /\ UNCHANGED <<exe, old>>
    /\ UNCHANGED <<system, part>>

\* The new one is created in its place and written; a failure is rolled back.
Create(u) ==
    /\ \/ Step(u, "write", "fill") /\ exe' = Torn(up[u].new.v) /\ UNCHANGED spent
       \/ Step(u, "write", "undo") /\ Fault /\ UNCHANGED exe
    /\ UNCHANGED <<system, old, part>>

Finish(u) ==
    /\ \/ Step(u, "fill", "drop") /\ exe' = up[u].new /\ UNCHANGED spent
       \/ Step(u, "fill", "undo") /\ Fault /\ UNCHANGED exe
    /\ UNCHANGED <<system, old, part>>

Undo(u) ==
    /\ up[u].pc = "undo"
    /\ \/ exe' = old /\ old' = NoFileHere /\ Moves("old", "exe", At(u, "undone")) /\ UNCHANGED spent
       \/ Fault /\ Stop(u) /\ UNCHANGED <<exe, old>>
    /\ UNCHANGED <<system, part>>

\* The process still runs from <exe>.old: its removal fails and is ignored.
DropOld(u) ==
    /\ up[u].pc \in {"drop", "undone"} /\ Stop(u)
    /\ UNCHANGED <<system, exe, old, part, spent>>

-----------------------------------------------------------------------------
UpdaterStep(u) ==
    \/ Download(u) \/ Extract(u)
    \/ Stage(u) \/ Staged(u) \/ Swap(u) \/ Unlink(u) \/ Retry(u) \/ Sweep(u)
    \/ ForgetOld(u) \/ Aside(u) \/ Create(u) \/ Finish(u) \/ Undo(u) \/ DropOld(u)

UpdaterNext ==
    \E u \in Updaters :
      \/ UpdaterStep(u) \/ Killed(u)
      \/ \E channel \in Channels, force \in BOOLEAN : Update(u, channel, force)

UpdaterSpec == UpdaterInit /\ [][UpdaterNext]_updaterVars

\* A single failure or crash, whatever the step and with two updates at once,
\* leaves a whole executable: on Unix always at its path, but for the moment
\* between an unlink and the second rename; on Windows at its path or at
\* <exe>.old, where a crash may leave the path empty.  Without a failure there
\* is one at its path when no update is under way (handleUpdateCommand,
\* replaceExecutable).  That is not so of the one failure that the code ignores,
\* while it extracts the binary: it installs a torn one.  A second failure may
\* lose the executable: that of the rename after the unlink.
ExecutableSurvives ==
    /\ spent.faults <= 1 /\ spent.ignored = 0 =>
         \/ IsWhole(exe)
         \/ system = "unix" /\ \E u \in Updaters : up[u].pc = "retry" /\ IsWhole(part[u])
         \/ system = "windows" /\ IsWhole(old)
    /\ spent.faults = 0 /\ (\A u \in Updaters : up[u] = Asleep) => IsWhole(exe)
=============================================================================
