----------------------------- MODULE MCJossFiles -----------------------------
(* What Joss keeps in files and tables: the sessions of a server, and what   *)
(* the commands for packages, updates and migrations work on.  They share    *)
(* nothing: a behaviour of the instance that TLC checks moves one of them.   *)
(* Requests, sessions and session files are interchangeable.                 *)
EXTENDS JossSessions, JossPub, JossUpdater, JossMigrations, TLC

CONSTANTS r1, r2, r3, s1, s2, user, cart, token, a, b

Symmetric == Permutations(Requests) \cup Permutations(Sessions) \cup Permutations(Paths)

Package(n, v) == <<n, v>>
MCJp  == {Package("a", "1"), Package("b", "latest")}
MCZip == {Package("b", "1")}
MCLegacy == {Package("b", "latest")}
On(n, v) == [NoDeps EXCEPT ![n] = v]
\* a needs b and b needs a: a cycle.
MCNeeds == [id \in MCJp \union MCZip |-> IF id[1] = "a" THEN On("b", "1") ELSE On("a", "1")]
MCInitially == {On("a", "1")}
MCSealed == {Package("a", "1")}
MCCommands == {[op |-> "add", id |-> Package("a", "1")], [op |-> "add", id |-> Package("b", "1")],
               [op |-> "add", id |-> Package("b", "2")], [op |-> "remove", id |-> Package("b", "1")],
               [op |-> "install"], [op |-> "offline"], [op |-> "clean"]}

\* A draft, a release of the canary channel and one of the stable channel.
MCReleases == << [v |-> 4, draft |-> TRUE, pre |-> FALSE],
                 [v |-> 3, draft |-> FALSE, pre |-> TRUE],
                 [v |-> 2, draft |-> FALSE, pre |-> FALSE] >>

\* Migrations that can be begun again (the first and the third) and two that
\* cannot: an index after its table and columns, a new name.  The third makes
\* two tables anew: begun twice it passes through tables it never makes at once.
Table(t)   == [k |-> "create", t |-> t, cols |-> {"id"}]
DropsTable(t)  == [k |-> "drop", t |-> t]
Adds(t, c) == [k |-> "add", t |-> t, c |-> c]
MCUps == << << <<Table("a")>>, <<Table("b")>> >>,
            << <<Table("c"), Adds("c", "index")>>,
               <<Adds("a", "x"), [k |-> "remove", t |-> "a", c |-> "id"]>> >>,
            << <<DropsTable("b")>>, <<DropsTable("c")>>, <<Table("b")>>, <<Table("c")>> >>,
            << <<[k |-> "rename", t |-> "a", to |-> "d"]>> >> >>

VARIABLE side
commandVars == <<pubVars, updaterVars, migrationVars>>

FilesInit ==
    /\ Init /\ PubInit /\ UpdaterInit /\ MigrationsInit
    /\ side \in {"sessions", "pub", "updater", "migrations"}
    \* a component that does not move starts in one state
    /\ side # "sessions" => driver = "memory" /\ env = a /\ sid = [r \in Requests |-> s1]
    /\ side # "pub" => manifest = NoFile
    /\ side # "updater" => system = "unix"
FilesNext ==
    \/ side = "sessions" /\ Next /\ UNCHANGED <<side, commandVars>>
    \/ side = "pub" /\ PubNext /\ UNCHANGED <<side, vars, updaterVars, migrationVars>>
    \/ side = "updater" /\ UpdaterNext /\ UNCHANGED <<side, vars, pubVars, migrationVars>>
    \/ side = "migrations" /\ MigrationsNext /\ UNCHANGED <<side, vars, pubVars, updaterVars>>

FilesSpec == FilesInit /\ [][FilesNext]_<<side, vars, commandVars>>
=============================================================================
