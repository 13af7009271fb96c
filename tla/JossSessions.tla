------------------------------ MODULE JossSessions ------------------------------
(***************************************************************************)
(* The web sessions of the server: loadSession, saveSession and the        *)
(* session file (server/session_store.go), and their use by a request      *)
(* (MainHandler, setupSessionAndSecurity, ensureCSRFToken,                 *)
(* persistRedirectFlash).                                                  *)
(*                                                                         *)
(* A request works on a copy of the session that it loads once and saves   *)
(* whole.  sessionMu makes each load and each save one step; between them  *)
(* other requests load and save, the environment is reloaded, the process  *)
(* dies.  The value of a key is the request that wrote it.                 *)
(***************************************************************************)
EXTENDS Naturals

CONSTANTS Requests, Sessions,
          Keys,      \* keys of session data that handlers set
          User,      \* the key that a valid JWT restores (user_id)
          Token,     \* the key csrf_token
          Paths,     \* values of SESSION_FILE
          Unset,     \* no value, no path
          MaxChanges \* bound: changes of SESSION_FILE and restarts

ASSUME SessionsAssumption ==
    /\ User \in Keys /\ Token \notin Keys
    /\ Unset \notin Requests /\ Unset \notin Paths
    /\ MaxChanges \in Nat

VARIABLES
    driver,  \* SESSION_DRIVER: "file" or "memory"
    env,     \* SESSION_FILE of the served runtime
    store,   \* sessionStore
    loaded,  \* loadedSessionPath
    file,    \* [Paths -> contents of the session file]
    pc,      \* [Requests -> where MainHandler stands]
    sid,     \* [Requests -> session of the request]
    path,    \* [Requests -> SESSION_FILE of its runtime]
    data,    \* [Requests -> sessData]
    changes, \* counts towards MaxChanges
    last,    \* history: [Paths -> contents of the last save that succeeded]
    synced,  \* history: [Requests -> session as last loaded or saved by it]
    saved,   \* history: requests of which a save succeeded
    alone,   \* history: requests that met no other request of their session
    strayed, \* history: a request saved to a file that was not the loaded one
    expected \* history, driver "memory": the mutations of all requests that saved

kept == <<driver, env, changes>>
request == <<sid, path, alone>>
history == <<last, saved, strayed, expected>>
vars == <<kept, store, loaded, file, pc, request, data, synced, history>>

AllKeys == Keys \cup {Token}
Data == [AllKeys -> Requests \cup {Unset}]
Contents == [Sessions -> Data]
Nothing == [k \in AllKeys |-> Unset]
Empty == [s \in Sessions |-> Nothing]
InFlight == {r \in Requests : pc[r] \in {"load", "token", "dispatch", "save", "flash"}}
Locations == {"new", "load", "token", "dispatch", "save", "flash", "answered", "failed"}

Init ==
    /\ driver \in {"file", "memory"}
    /\ env \in Paths
    /\ store = Empty /\ loaded = Unset
    /\ file = [p \in Paths |-> Empty]
    /\ pc = [r \in Requests |-> "new"]
    /\ sid \in [Requests -> Sessions]
    /\ path = [r \in Requests |-> Unset]
    /\ data = [r \in Requests |-> Nothing]
    /\ changes = 0
    /\ last = [p \in Paths |-> Empty]
    /\ synced = [r \in Requests |-> Nothing]
    /\ saved = {} /\ alone = {} /\ strayed = FALSE
    /\ expected = Empty

Goto(r, l) == pc' = [pc EXCEPT ![r] = l]

\* The request forks the runtime, and with it the environment.
Start(r) ==
    LET others == {q \in InFlight : sid[q] = sid[r]} IN
    /\ pc[r] = "new"
    /\ path' = [path EXCEPT ![r] = env]
    /\ alone' = IF others = {} THEN alone \cup {r} ELSE alone \ others
    /\ Goto(r, "load")
    /\ UNCHANGED <<kept, store, loaded, file, sid, data, synced, history>>

\* ensureFileSessionsLoaded reads the file unless it is the loaded one.
MustRead(r) == driver = "file" /\ loaded # path[r]
StoreFor(r) == IF MustRead(r) THEN file[path[r]] ELSE store

\* loadSession, and applyJWTPersistence for a request that carries a JWT.
Load(r) ==
    /\ pc[r] = "load"
    /\ store' = StoreFor(r)
    /\ loaded' = IF MustRead(r) THEN path[r] ELSE loaded
    /\ LET d == StoreFor(r)[sid[r]] IN
       /\ synced' = [synced EXCEPT ![r] = d]
       /\ \/ data' = [data EXCEPT ![r] = d]
          \/ d[User] = Unset /\ data' = [data EXCEPT ![r] = [d EXCEPT ![User] = r]]
    /\ Goto(r, "token")
    /\ UNCHANGED <<kept, file, request, history>>

\* MUTANT: the store is made new before the file is read.
LoadFailsCleared(r) ==
    /\ pc[r] = "load"
    /\ MustRead(r)
    /\ store' = Empty
    /\ Goto(r, "failed")
    /\ UNCHANGED <<kept, loaded, file, request, data, synced, history>>
\* The file cannot be read or decoded.
LoadFails(r) ==
    /\ pc[r] = "load"
    /\ MustRead(r)
    /\ Goto(r, "failed")
    /\ UNCHANGED <<kept, store, loaded, file, request, data, synced, history>>

\* What the request changed in the session it loaded or saved last.
Applied(r, d) ==
    [expected EXCEPT ![sid[r]] =
        [k \in AllKeys |-> IF driver = "memory" /\ d[k] # synced[r][k] THEN d[k] ELSE @[k]]]

\* saveSession: the session in the store, and the whole store to the file that
\* the environment of the request names.
Saves(r, d) ==
    LET contents == [store EXCEPT ![sid[r]] = d]
        place == IF driver = "file" THEN path[r] ELSE env IN
    /\ store' = contents
    /\ file' = IF driver = "file" THEN [file EXCEPT ![place] = contents] ELSE file
    /\ last' = [last EXCEPT ![place][sid[r]] = d]
    /\ synced' = [synced EXCEPT ![r] = d]
    /\ saved' = saved \cup {r}
    /\ expected' = Applied(r, d)
    /\ strayed' = (strayed \/ (driver = "file" /\ path[r] # loaded))
    /\ UNCHANGED loaded

\* MUTANT: the session is left in the store when the file cannot be written.
SaveRefusedKept(r, d) ==
    /\ driver = "file"
    /\ store' = [store EXCEPT ![sid[r]] = d]
    /\ UNCHANGED <<loaded, file, synced, last, saved, strayed, expected>>
\* persistFileSessions fails: the store gets the previous session back.
SaveRefused(r, d) ==
    /\ driver = "file"
    /\ UNCHANGED <<store, loaded, file, synced, last, saved, strayed, expected>>

HasToken(r) ==
    /\ pc[r] = "token"
    /\ data[r][Token] # Unset
    /\ Goto(r, "dispatch")
    /\ UNCHANGED <<kept, store, loaded, file, request, data, synced, history>>

\* ensureCSRFToken: a token for a session that has none is saved at once.
NewToken(r) ==
    LET d == [data[r] EXCEPT ![Token] = r] IN
    /\ pc[r] = "token"
    /\ data[r][Token] = Unset
    /\ data' = [data EXCEPT ![r] = d]
    /\ \/ Saves(r, d) /\ Goto(r, "dispatch")
       \/ SaveRefused(r, d) /\ Goto(r, "failed")
    /\ UNCHANGED <<kept, request>>

\* validateCSRFToken refuses the request, or Dispatch panics: nothing is saved.
Abandon(r) ==
    /\ pc[r] = "dispatch"
    /\ Goto(r, "failed")
    /\ UNCHANGED <<kept, store, loaded, file, request, data, synced, history>>

\* The handler puts and forgets keys; it may forget the token too.
Dispatch(r, put, forget) ==
    /\ pc[r] = "dispatch"
    /\ data' = [data EXCEPT ![r] = [k \in AllKeys |->
                   IF k \in put THEN r ELSE IF k \in forget THEN Unset ELSE data[r][k]]]
    /\ Goto(r, "save")
    /\ UNCHANGED <<kept, store, loaded, file, request, synced, history>>

\* The session is saved after the dispatch, whatever it returned.
Save(r) ==
    /\ pc[r] = "save"
    /\ \/ Saves(r, data[r]) /\ Goto(r, "flash")
       \/ SaveRefused(r, data[r]) /\ Goto(r, "failed")
    /\ UNCHANGED <<kept, request, data>>

\* persistRedirectFlash: the session with the flash data on top.
Flash(r, flash) ==
    LET d == [k \in AllKeys |-> IF k \in flash THEN r ELSE data[r][k]] IN
    /\ pc[r] = "flash"
    /\ \/ Saves(r, d) /\ Goto(r, "answered")
       \/ SaveRefused(r, d) /\ Goto(r, "failed")
    /\ UNCHANGED <<kept, request, data>>

Respond(r) ==
    /\ pc[r] = "flash"
    /\ Goto(r, "answered")
    /\ UNCHANGED <<kept, store, loaded, file, request, data, synced, history>>

\* The environment is reloaded with another SESSION_FILE.
Reconfigure(p) ==
    /\ driver = "file" /\ changes < MaxChanges
    /\ p # env
    /\ env' = p
    /\ changes' = changes + 1
    /\ UNCHANGED <<driver, store, loaded, file, pc, request, data, synced, history>>

\* The process dies and is started again: the file is what is left.
Restart ==
    /\ changes < MaxChanges
    /\ changes' = changes + 1
    /\ store' = Empty /\ loaded' = Unset
    /\ pc' = [r \in Requests |-> IF r \in InFlight THEN "failed" ELSE pc[r]]
    /\ last' = IF driver = "memory" THEN [p \in Paths |-> Empty] ELSE last
    /\ expected' = Empty
    /\ UNCHANGED <<driver, env, file, request, data, synced, saved, strayed>>

Handle(r) ==
    \/ Start(r) \/ Load(r) \/ LoadFails(r) \/ HasToken(r) \/ NewToken(r)
    \/ Abandon(r) \/ Save(r) \/ Respond(r)
    \/ \E put \in SUBSET Keys, forget \in SUBSET AllKeys :
           put \cap forget = {} /\ Dispatch(r, put, forget)
    \/ \E flash \in SUBSET Keys : flash # {} /\ Flash(r, flash)

Next ==
    \/ \E r \in Requests : Handle(r)
    \/ \E p \in Paths : Reconfigure(p)
    \/ Restart

Spec == Init /\ [][Next]_vars

-----------------------------------------------------------------------------
(* Properties.                                                             *)

\* Every variable keeps its type, and a request in flight has an environment.
TypeOK ==
    /\ driver \in {"file", "memory"} /\ env \in Paths /\ changes \in 0..MaxChanges
    /\ store \in Contents /\ loaded \in Paths \cup {Unset}
    /\ file \in [Paths -> Contents] /\ last \in [Paths -> Contents]
    /\ pc \in [Requests -> Locations] /\ sid \in [Requests -> Sessions]
    /\ path \in [Requests -> Paths \cup {Unset}]
    /\ \A r \in InFlight : path[r] # Unset
    /\ data \in [Requests -> Data] /\ synced \in [Requests -> Data]
    /\ saved \subseteq Requests /\ alone \subseteq Requests
    /\ strayed \in BOOLEAN /\ expected \in Contents

\* What was saved is what every later request loads, after a restart and after
\* saves that failed too, as long as no request saved to a file other than the
\* one in the store.
SavedSurvives ==
    driver = "file" /\ ~strayed =>
        /\ file = last
        /\ loaded # Unset => store = last[loaded]

\* A request whose saves all failed leaves no trace, in memory or on disk.
OnlySavedMutations ==
    \A s \in Sessions, k \in AllKeys :
        /\ store[s][k] \in saved \cup {Unset}
        /\ \A p \in Paths : file[p][s][k] \in saved \cup {Unset}

\* As long as a request meets no other request of its session, its session is
\* what the request took it to be: it overwrites nothing that it did not see.
SerialRequests ==
    \A r \in InFlight \cap alone :
        pc[r] # "load" /\ ~strayed /\ (driver = "file" => loaded = path[r])
        => store[sid[r]] = synced[r]

================================================================================
