---------------------------- MODULE JossFilesProofs ----------------------------
(***************************************************************************)
(* What is kept in files, for any number of requests and processes.        *)
(*                                                                         *)
(* Sessions: JossSessions is type correct, what was saved is what is       *)
(* loaded, a request whose saves failed leaves no trace, and a request     *)
(* that meets no other request of its session overwrites nothing that it   *)
(* did not see.  Updates: one failure neither loses nor tears the          *)
(* executable, unless it is ignored.  Packages: an installed plugin is the *)
(* whole published one, unless it is being removed or extracted or was     *)
(* left in pieces.                                                         *)
(* Migrations: between commands the tables are what the log says.          *)
(***************************************************************************)
EXTENDS JossSessions, JossUpdater, JossPub, JossMigrations, FiniteSetTheorems, WellFoundedInduction, TLAPS

--------------------------------------------------------------------------------
(* Sessions: the inductive invariant.                                      *)

\* A request holds values that were saved and values of its own.
OwnValues == \A r \in Requests, k \in AllKeys : data[r][k] \in saved \cup {r, Unset}

\* A request counts as alone from its start on, and while it is in flight no
\* other request of its session is.
Apart ==
    \A r \in alone :
        /\ pc[r] # "new"
        /\ r \in InFlight => \A q \in InFlight : sid[q] = sid[r] => q = r

\* What was last saved where the request r saves.
SavedPlace(r) == IF driver = "file" THEN file[path[r]] ELSE store

\* What a request that is alone loaded or saved last is still there.
Current ==
    ~strayed => \A r \in InFlight \cap alone : pc[r] # "load" => SavedPlace(r)[sid[r]] = synced[r]

Inv == TypeOK /\ SavedSurvives /\ OnlySavedMutations /\ OwnValues /\ Apart /\ Current

--------------------------------------------------------------------------------

\* What saveSession leaves behind is well typed.
LEMMA SavesTypes ==
    ASSUME TypeOK, NEW r \in Requests, r \in InFlight, NEW d \in Data, Saves(r, d)
    PROVE  /\ store' \in Contents /\ file' \in [Paths -> Contents] /\ last' \in [Paths -> Contents]
           /\ synced' \in [Requests -> Data] /\ saved' \subseteq Requests
           /\ strayed' \in BOOLEAN /\ expected' \in Contents /\ loaded' = loaded
<1> USE SessionsAssumption DEF TypeOK, Saves
<1>1. store' \in Contents /\ [store EXCEPT ![sid[r]] = d] = store'
  BY DEF Contents
<1>2. file' \in [Paths -> Contents] /\ synced' \in [Requests -> Data] /\ saved' \subseteq Requests
  BY <1>1
<1>3. last' \in [Paths -> Contents]
  BY DEF Contents
<1>4. strayed' \in BOOLEAN /\ loaded' = loaded
  OBVIOUS
<1>5. expected' \in Contents
  BY DEF Contents, Applied, Data
<1>6. QED
  BY <1>1, <1>2, <1>3, <1>4, <1>5

\* Every step keeps the types.
LEMMA TypeStep == TypeOK /\ [Next]_vars => TypeOK'
<1> SUFFICES ASSUME TypeOK, [Next]_vars PROVE TypeOK'
  OBVIOUS
<1> USE SessionsAssumption DEF TypeOK, kept, request, history, InFlight, Locations, Goto
<1>1. ASSUME NEW r \in Requests, Start(r) PROVE TypeOK'
  BY <1>1 DEF Start
<1>2. ASSUME NEW r \in Requests, Load(r) PROVE TypeOK'
  <2>1. r \in InFlight /\ StoreFor(r) \in Contents
    BY <1>2 DEF Load, StoreFor, MustRead, InFlight
  <2>2. StoreFor(r)[sid[r]] \in Data
    BY <2>1 DEF Contents
  <2>3. [StoreFor(r)[sid[r]] EXCEPT ![User] = r] \in Data
    BY <2>2 DEF Data, AllKeys
  <2>4. QED
    BY <1>2, <2>1, <2>2, <2>3 DEF Load, MustRead, InFlight, Locations, Goto
<1>3. ASSUME NEW r \in Requests, LoadFails(r) PROVE TypeOK'
  BY <1>3 DEF LoadFails
<1>4. ASSUME NEW r \in Requests, HasToken(r) PROVE TypeOK'
  BY <1>4 DEF HasToken
<1>5. ASSUME NEW r \in Requests, NewToken(r) PROVE TypeOK'
  <2> DEFINE d == [data[r] EXCEPT ![Token] = r]
  <2>1. d \in Data /\ r \in InFlight
    BY <1>5 DEF NewToken, Data, AllKeys, InFlight, TypeOK
  <2>2. CASE Saves(r, d)
    BY <1>5, <2>1, <2>2, SavesTypes DEF NewToken, InFlight, Locations, Goto
  <2>3. CASE SaveRefused(r, d)
    BY <1>5, <2>1, <2>3 DEF NewToken, SaveRefused, InFlight, Locations, Goto
  <2>4. QED
    BY <1>5, <2>2, <2>3 DEF NewToken
<1>6. ASSUME NEW r \in Requests, Abandon(r) PROVE TypeOK'
  BY <1>6 DEF Abandon
<1>7. ASSUME NEW r \in Requests, NEW put \in SUBSET Keys, NEW forget \in SUBSET AllKeys, Dispatch(r, put, forget) PROVE TypeOK'
  <2>1. [k \in AllKeys |-> IF k \in put THEN r ELSE IF k \in forget THEN Unset ELSE data[r][k]] \in Data
    BY <1>7 DEF Dispatch, Data, AllKeys
  <2>2. QED
    BY <1>7, <2>1 DEF Dispatch
<1>8. ASSUME NEW r \in Requests, Save(r) PROVE TypeOK'
  <2> DEFINE d == data[r]
  <2>1. d \in Data /\ r \in InFlight
    BY <1>8 DEF Save, Data, AllKeys, InFlight, TypeOK
  <2>2. CASE Saves(r, d)
    BY <1>8, <2>1, <2>2, SavesTypes DEF Save, InFlight, Locations, Goto
  <2>3. CASE SaveRefused(r, d)
    BY <1>8, <2>1, <2>3 DEF Save, SaveRefused, InFlight, Locations, Goto
  <2>4. QED
    BY <1>8, <2>2, <2>3 DEF Save
<1>9. ASSUME NEW r \in Requests, NEW flash \in SUBSET Keys, Flash(r, flash) PROVE TypeOK'
  <2> DEFINE d == [k \in AllKeys |-> IF k \in flash THEN r ELSE data[r][k]]
  <2>1. d \in Data /\ r \in InFlight
    BY <1>9 DEF Flash, Data, AllKeys, InFlight, TypeOK
  <2>2. CASE Saves(r, d)
    BY <1>9, <2>1, <2>2, SavesTypes DEF Flash, InFlight, Locations, Goto
  <2>3. CASE SaveRefused(r, d)
    BY <1>9, <2>1, <2>3 DEF Flash, SaveRefused, InFlight, Locations, Goto
  <2>4. QED
    BY <1>9, <2>2, <2>3 DEF Flash
<1>10. ASSUME NEW r \in Requests, Respond(r) PROVE TypeOK'
  BY <1>10 DEF Respond
<1>11. ASSUME NEW p \in Paths, Reconfigure(p) PROVE TypeOK'
  BY <1>11 DEF Reconfigure
<1>12. ASSUME Restart PROVE TypeOK'
  <2>1. Empty \in Contents
    BY DEF Empty, Contents, Nothing, Data
  <2>2. QED
    BY <1>12, <2>1 DEF Restart
<1>13. CASE UNCHANGED vars
  BY <1>13 DEF vars
<1>14. QED
  BY <1>1, <1>2, <1>3, <1>4, <1>5, <1>6, <1>7, <1>8, <1>9, <1>10, <1>11, <1>12, <1>13 DEF Next, Handle

\* What was saved stays what is loaded.
LEMMA SurvivesStep == TypeOK /\ SavedSurvives /\ [Next]_vars => SavedSurvives'
<1> SUFFICES ASSUME TypeOK, SavedSurvives, [Next]_vars PROVE SavedSurvives'
  OBVIOUS
<1> USE SessionsAssumption DEF TypeOK, SavedSurvives, kept, request, history, InFlight, Goto
<1>1. ASSUME NEW r \in Requests, Start(r) PROVE SavedSurvives'
  BY <1>1 DEF Start
<1>2. ASSUME NEW r \in Requests, Load(r) PROVE SavedSurvives'
  BY <1>2 DEF Load, StoreFor, MustRead
<1>3. ASSUME NEW r \in Requests, LoadFails(r) PROVE SavedSurvives'
  BY <1>3 DEF LoadFails
<1>4. ASSUME NEW r \in Requests, HasToken(r) PROVE SavedSurvives'
  BY <1>4 DEF HasToken
<1>5. ASSUME NEW r \in Requests, NewToken(r) PROVE SavedSurvives'
  <2> DEFINE d == [data[r] EXCEPT ![Token] = r]
  <2>1. d \in Data /\ r \in InFlight
    BY <1>5 DEF NewToken, Data, AllKeys, InFlight, TypeOK
  <2>2. CASE Saves(r, d)
    BY <1>5, <2>1, <2>2, SavesTypes DEF NewToken, InFlight, Locations, Goto, Saves, Contents
  <2>3. CASE SaveRefused(r, d)
    BY <1>5, <2>1, <2>3 DEF NewToken, SaveRefused, InFlight, Locations, Goto, Saves, Contents
  <2>4. QED
    BY <1>5, <2>2, <2>3 DEF NewToken
<1>6. ASSUME NEW r \in Requests, Abandon(r) PROVE SavedSurvives'
  BY <1>6 DEF Abandon
<1>7. ASSUME NEW r \in Requests, NEW put \in SUBSET Keys, NEW forget \in SUBSET AllKeys, Dispatch(r, put, forget) PROVE SavedSurvives'
  BY <1>7 DEF Dispatch
<1>8. ASSUME NEW r \in Requests, Save(r) PROVE SavedSurvives'
  <2> DEFINE d == data[r]
  <2>1. d \in Data /\ r \in InFlight
    BY <1>8 DEF Save, Data, AllKeys, InFlight, TypeOK
  <2>2. CASE Saves(r, d)
    BY <1>8, <2>1, <2>2, SavesTypes DEF Save, InFlight, Locations, Goto, Saves, Contents
  <2>3. CASE SaveRefused(r, d)
    BY <1>8, <2>1, <2>3 DEF Save, SaveRefused, InFlight, Locations, Goto, Saves, Contents
  <2>4. QED
    BY <1>8, <2>2, <2>3 DEF Save
<1>9. ASSUME NEW r \in Requests, NEW flash \in SUBSET Keys, Flash(r, flash) PROVE SavedSurvives'
  <2> DEFINE d == [k \in AllKeys |-> IF k \in flash THEN r ELSE data[r][k]]
  <2>1. d \in Data /\ r \in InFlight
    BY <1>9 DEF Flash, Data, AllKeys, InFlight, TypeOK
  <2>2. CASE Saves(r, d)
    BY <1>9, <2>1, <2>2, SavesTypes DEF Flash, InFlight, Locations, Goto, Saves, Contents
  <2>3. CASE SaveRefused(r, d)
    BY <1>9, <2>1, <2>3 DEF Flash, SaveRefused, InFlight, Locations, Goto, Saves, Contents
  <2>4. QED
    BY <1>9, <2>2, <2>3 DEF Flash
<1>10. ASSUME NEW r \in Requests, Respond(r) PROVE SavedSurvives'
  BY <1>10 DEF Respond
<1>11. ASSUME NEW p \in Paths, Reconfigure(p) PROVE SavedSurvives'
  BY <1>11 DEF Reconfigure
<1>12. ASSUME Restart PROVE SavedSurvives'
  BY <1>12 DEF Restart
<1>13. CASE UNCHANGED vars
  BY <1>13 DEF vars
<1>14. QED
  BY <1>1, <1>2, <1>3, <1>4, <1>5, <1>6, <1>7, <1>8, <1>9, <1>10, <1>11, <1>12, <1>13 DEF Next, Handle

\* A request that saves writes its own values and those that were saved before.
LEMMA SavesTrace ==
    ASSUME TypeOK, OnlySavedMutations, NEW r \in Requests, NEW d \in Data, Saves(r, d), r \in InFlight,
           \A k \in AllKeys : d[k] \in saved \cup {r, Unset}
    PROVE  OnlySavedMutations'
<1> USE DEF OnlySavedMutations
<1>1. saved' = saved \cup {r} /\ store' = [store EXCEPT ![sid[r]] = d]
  BY DEF Saves
<1>2. \A s \in Sessions, k \in AllKeys : store'[s][k] \in saved' \cup {Unset}
  BY <1>1 DEF TypeOK, Contents
<1>3. \A p \in Paths : file'[p] = file[p] \/ file'[p] = store'
  BY DEF Saves, TypeOK
<1>4. \A p \in Paths, s \in Sessions, k \in AllKeys : file'[p][s][k] \in saved' \cup {Unset}
  BY <1>1, <1>2, <1>3
<1>5. QED
  BY <1>2, <1>4


\* A step writes values of requests that saved, and no others, to the store and the files.
LEMMA TraceStep == TypeOK /\ OnlySavedMutations /\ OwnValues /\ [Next]_vars => (OnlySavedMutations /\ OwnValues)'
<1> SUFFICES ASSUME TypeOK, OnlySavedMutations, OwnValues, [Next]_vars PROVE (OnlySavedMutations /\ OwnValues)'
  OBVIOUS
<1> USE SessionsAssumption DEF OnlySavedMutations, OwnValues, kept, request, history, Goto
<1>1. ASSUME NEW r \in Requests, Start(r) PROVE (OnlySavedMutations /\ OwnValues)'
  BY <1>1 DEF Start
<1>2. ASSUME NEW r \in Requests, Load(r) PROVE (OnlySavedMutations /\ OwnValues)'
  <2>1. sid[r] \in Sessions /\ (MustRead(r) => path[r] \in Paths)
    BY <1>2 DEF Load, MustRead, InFlight, TypeOK
  <2>2. \A s \in Sessions, k \in AllKeys : StoreFor(r)[s][k] \in saved \cup {Unset}
    BY <2>1 DEF StoreFor
  <2>3. OnlySavedMutations'
    BY <1>2, <2>2 DEF Load
  <2>4. StoreFor(r)[sid[r]] \in Data
    BY <2>1 DEF StoreFor, Contents, TypeOK
  <2> DEFINE d == StoreFor(r)[sid[r]]
  <2>5. PICK e \in Data : data' = [data EXCEPT ![r] = e] /\ \A k \in AllKeys : e[k] \in saved \cup {r, Unset}
    <3>1. [d EXCEPT ![User] = r] \in Data
      BY <2>4 DEF Data, AllKeys
    <3>2. \A k \in AllKeys : [d EXCEPT ![User] = r][k] \in {d[k], r}
      BY <2>4 DEF Data
    <3>3. \A k \in AllKeys : d[k] \in saved \cup {Unset}
      BY <2>1, <2>2
    <3>4. CASE data' = [data EXCEPT ![r] = d]
      BY <2>4, <3>3, <3>4
    <3>5. CASE data' = [data EXCEPT ![r] = [d EXCEPT ![User] = r]]
      BY <3>1, <3>2, <3>3, <3>5
    <3>6. QED
      BY <1>2, <3>4, <3>5 DEF Load
  <2>7. OwnValues'
    BY <1>2, <2>5 DEF Load, TypeOK
  <2>8. QED
    BY <2>3, <2>7
<1>3. ASSUME NEW r \in Requests, LoadFails(r) PROVE (OnlySavedMutations /\ OwnValues)'
  BY <1>3 DEF LoadFails
<1>4. ASSUME NEW r \in Requests, HasToken(r) PROVE (OnlySavedMutations /\ OwnValues)'
  BY <1>4 DEF HasToken
<1>5. ASSUME NEW r \in Requests, NewToken(r) PROVE (OnlySavedMutations /\ OwnValues)'
  <2> DEFINE d == [data[r] EXCEPT ![Token] = r]
  <2>1. d \in Data /\ r \in InFlight
    BY <1>5 DEF NewToken, Data, AllKeys, InFlight, TypeOK
  <2>2. \A k \in AllKeys : d[k] \in saved \cup {r, Unset}
    BY <1>5 DEF NewToken, AllKeys
  <2>3. ASSUME Saves(r, d) PROVE OnlySavedMutations' /\ OwnValues'
    <3>1. OnlySavedMutations' /\ saved' = saved \cup {r}
      BY <2>1, <2>2, <2>3, SavesTrace DEF Saves
    <3>2. OwnValues'
      BY <1>5, <2>1, <2>2, <3>1 DEF NewToken, TypeOK
    <3>3. QED
      BY <3>1, <3>2
  <2>4. ASSUME SaveRefused(r, d) PROVE OnlySavedMutations' /\ OwnValues'
    BY <1>5, <2>1, <2>2, <2>4 DEF NewToken, SaveRefused, TypeOK
  <2>5. QED
    BY <1>5, <2>3, <2>4 DEF NewToken
<1>6. ASSUME NEW r \in Requests, Abandon(r) PROVE (OnlySavedMutations /\ OwnValues)'
  BY <1>6 DEF Abandon
<1>7. ASSUME NEW r \in Requests, NEW put \in SUBSET Keys, NEW forget \in SUBSET AllKeys, Dispatch(r, put, forget) PROVE (OnlySavedMutations /\ OwnValues)'
  BY <1>7 DEF Dispatch
<1>8. ASSUME NEW r \in Requests, Save(r) PROVE (OnlySavedMutations /\ OwnValues)'
  <2> DEFINE d == data[r]
  <2>1. d \in Data /\ r \in InFlight
    BY <1>8 DEF Save, Data, AllKeys, InFlight, TypeOK
  <2>2. \A k \in AllKeys : d[k] \in saved \cup {r, Unset}
    BY <1>8 DEF Save, AllKeys
  <2>3. ASSUME Saves(r, d) PROVE OnlySavedMutations' /\ OwnValues'
    <3>1. OnlySavedMutations' /\ saved' = saved \cup {r}
      BY <2>1, <2>2, <2>3, SavesTrace DEF Saves
    <3>2. OwnValues'
      BY <1>8, <2>1, <2>2, <3>1 DEF Save, TypeOK
    <3>3. QED
      BY <3>1, <3>2
  <2>4. ASSUME SaveRefused(r, d) PROVE OnlySavedMutations' /\ OwnValues'
    BY <1>8, <2>1, <2>2, <2>4 DEF Save, SaveRefused, TypeOK
  <2>5. QED
    BY <1>8, <2>3, <2>4 DEF Save
<1>9. ASSUME NEW r \in Requests, NEW flash \in SUBSET Keys, Flash(r, flash) PROVE (OnlySavedMutations /\ OwnValues)'
  <2> DEFINE d == [k \in AllKeys |-> IF k \in flash THEN r ELSE data[r][k]]
  <2>1. d \in Data /\ r \in InFlight
    BY <1>9 DEF Flash, Data, AllKeys, InFlight, TypeOK
  <2>2. \A k \in AllKeys : d[k] \in saved \cup {r, Unset}
    BY <1>9 DEF Flash, AllKeys
  <2>3. ASSUME Saves(r, d) PROVE OnlySavedMutations' /\ OwnValues'
    <3>1. OnlySavedMutations' /\ saved' = saved \cup {r}
      BY <2>1, <2>2, <2>3, SavesTrace DEF Saves
    <3>2. OwnValues'
      BY <1>9, <2>1, <2>2, <3>1 DEF Flash, TypeOK
    <3>3. QED
      BY <3>1, <3>2
  <2>4. ASSUME SaveRefused(r, d) PROVE OnlySavedMutations' /\ OwnValues'
    BY <1>9, <2>1, <2>2, <2>4 DEF Flash, SaveRefused, TypeOK
  <2>5. QED
    BY <1>9, <2>3, <2>4 DEF Flash
<1>10. ASSUME NEW r \in Requests, Respond(r) PROVE (OnlySavedMutations /\ OwnValues)'
  BY <1>10 DEF Respond
<1>11. ASSUME NEW p \in Paths, Reconfigure(p) PROVE (OnlySavedMutations /\ OwnValues)'
  BY <1>11 DEF Reconfigure
<1>12. ASSUME Restart PROVE (OnlySavedMutations /\ OwnValues)'
  BY <1>12 DEF Restart, Empty, Nothing
<1>13. CASE UNCHANGED vars
  BY <1>13 DEF vars
<1>14. QED
  BY <1>1, <1>2, <1>3, <1>4, <1>5, <1>6, <1>7, <1>8, <1>9, <1>10, <1>11, <1>12, <1>13 DEF Next, Handle

\* A request is alone until another one of its session starts.
LEMMA ApartStep == TypeOK /\ Apart /\ [Next]_vars => Apart'
<1> SUFFICES ASSUME TypeOK, Apart, [Next]_vars PROVE Apart'
  OBVIOUS
<1> USE SessionsAssumption DEF TypeOK, Apart, kept, request, history, InFlight, Goto
<1>1. ASSUME NEW r \in Requests, Start(r) PROVE Apart'
  BY <1>1 DEF Start
<1>2. ASSUME NEW r \in Requests, Load(r) PROVE Apart'
  BY <1>2 DEF Load, StoreFor, MustRead
<1>3. ASSUME NEW r \in Requests, LoadFails(r) PROVE Apart'
  BY <1>3 DEF LoadFails
<1>4. ASSUME NEW r \in Requests, HasToken(r) PROVE Apart'
  BY <1>4 DEF HasToken
<1>5. ASSUME NEW r \in Requests, NewToken(r) PROVE Apart'
  BY <1>5 DEF NewToken
<1>6. ASSUME NEW r \in Requests, Abandon(r) PROVE Apart'
  BY <1>6 DEF Abandon
<1>7. ASSUME NEW r \in Requests, NEW put \in SUBSET Keys, NEW forget \in SUBSET AllKeys, Dispatch(r, put, forget) PROVE Apart'
  BY <1>7 DEF Dispatch
<1>8. ASSUME NEW r \in Requests, Save(r) PROVE Apart'
  BY <1>8 DEF Save
<1>9. ASSUME NEW r \in Requests, NEW flash \in SUBSET Keys, Flash(r, flash) PROVE Apart'
  BY <1>9 DEF Flash
<1>10. ASSUME NEW r \in Requests, Respond(r) PROVE Apart'
  BY <1>10 DEF Respond
<1>11. ASSUME NEW p \in Paths, Reconfigure(p) PROVE Apart'
  BY <1>11 DEF Reconfigure
<1>12. ASSUME Restart PROVE Apart'
  BY <1>12 DEF Restart
<1>13. CASE UNCHANGED vars
  BY <1>13 DEF vars
<1>14. QED
  BY <1>1, <1>2, <1>3, <1>4, <1>5, <1>6, <1>7, <1>8, <1>9, <1>10, <1>11, <1>12, <1>13 DEF Next, Handle

\* A save leaves the sessions of the other requests as they were.
LEMMA SavesCurrent ==
    ASSUME TypeOK, SavedSurvives, Apart, Current,
           NEW r \in Requests, r \in InFlight, pc[r] # "load", NEW d \in Data, Saves(r, d),
           driver' = driver, path' = path, sid' = sid, alone' = alone,
           \A q \in InFlight' : q \in InFlight /\ (pc'[q] # "load" <=> pc[q] # "load")
    PROVE  Current'
<1> SUFFICES ASSUME ~strayed', NEW q \in InFlight' \cap alone, pc'[q] # "load"
             PROVE  SavedPlace(q)'[sid[q]] = synced'[q]
  BY DEF Current
<1>1. q \in InFlight /\ q \in Requests /\ sid[q] \in Sessions /\ sid[r] \in Sessions /\ ~strayed
  BY DEF TypeOK, InFlight, Saves
<1>2. SavedPlace(q)[sid[q]] = synced[q]
  BY <1>1 DEF Current
<1>3. path[r] \in Paths /\ path[q] \in Paths
  BY <1>1 DEF TypeOK
<1>4. driver = "file" => store = file[path[r]]
  BY <1>1, <1>3, SessionsAssumption DEF Saves, SavedSurvives
<1>5. SavedPlace(q)' = [SavedPlace(q) EXCEPT ![sid[r]] = d] \/ (SavedPlace(q)' = SavedPlace(q) /\ q # r)
  BY <1>1, <1>3, <1>4 DEF SavedPlace, Saves, TypeOK
<1>6. synced' = [synced EXCEPT ![r] = d] /\ SavedPlace(q) \in Contents /\ synced \in [Requests -> Data]
  BY <1>3 DEF Saves, SavedPlace, TypeOK
<1>7. q = r => SavedPlace(q)'[sid[q]] = d
  BY <1>1, <1>5, <1>6 DEF Contents
<1>8. q # r => sid[q] # sid[r]
  BY <1>1 DEF Apart
<1>9. q # r => SavedPlace(q)'[sid[q]] = SavedPlace(q)[sid[q]]
  BY <1>1, <1>5, <1>6, <1>8 DEF Contents
<1>10. QED
  BY <1>1, <1>2, <1>6, <1>7, <1>9


\* What a request that is alone loaded or saved last stays there.
LEMMA CurrentStep == TypeOK /\ SavedSurvives /\ Apart /\ Current /\ [Next]_vars => Current'
<1> SUFFICES ASSUME TypeOK, SavedSurvives, Apart, Current, [Next]_vars PROVE Current'
  OBVIOUS
<1> USE SessionsAssumption DEF TypeOK, Current, SavedPlace, kept, request, history, InFlight, Goto
<1>1. ASSUME NEW r \in Requests, Start(r) PROVE Current'
  BY <1>1 DEF Start
<1>2. ASSUME NEW r \in Requests, Load(r) PROVE Current'
  <2> SUFFICES ASSUME ~strayed, NEW q \in InFlight' \cap alone, pc'[q] # "load"
               PROVE  SavedPlace(q)'[sid[q]] = synced'[q]
    BY <1>2 DEF Load
  <2>1. q \in InFlight /\ r \in InFlight /\ (q # r => pc[q] # "load")
    BY <1>2 DEF Load
  <2>2. driver = "file" => StoreFor(r) = file[path[r]]
    BY <2>1 DEF StoreFor, MustRead, SavedSurvives
  <2>3. driver # "file" => StoreFor(r) = store
    BY DEF StoreFor, MustRead
  <2>4. CASE q = r
    BY <1>2, <2>2, <2>3, <2>4 DEF Load
  <2>5. CASE q # r
    BY <1>2, <2>1, <2>3, <2>5 DEF Load
  <2>6. QED
    BY <2>4, <2>5
<1>3. ASSUME NEW r \in Requests, LoadFails(r) PROVE Current'
  BY <1>3 DEF LoadFails
<1>4. ASSUME NEW r \in Requests, HasToken(r) PROVE Current'
  BY <1>4 DEF HasToken
<1>5. ASSUME NEW r \in Requests, NewToken(r) PROVE Current'
  <2> DEFINE d == [data[r] EXCEPT ![Token] = r]
  <2>1. d \in Data /\ r \in InFlight /\ pc[r] # "load"
    BY <1>5 DEF NewToken, Data, AllKeys
  <2>2. /\ driver' = driver /\ path' = path /\ sid' = sid /\ alone' = alone
        /\ \A q \in InFlight' : q \in InFlight /\ (pc'[q] # "load" <=> pc[q] # "load")
    BY <1>5 DEF NewToken
  <2>3. ASSUME Saves(r, d) PROVE Current'
    BY <2>1, <2>2, <2>3, SavesCurrent DEF TypeOK
  <2>4. ASSUME SaveRefused(r, d) PROVE Current'
    BY <1>5, <2>4 DEF NewToken, SaveRefused
  <2>5. QED
    BY <1>5, <2>3, <2>4 DEF NewToken
<1>6. ASSUME NEW r \in Requests, Abandon(r) PROVE Current'
  BY <1>6 DEF Abandon
<1>7. ASSUME NEW r \in Requests, NEW put \in SUBSET Keys, NEW forget \in SUBSET AllKeys, Dispatch(r, put, forget) PROVE Current'
  BY <1>7 DEF Dispatch
<1>8. ASSUME NEW r \in Requests, Save(r) PROVE Current'
  <2> DEFINE d == data[r]
  <2>1. d \in Data /\ r \in InFlight /\ pc[r] # "load"
    BY <1>8 DEF Save, Data, AllKeys
  <2>2. /\ driver' = driver /\ path' = path /\ sid' = sid /\ alone' = alone
        /\ \A q \in InFlight' : q \in InFlight /\ (pc'[q] # "load" <=> pc[q] # "load")
    BY <1>8 DEF Save
  <2>3. ASSUME Saves(r, d) PROVE Current'
    BY <2>1, <2>2, <2>3, SavesCurrent DEF TypeOK
  <2>4. ASSUME SaveRefused(r, d) PROVE Current'
    BY <1>8, <2>4 DEF Save, SaveRefused
  <2>5. QED
    BY <1>8, <2>3, <2>4 DEF Save
<1>9. ASSUME NEW r \in Requests, NEW flash \in SUBSET Keys, Flash(r, flash) PROVE Current'
  <2> DEFINE d == [k \in AllKeys |-> IF k \in flash THEN r ELSE data[r][k]]
  <2>1. d \in Data /\ r \in InFlight /\ pc[r] # "load"
    BY <1>9 DEF Flash, Data, AllKeys
  <2>2. /\ driver' = driver /\ path' = path /\ sid' = sid /\ alone' = alone
        /\ \A q \in InFlight' : q \in InFlight /\ (pc'[q] # "load" <=> pc[q] # "load")
    BY <1>9 DEF Flash
  <2>3. ASSUME Saves(r, d) PROVE Current'
    BY <2>1, <2>2, <2>3, SavesCurrent DEF TypeOK
  <2>4. ASSUME SaveRefused(r, d) PROVE Current'
    BY <1>9, <2>4 DEF Flash, SaveRefused
  <2>5. QED
    BY <1>9, <2>3, <2>4 DEF Flash
<1>10. ASSUME NEW r \in Requests, Respond(r) PROVE Current'
  BY <1>10 DEF Respond
<1>11. ASSUME NEW p \in Paths, Reconfigure(p) PROVE Current'
  BY <1>11 DEF Reconfigure
<1>12. ASSUME Restart PROVE Current'
  BY <1>12 DEF Restart
<1>13. CASE UNCHANGED vars
  BY <1>13 DEF vars
<1>14. QED
  BY <1>1, <1>2, <1>3, <1>4, <1>5, <1>6, <1>7, <1>8, <1>9, <1>10, <1>11, <1>12, <1>13 DEF Next, Handle

--------------------------------------------------------------------------------

\* The initial states satisfy the invariant.
LEMMA InitInv == Init => Inv
<1> SUFFICES ASSUME Init PROVE Inv
  OBVIOUS
<1> USE SessionsAssumption DEF Init, InFlight
<1>1. Nothing \in Data /\ Empty \in Contents
  BY DEF Nothing, Data, Empty, Contents
<1>2. TypeOK
  <2>1. file \in [Paths -> Contents] /\ last \in [Paths -> Contents] /\ store \in Contents /\ expected \in Contents
    BY <1>1
  <2>2. data \in [Requests -> Data] /\ synced \in [Requests -> Data]
    BY <1>1
  <2>3. pc \in [Requests -> Locations] /\ path \in [Requests -> Paths \cup {Unset}]
    BY DEF Locations
  <2>4. \A r \in InFlight : path[r] # Unset
    OBVIOUS
  <2>5. /\ driver \in {"file", "memory"} /\ env \in Paths /\ loaded = Unset
        /\ sid \in [Requests -> Sessions] /\ saved = {} /\ alone = {} /\ strayed \in BOOLEAN
    OBVIOUS
  <2>6. changes \in 0..MaxChanges
    OBVIOUS
  <2>7. QED
    BY <2>1, <2>2, <2>3, <2>4, <2>5, <2>6, Zenon DEF TypeOK
<1>3. SavedSurvives /\ Apart /\ Current
  BY DEF SavedSurvives, Apart, Current
<1>4. OnlySavedMutations /\ OwnValues
  BY DEF OnlySavedMutations, OwnValues, Empty, Nothing
<1>5. QED
  BY <1>2, <1>3, <1>4 DEF Inv

\* The invariant is inductive: the code never leaves it.
THEOREM Inductive == Spec => []Inv
<1>1. Inv /\ [Next]_vars => Inv'
  BY TypeStep, SurvivesStep, TraceStep, ApartStep, CurrentStep DEF Inv
<1>2. QED
  BY InitInv, <1>1, PTL DEF Spec

\* Every reachable state of the session store is well typed.
THEOREM TypeCorrect == Spec => []TypeOK
<1>1. Inv => TypeOK
  BY DEF Inv
<1>2. QED
  BY Inductive, <1>1, PTL

\* saveSession and ensureFileSessionsLoaded: what was saved is what a later
\* request loads, also after restarts and after saves that were rolled back.
THEOREM SavedSessionsSurvive == Spec => []SavedSurvives
<1>1. Inv => SavedSurvives
  BY DEF Inv
<1>2. QED
  BY Inductive, <1>1, PTL

\* saveSession rolls back: a request whose saves failed leaves no trace.
THEOREM FailedSavesLeaveNoTrace == Spec => []OnlySavedMutations
<1>1. Inv => OnlySavedMutations
  BY DEF Inv
<1>2. QED
  BY Inductive, <1>1, PTL

\* MainHandler: a request that meets no other request of its session overwrites
\* nothing that it did not see.
THEOREM LoneRequestsSeeTheirSession == Spec => []SerialRequests
<1>1. Inv => SerialRequests
  BY SessionsAssumption DEF Inv, TypeOK, SavedSurvives, Current, SavedPlace, SerialRequests
<1>2. QED
  BY Inductive, <1>1, PTL

--------------------------------------------------------------------------------
(* Updates: the inductive invariant.                                       *)

BinaryFiles == {NoFileHere} \cup [v : Nat, whole : BOOLEAN]
UnixSteps == {"asleep", "download", "extract", "stage", "staged", "swap", "unlink", "retry", "sweep"}
WindowsSteps ==
    {"asleep", "download", "extract", "forget", "aside", "write", "fill", "undo", "drop", "undone"}
Counts == [updates : Nat, faults : Nat, ignored : Nat]
Installable == [v : Nat, whole : BOOLEAN]

Places == [Updaters -> [pc : IF system = "unix" THEN UnixSteps ELSE WindowsSteps,
                        new : Installable, img : {"none", "exe", "old"}]]

UpdaterTypes ==
    /\ system \in {"unix", "windows"}
    /\ exe \in BinaryFiles /\ old \in BinaryFiles /\ part \in [Updaters -> BinaryFiles]
    /\ up \in Places
    /\ spent \in Counts

\* Unix: who is about to rename has a whole file, and the path is empty only
\* after a first fault, for who comes to rename again.
OnUnix ==
    system = "unix" =>
        /\ \A u \in Updaters :
              /\ up[u].pc \in {"swap", "unlink", "retry"} => IsWhole(part[u])
              /\ up[u].pc \in {"unlink", "retry"} => spent.faults >= 1
              /\ up[u].pc \in {"stage", "staged"} => IsWhole(up[u].new)
        /\ spent.faults <= 1 => IsWhole(exe) \/ \E u \in Updaters : up[u].pc = "retry"

\* Who has moved the running file aside and is not through.
Replacing == {"write", "fill", "undo", "drop"}

\* Windows: a file that a process runs from is whole, one process replaces at a
\* time and runs from <exe>.old, and what is at the path follows from its step.
OnWindows ==
    system = "windows" =>
        /\ \A u \in Updaters :
              /\ up[u].img = "exe" => IsWhole(exe)
              /\ up[u].img = "old" => IsWhole(old)
              /\ up[u].pc \in {"download", "extract", "forget", "aside"} => up[u].img # "none"
              /\ up[u].pc \in {"forget", "aside", "write", "fill"} => IsWhole(up[u].new)
              /\ up[u].pc \in Replacing => up[u].img = "old"
              /\ up[u].pc \in {"write", "fill", "undo"} => ~IsWhole(exe)
              /\ up[u].pc = "undo" => spent.faults >= 1
        /\ \A u, w \in Updaters : up[u].pc \in Replacing /\ up[w].pc \in Replacing => u = w
        /\ IsWhole(exe) \/ IsWhole(old)
        /\ spent.faults = 0 => IsWhole(exe) \/ \E u \in Updaters : up[u].pc \in {"write", "fill"}

SoundUpdates == UpdaterTypes /\ OnUnix /\ OnWindows

\* All of that holds unless a failure was ignored, which is one of the faults.
UpdaterInv ==
    /\ UpdaterTypes
    /\ spent.ignored <= spent.faults
    /\ spent.ignored = 0 => SoundUpdates

--------------------------------------------------------------------------------
(* Updates: lemmas on the operators.                                       *)

\* A set of numbers has a least one.
LEMMA LeastNumber ==
    ASSUME NEW T \in SUBSET Nat, T # {}
    PROVE  \E i \in T : \A j \in T : i <= j
<1>1. PICK R : R = {ij \in Nat \X Nat : ij[1] < ij[2]}
  OBVIOUS
<1>2. IsWellFoundedOn(R, Nat)
  BY <1>1, NatLessThanWellFounded DEF OpToRel
<1>3. PICK i \in T : \A j \in T : ~(<<j, i>> \in R)
  BY ONLY WFMin, <1>2, T \in SUBSET Nat, T # {}
<1>4. \A j \in T : i \in Nat /\ j \in Nat /\ ~(j < i)
  BY <1>1, <1>3
<1> QED BY <1>4

\* The domain and the entries of a sequence.
LEMMA SequenceEntries ==
    ASSUME NEW S, NEW s \in Seq(S)
    PROVE  DOMAIN s = 1..Len(s) /\ Len(s) \in Nat /\ \A i \in 1..Len(s) : s[i] \in S
OBVIOUS

\* Every channel has a release (selectReleaseByChannel).
LEMMA ChannelHasRelease ==
    ASSUME NEW channel
    PROVE  selectReleaseByChannel(channel).v \in Nat
<1> DEFINE Suits(r) == ~r.draft /\ r.pre = (channel = "canary")
           fit == {i \in DOMAIN Releases : Suits(Releases[i])}
           first == CHOOSE i \in fit : \A j \in fit : i <= j
<1>1. /\ \A i \in DOMAIN Releases : i \in Nat /\ Releases[i] \in [v : Nat, draft : BOOLEAN, pre : BOOLEAN]
      /\ 1 \in DOMAIN Releases
  <2>1. /\ DOMAIN Releases = 1..Len(Releases) /\ Len(Releases) \in Nat
        /\ \A i \in 1..Len(Releases) : Releases[i] \in [v : Nat, draft : BOOLEAN, pre : BOOLEAN]
    BY UpdaterAssumption, SequenceEntries, Zenon
  <2>2. Len(Releases) > 0
    BY UpdaterAssumption
  <2> QED BY <2>1, <2>2
<1>2. \A i \in DOMAIN Releases : Releases[i].v \in Nat
  BY <1>1
<1>3. CASE fit = {}
  BY <1>1, <1>2, <1>3 DEF selectReleaseByChannel
<1>4. CASE fit # {}
  <2>1. fit \in SUBSET Nat
    BY <1>1
  <2>2. \E i \in fit : \A j \in fit : i <= j
    BY <1>4, <2>1, LeastNumber
  <2>3. first \in fit
    <3> HIDE DEF fit
    <3> QED BY <2>2
  <2>4. selectReleaseByChannel(channel) = Releases[first]
    BY <1>4 DEF selectReleaseByChannel
  <2>5. first \in DOMAIN Releases
    BY <2>3
  <2> HIDE DEF first
  <2> QED BY <1>2, <2>4, <2>5
<1> QED BY <1>3, <1>4

\* Whole and torn files.
LEMMA Binaries ==
    ASSUME NEW v \in Nat
    PROVE  /\ Binary(v) \in BinaryFiles /\ IsWhole(Binary(v))
           /\ Torn(v) \in BinaryFiles /\ ~IsWhole(Torn(v)) /\ Torn(v) \in Installable
           /\ NoFileHere \in BinaryFiles /\ ~IsWhole(NoFileHere)
<1>1. \A b \in BOOLEAN : /\ [v |-> v, whole |-> b] \in [v : Nat, whole : BOOLEAN]
                         /\ [v |-> v, whole |-> b] # NoFileHere
  BY UpdaterAssumption
<1> QED BY <1>1 DEF Binary, Torn, IsWhole, BinaryFiles, Installable

\* What a process has to install is a file.
LEMMA InstallablesAreFiles ==
    ASSUME NEW f \in Installable
    PROVE  f \in BinaryFiles /\ Torn(f.v) \in BinaryFiles /\ ~IsWhole(Torn(f.v))
<1>1. f.v \in Nat
  BY DEF Installable
<1> QED BY <1>1, Binaries DEF Installable, BinaryFiles

\* Where a process can be.
LEMMA ProcessesAreTyped ==
    ASSUME UpdaterTypes, NEW u \in Updaters
    PROVE  /\ up[u].new \in Installable /\ up[u].img \in {"none", "exe", "old"}
           /\ system = "unix" => up[u].pc \in UnixSteps
           /\ system = "windows" => up[u].pc \in WindowsSteps
BY DEF UpdaterTypes, Places

\* A step of one process changes its place and nothing else of it.
LEMMA StepChanges ==
    ASSUME UpdaterTypes, NEW u \in Updaters, NEW from, NEW to, Step(u, from, to),
           to \in IF system = "unix" THEN UnixSteps ELSE WindowsSteps, system' = system
    PROVE  /\ up' \in Places'
           /\ up[u].pc = from /\ up'[u].pc = to /\ up'[u].img = up[u].img /\ up'[u].new = up[u].new
           /\ \A w \in Updaters : w # u => up'[w] = up[w]
<1>1. PICK t : t = [up[u] EXCEPT !.pc = to]
  OBVIOUS
<1>2. /\ t \in [pc : IF system = "unix" THEN UnixSteps ELSE WindowsSteps, new : Installable, img : {"none", "exe", "old"}]
      /\ t.pc = to /\ t.img = up[u].img /\ t.new = up[u].new
  BY <1>1 DEF UpdaterTypes, Places
<1>3. up' = [up EXCEPT ![u] = t] /\ up[u].pc = from
  BY <1>1 DEF Step
<1> QED BY <1>2, <1>3 DEF UpdaterTypes, Places

\* A process that stops is asleep.
LEMMA StopChanges ==
    ASSUME UpdaterTypes, NEW u \in Updaters, Stop(u), system' = system
    PROVE  /\ up' \in Places'
           /\ up'[u].pc = "asleep" /\ up'[u].img = "none"
           /\ \A w \in Updaters : w # u => up'[w] = up[w]
<1>1. /\ Asleep.pc = "asleep" /\ Asleep.img = "none"
      /\ Asleep \in [pc : IF system = "unix" THEN UnixSteps ELSE WindowsSteps, new : Installable, img : {"none", "exe", "old"}]
  BY Binaries DEF Asleep, UnixSteps, WindowsSteps
<1> QED BY <1>1 DEF Stop, UpdaterTypes, Places

\* A fault is counted.
LEMMA FaultChanges ==
    ASSUME UpdaterTypes, Fault
    PROVE  /\ spent' \in Counts
           /\ spent'.faults = spent.faults + 1 /\ spent.faults \in Nat
           /\ spent'.ignored = spent.ignored
<1>1. PICK t : t = [spent EXCEPT !.faults = @ + 1]
  OBVIOUS
<1>2. /\ t \in Counts /\ t.faults = spent.faults + 1 /\ spent.faults \in Nat
      /\ t.ignored = spent.ignored
  BY <1>1 DEF UpdaterTypes, Counts
<1> QED BY <1>1, <1>2 DEF Fault

--------------------------------------------------------------------------------
(* Updates: the steps on Unix.                                             *)

\* The types, when the places of the processes and the count of faults have theirs.
LEMMA KeepsTypes ==
    ASSUME UpdaterTypes, system' = system,
           exe' \in BinaryFiles, old' \in BinaryFiles, part' \in [Updaters -> BinaryFiles],
           up' \in Places',
           spent' = spent \/ spent' \in Counts
    PROVE  UpdaterTypes'
BY DEF UpdaterTypes

\* The temporary file is created, or nothing happens any more.
LEMMA StageKeeps ==
    ASSUME SoundUpdates, NEW u \in Updaters, Stage(u)
    PROVE  SoundUpdates'
<1> USE DEF SoundUpdates
<1>1. /\ up[u].pc = "stage" /\ system = "unix" /\ system' = system /\ exe' = exe /\ old' = old
      /\ up[u].new \in Installable
  BY ProcessesAreTyped DEF Stage, Step, WindowsSteps, UpdaterTypes
<1>2. CASE Step(u, "stage", "staged") /\ part' = [part EXCEPT ![u] = Torn(up[u].new.v)] /\ UNCHANGED spent
  <2>1. /\ up' \in Places'
        /\ up'[u].pc = "staged" /\ up'[u].new = up[u].new /\ IsWhole(up[u].new)
        /\ \A w \in Updaters : w # u => up'[w] = up[w]
    BY <1>1, <1>2, StepChanges DEF UnixSteps, OnUnix
  <2>2. part' \in [Updaters -> BinaryFiles] /\ \A w \in Updaters : w # u => part'[w] = part[w]
    BY <1>1, <1>2, InstallablesAreFiles DEF UpdaterTypes
  <2>3. UpdaterTypes'
    BY <1>1, <1>2, <2>1, <2>2, KeepsTypes DEF UpdaterTypes
  <2>4. OnUnix' /\ OnWindows'
    BY <1>1, <1>2, <2>1, <2>2 DEF OnUnix, OnWindows, IsWhole
  <2> QED BY <2>3, <2>4
<1>3. CASE Fault /\ Stop(u) /\ UNCHANGED part
  <2>1. /\ up' \in Places'
        /\ up'[u].pc = "asleep" /\ \A w \in Updaters : w # u => up'[w] = up[w]
    BY <1>1, <1>3, StopChanges
  <2>2. spent' \in Counts /\ spent'.faults = spent.faults + 1 /\ spent.faults \in Nat
    BY <1>3, FaultChanges
  <2>3. UpdaterTypes'
    BY <1>1, <1>3, <2>1, <2>2, KeepsTypes DEF UpdaterTypes
  <2>4. OnUnix' /\ OnWindows'
    BY <1>1, <1>3, <2>1, <2>2 DEF OnUnix, OnWindows, IsWhole
  <2> QED BY <2>3, <2>4
<1> QED BY <1>2, <1>3 DEF Stage

\* It is written.
LEMMA StagedKeeps ==
    ASSUME SoundUpdates, NEW u \in Updaters, Staged(u)
    PROVE  SoundUpdates'
<1> USE DEF SoundUpdates
<1>1. /\ up[u].pc = "staged" /\ system = "unix" /\ system' = system /\ exe' = exe /\ old' = old
      /\ up[u].new \in Installable
  BY ProcessesAreTyped DEF Staged, Step, WindowsSteps, UpdaterTypes
<1>2. CASE Step(u, "staged", "swap") /\ part' = [part EXCEPT ![u] = up[u].new] /\ UNCHANGED spent
  <2>1. /\ up' \in Places'
        /\ up'[u].pc = "swap" /\ \A w \in Updaters : w # u => up'[w] = up[w]
    BY <1>1, <1>2, StepChanges DEF UnixSteps
  <2>2. /\ part' \in [Updaters -> BinaryFiles] /\ \A w \in Updaters : w # u => part'[w] = part[w]
        /\ IsWhole(part'[u])
    BY <1>1, <1>2, InstallablesAreFiles DEF UpdaterTypes, OnUnix
  <2>3. UpdaterTypes'
    BY <1>1, <1>2, <2>1, <2>2, KeepsTypes DEF UpdaterTypes
  <2>4. OnUnix' /\ OnWindows'
    BY <1>1, <1>2, <2>1, <2>2 DEF OnUnix, OnWindows, IsWhole
  <2> QED BY <2>3, <2>4
<1>3. CASE Fault /\ Stop(u) /\ UNCHANGED part
  <2>1. /\ up' \in Places'
        /\ up'[u].pc = "asleep" /\ \A w \in Updaters : w # u => up'[w] = up[w]
    BY <1>1, <1>3, StopChanges
  <2>2. spent' \in Counts /\ spent'.faults = spent.faults + 1 /\ spent.faults \in Nat
    BY <1>3, FaultChanges
  <2>3. UpdaterTypes'
    BY <1>1, <1>3, <2>1, <2>2, KeepsTypes DEF UpdaterTypes
  <2>4. OnUnix' /\ OnWindows'
    BY <1>1, <1>3, <2>1, <2>2 DEF OnUnix, OnWindows, IsWhole
  <2> QED BY <2>3, <2>4
<1> QED BY <1>2, <1>3 DEF Staged

\* The first rename, or its failure.
LEMMA SwapKeeps ==
    ASSUME SoundUpdates, NEW u \in Updaters, Swap(u)
    PROVE  SoundUpdates'
<1> USE DEF SoundUpdates
<1>1. up[u].pc = "swap" /\ system = "unix" /\ system' = system /\ old' = old /\ IsWhole(part[u])
  BY ProcessesAreTyped DEF Swap, WindowsSteps, UpdaterTypes, OnUnix
<1>2. CASE /\ exe' = part[u] /\ UNCHANGED spent
           /\ up' = [up EXCEPT ![u].pc = "sweep"]
           /\ part' = [part EXCEPT ![u] = NoFileHere]
  <2>1. Step(u, "swap", "sweep")
    BY <1>1, <1>2 DEF Step
  <2>2. /\ up' \in Places'
        /\ up'[u].pc = "sweep" /\ \A w \in Updaters : w # u => up'[w] = up[w]
    BY <1>1, <2>1, StepChanges DEF UnixSteps
  <2>3. /\ part' \in [Updaters -> BinaryFiles] /\ \A w \in Updaters : w # u => part'[w] = part[w]
        /\ exe' \in BinaryFiles /\ IsWhole(exe')
    BY <1>1, <1>2 DEF UpdaterTypes, BinaryFiles
  <2>4. UpdaterTypes'
    BY <1>1, <1>2, <2>2, <2>3, KeepsTypes DEF UpdaterTypes
  <2>5. OnUnix' /\ OnWindows'
    BY <1>1, <1>2, <2>2, <2>3 DEF OnUnix, OnWindows, IsWhole
  <2> QED BY <2>4, <2>5
<1>3. CASE /\ Fault /\ UNCHANGED <<exe, part>>
           /\ \E to \in {"sweep", "unlink"} : up' = [up EXCEPT ![u].pc = to]
  <2>1. PICK to \in {"sweep", "unlink"} : Step(u, "swap", to)
    BY <1>1, <1>3 DEF Step
  <2>2. /\ up' \in Places'
        /\ up'[u].pc = to /\ \A w \in Updaters : w # u => up'[w] = up[w]
    BY <1>1, <2>1, StepChanges DEF UnixSteps
  <2>3. spent' \in Counts /\ spent'.faults = spent.faults + 1 /\ spent.faults \in Nat
    BY <1>3, FaultChanges
  <2>4. UpdaterTypes'
    BY <1>1, <1>3, <2>2, <2>3, KeepsTypes DEF UpdaterTypes
  <2>5. OnUnix' /\ OnWindows'
    BY <1>1, <1>3, <2>2, <2>3 DEF OnUnix, OnWindows, IsWhole
  <2> QED BY <2>4, <2>5
<1> QED BY <1>2, <1>3 DEF Swap

\* The path is emptied for the second rename.
LEMMA UnlinkKeeps ==
    ASSUME SoundUpdates, NEW u \in Updaters, Unlink(u)
    PROVE  SoundUpdates'
<1> USE DEF SoundUpdates
<1>1. /\ up[u].pc = "unlink" /\ system = "unix" /\ system' = system /\ old' = old /\ part' = part
      /\ spent' = spent /\ exe' = NoFileHere
  BY ProcessesAreTyped DEF Unlink, Step, WindowsSteps, UpdaterTypes
<1>2. /\ up' \in Places'
      /\ up'[u].pc = "retry" /\ \A w \in Updaters : w # u => up'[w] = up[w]
  BY <1>1, StepChanges DEF Unlink, UnixSteps
<1>3. UpdaterTypes'
  BY <1>1, <1>2, KeepsTypes DEF UpdaterTypes, BinaryFiles
<1>4. OnUnix' /\ OnWindows'
  BY <1>1, <1>2 DEF OnUnix, OnWindows, IsWhole
<1> QED BY <1>3, <1>4

\* The second rename.
LEMMA RetryKeeps ==
    ASSUME SoundUpdates, NEW u \in Updaters, Retry(u)
    PROVE  SoundUpdates'
<1> USE DEF SoundUpdates
<1>1. /\ up[u].pc = "retry" /\ system = "unix" /\ system' = system /\ old' = old
      /\ IsWhole(part[u]) /\ spent.faults >= 1
  BY ProcessesAreTyped DEF Retry, WindowsSteps, UpdaterTypes, OnUnix
<1>2. /\ up' \in Places'
      /\ up'[u].pc = "sweep" /\ \A w \in Updaters : w # u => up'[w] = up[w]
  <2>1. Step(u, "retry", "sweep")
    BY DEF Retry, Step
  <2> QED BY <1>1, <2>1, StepChanges DEF UnixSteps
<1>3. CASE exe' = part[u] /\ part' = [part EXCEPT ![u] = NoFileHere] /\ UNCHANGED spent
  <2>1. /\ part' \in [Updaters -> BinaryFiles] /\ \A w \in Updaters : w # u => part'[w] = part[w]
        /\ exe' \in BinaryFiles /\ IsWhole(exe')
    BY <1>1, <1>3 DEF UpdaterTypes, BinaryFiles
  <2>2. UpdaterTypes'
    BY <1>1, <1>2, <1>3, <2>1, KeepsTypes DEF UpdaterTypes
  <2>3. OnUnix' /\ OnWindows'
    BY <1>1, <1>2, <1>3, <2>1 DEF OnUnix, OnWindows, IsWhole
  <2> QED BY <2>2, <2>3
<1>4. CASE Fault /\ UNCHANGED <<exe, part>>
  <2>1. spent' \in Counts /\ spent'.faults = spent.faults + 1 /\ spent.faults \in Nat
    BY <1>4, FaultChanges
  <2>2. UpdaterTypes'
    BY <1>1, <1>2, <1>4, <2>1, KeepsTypes DEF UpdaterTypes
  <2>3. OnUnix' /\ OnWindows'
    BY <1>1, <1>2, <1>4, <2>1 DEF OnUnix, OnWindows, IsWhole
  <2> QED BY <2>2, <2>3
<1> QED BY <1>3, <1>4 DEF Retry

\* The temporary file is removed.
LEMMA SweepKeeps ==
    ASSUME SoundUpdates, NEW u \in Updaters, Sweep(u)
    PROVE  SoundUpdates'
<1> USE DEF SoundUpdates
<1>1. /\ up[u].pc = "sweep" /\ system = "unix" /\ system' = system /\ old' = old /\ exe' = exe
      /\ spent' = spent
  BY ProcessesAreTyped DEF Sweep, WindowsSteps, UpdaterTypes
<1>2. /\ up' \in Places'
      /\ up'[u].pc = "asleep" /\ \A w \in Updaters : w # u => up'[w] = up[w]
  BY <1>1, StopChanges DEF Sweep
<1>3. part' \in [Updaters -> BinaryFiles] /\ \A w \in Updaters : w # u => part'[w] = part[w]
  BY DEF Sweep, UpdaterTypes, BinaryFiles
<1>4. UpdaterTypes'
  BY <1>1, <1>2, <1>3, KeepsTypes DEF UpdaterTypes
<1>5. OnUnix' /\ OnWindows'
  BY <1>1, <1>2, <1>3 DEF OnUnix, OnWindows, IsWhole
<1> QED BY <1>4, <1>5

--------------------------------------------------------------------------------
(* Updates: the steps on Windows.                                          *)

\* A file moves with the processes that run from it.
LEMMA MovesChanges ==
    ASSUME UpdaterTypes, NEW u \in Updaters, NEW to \in WindowsSteps, system = "windows",
           system' = system, NEW a \in {"exe", "old"}, NEW b \in {"exe", "old"},
           Moves(a, b, At(u, to))
    PROVE  /\ up' \in Places'
           /\ up'[u].pc = to /\ \A w \in Updaters : w # u => up'[w].pc = up[w].pc
           /\ \A w \in Updaters : /\ up'[w].img = IF up[w].img = a THEN b ELSE up[w].img
                                 /\ up'[w].new = up[w].new
<1> DEFINE moved(w) == [pc |-> IF w = u THEN to ELSE up[w].pc, new |-> up[w].new,
                       img |-> IF up[w].img = a THEN b ELSE up[w].img]
<1>1. up' = [w \in Updaters |-> moved(w)]
  <2>1. PICK pcs : pcs = At(u, to)
    OBVIOUS
  <2>2. \A w \in Updaters : pcs[w] = IF w = u THEN to ELSE up[w].pc
    BY <2>1 DEF At
  <2>3. up' = [w \in Updaters |-> [pc |-> pcs[w], new |-> up[w].new,
                                  img |-> IF up[w].img = a THEN b ELSE up[w].img]]
    BY <2>1 DEF Moves
  <2> QED BY <2>2, <2>3
<1>2. \A w \in Updaters : /\ moved(w) \in [pc : WindowsSteps, new : Installable, img : {"none", "exe", "old"}]
                          /\ moved(w).pc = IF w = u THEN to ELSE up[w].pc
                          /\ moved(w).img = IF up[w].img = a THEN b ELSE up[w].img
                          /\ moved(w).new = up[w].new
  BY ProcessesAreTyped
<1> HIDE DEF moved
<1>3. up' \in Places'
  BY <1>1, <1>2 DEF Places
<1> QED BY <1>1, <1>2, <1>3

\* <exe>.old is removed unless a process runs from it.
LEMMA ForgetOldKeeps ==
    ASSUME SoundUpdates, NEW u \in Updaters, ForgetOld(u)
    PROVE  SoundUpdates'
<1> USE DEF SoundUpdates
<1>1. /\ up[u].pc = "forget" /\ system = "windows" /\ system' = system /\ exe' = exe /\ part' = part
      /\ spent' = spent
  BY ProcessesAreTyped DEF ForgetOld, Step, UnixSteps, UpdaterTypes
<1>2. /\ up' \in Places' /\ up'[u].pc = "aside" /\ up'[u].img = up[u].img /\ up'[u].new = up[u].new
      /\ \A w \in Updaters : w # u => up'[w] = up[w]
  BY <1>1, StepChanges DEF ForgetOld, WindowsSteps
<1>3. /\ old' = old \/ old' = NoFileHere
      /\ Runs("old") => old' = old
  BY DEF ForgetOld
<1>4. UpdaterTypes'
  BY <1>1, <1>2, <1>3, KeepsTypes DEF UpdaterTypes, BinaryFiles
<1>5. up[u].img = "exe" \/ up[u].img = "old"
  BY <1>1, ProcessesAreTyped DEF OnWindows
<1>6. (\E w \in Updaters : up[w].img = "old") => old' = old
  BY <1>3 DEF Runs
<1>7. IsWhole(exe) \/ old' = old
  BY <1>1, <1>5, <1>6 DEF OnWindows
<1>8. OnUnix' /\ OnWindows'
  BY <1>1, <1>2, <1>5, <1>6, <1>7 DEF OnUnix, OnWindows, IsWhole, Replacing
<1> QED BY <1>4, <1>8

\* The executable is moved aside, or the update is given up.
LEMMA AsideKeeps ==
    ASSUME SoundUpdates, NEW u \in Updaters, Aside(u)
    PROVE  SoundUpdates'
<1> USE DEF SoundUpdates
<1>1. up[u].pc = "aside" /\ system = "windows" /\ system' = system /\ part' = part
  BY ProcessesAreTyped DEF Aside, UnixSteps, UpdaterTypes
<1>2. CASE /\ exe # NoFileHere /\ ~Runs("old")
           /\ old' = exe /\ exe' = NoFileHere
           /\ Moves("exe", "old", At(u, "write"))
           /\ UNCHANGED spent
  <2>1. \A w \in Updaters : up[w].img # "old" /\ up[w].pc \notin Replacing
    BY <1>1, <1>2 DEF Runs, OnWindows
  <2>2. up[u].img = "exe" /\ IsWhole(exe)
    BY <1>1, <2>1, ProcessesAreTyped DEF OnWindows
  <2>3. /\ up' \in Places' /\ up'[u].pc = "write" /\ \A w \in Updaters : w # u => up'[w].pc = up[w].pc
        /\ \A w \in Updaters : /\ up'[w].img = IF up[w].img = "exe" THEN "old" ELSE up[w].img
                              /\ up'[w].new = up[w].new
    BY <1>1, <1>2, MovesChanges DEF WindowsSteps
  <2>4. UpdaterTypes'
    BY <1>1, <1>2, <2>3, KeepsTypes DEF UpdaterTypes, BinaryFiles
  <2>5. \A w \in Updaters : /\ up'[w].img # "exe" /\ (up'[w].img = "old" => IsWhole(old)')
                            /\ w # u => up'[w].pc \notin Replacing /\ up'[w].pc = up[w].pc
                            /\ up'[w].pc \in {"download", "extract", "forget", "aside"} => up'[w].img # "none"
                            /\ up'[w].pc \in {"forget", "aside", "write", "fill"} => IsWhole(up'[w].new)
    BY <1>1, <1>2, <2>1, <2>2, <2>3 DEF IsWhole, OnWindows, Replacing
  <2>6. OnUnix' /\ OnWindows'
    BY <1>1, <1>2, <2>1, <2>2, <2>3, <2>5 DEF OnUnix, OnWindows, IsWhole, Replacing
  <2> QED BY <2>4, <2>6
<1>3. CASE Stop(u) /\ UNCHANGED <<exe, old>> /\ (UNCHANGED spent \/ Fault)
  <2>1. /\ up' \in Places' /\ up'[u].pc = "asleep" /\ up'[u].img = "none"
        /\ \A w \in Updaters : w # u => up'[w] = up[w]
    BY <1>1, <1>3, StopChanges
  <2>2. /\ spent' = spent \/ spent' \in Counts
        /\ spent.faults \in Nat /\ (spent' = spent \/ spent'.faults = spent.faults + 1)
    BY <1>3, FaultChanges DEF UpdaterTypes, Counts
  <2>3. UpdaterTypes'
    BY <1>1, <1>3, <2>1, <2>2, KeepsTypes DEF UpdaterTypes
  <2>4. /\ exe' = exe /\ old' = old
        /\ spent'.faults = 0 => spent.faults = 0
        /\ spent.faults >= 1 => spent'.faults >= 1
    BY <1>3, <2>2
  <2>5. OnUnix' /\ OnWindows'
    BY <1>1, <2>1, <2>4 DEF OnUnix, OnWindows, IsWhole, Replacing
  <2> QED BY <2>3, <2>5
<1> QED BY <1>2, <1>3 DEF Aside

\* The new file is created or written, or the update is to be undone.
LEMMA WritingKeeps ==
    ASSUME SoundUpdates, NEW u \in Updaters, Create(u) \/ Finish(u)
    PROVE  SoundUpdates'
<1> USE DEF SoundUpdates
<1>1. /\ up[u].pc \in {"write", "fill"} /\ system = "windows" /\ system' = system
      /\ old' = old /\ part' = part /\ up[u].new \in Installable
  BY ProcessesAreTyped DEF Create, Finish, Step, UnixSteps, UpdaterTypes
<1>2. /\ up[u].img = "old" /\ IsWhole(old) /\ ~IsWhole(exe) /\ IsWhole(up[u].new)
      /\ \A w \in Updaters : w # u => up[w].pc \notin Replacing /\ up[w].img # "exe"
  BY <1>1 DEF OnWindows, Replacing
<1>3. PICK to \in {"fill", "drop", "undo"} :
        /\ up' \in Places' /\ up'[u].pc = to /\ up'[u].img = "old" /\ up'[u].new = up[u].new
        /\ \A w \in Updaters : w # u => up'[w] = up[w]
        /\ \/ to = "fill" /\ exe' = Torn(up[u].new.v) /\ UNCHANGED spent
           \/ to = "drop" /\ exe' = up[u].new /\ UNCHANGED spent
           \/ to = "undo" /\ exe' = exe /\ Fault
  <2>1. PICK to \in {"fill", "drop", "undo"}, from \in {"write", "fill"} :
           /\ Step(u, from, to)
           /\ \/ to = "fill" /\ exe' = Torn(up[u].new.v) /\ UNCHANGED spent
              \/ to = "drop" /\ exe' = up[u].new /\ UNCHANGED spent
              \/ to = "undo" /\ exe' = exe /\ Fault
    BY DEF Create, Finish
  <2> QED BY <1>1, <1>2, <2>1, StepChanges DEF WindowsSteps
<1>4. /\ spent' = spent \/ spent' \in Counts
      /\ spent.faults \in Nat /\ (spent' = spent \/ spent'.faults = spent.faults + 1)
      /\ to = "undo" => spent'.faults = spent.faults + 1
      /\ to # "undo" => spent' = spent
  BY <1>3, FaultChanges DEF UpdaterTypes, Counts
<1>5. /\ exe' \in BinaryFiles
      /\ to = "drop" => IsWhole(exe')
      /\ to # "drop" => ~IsWhole(exe')
  BY <1>1, <1>2, <1>3, InstallablesAreFiles DEF UpdaterTypes
<1>6. UpdaterTypes'
  BY <1>1, <1>3, <1>4, <1>5, KeepsTypes DEF UpdaterTypes
<1>7. OnUnix' /\ OnWindows'
  BY <1>1, <1>2, <1>3, <1>4, <1>5 DEF OnUnix, OnWindows, IsWhole, Replacing
<1> QED BY <1>6, <1>7

\* The old executable is put back, or nothing is done any more.
LEMMA UndoKeeps ==
    ASSUME SoundUpdates, NEW u \in Updaters, Undo(u)
    PROVE  SoundUpdates'
<1> USE DEF SoundUpdates
<1>1. up[u].pc = "undo" /\ system = "windows" /\ system' = system /\ part' = part
  BY ProcessesAreTyped DEF Undo, UnixSteps, UpdaterTypes
<1>2. /\ up[u].img = "old" /\ IsWhole(old) /\ ~IsWhole(exe) /\ spent.faults >= 1 /\ spent.faults \in Nat
      /\ \A w \in Updaters : (w # u => up[w].pc \notin Replacing) /\ up[w].img # "exe"
  BY <1>1 DEF OnWindows, Replacing, UpdaterTypes, Counts
<1>3. CASE exe' = old /\ old' = NoFileHere /\ Moves("old", "exe", At(u, "undone")) /\ UNCHANGED spent
  <2>1. /\ up' \in Places' /\ up'[u].pc = "undone" /\ \A w \in Updaters : w # u => up'[w].pc = up[w].pc
        /\ \A w \in Updaters : /\ up'[w].img = IF up[w].img = "old" THEN "exe" ELSE up[w].img
                              /\ up'[w].new = up[w].new
    BY <1>1, <1>3, MovesChanges DEF WindowsSteps
  <2>2. UpdaterTypes'
    BY <1>1, <1>3, <2>1, KeepsTypes DEF UpdaterTypes, BinaryFiles
  <2>3. \A w \in Updaters : /\ up'[w].img # "old" /\ up'[w].pc \notin Replacing
                            /\ up'[w].pc \in {"download", "extract", "forget", "aside"} => up'[w].img # "none"
                            /\ up'[w].pc \in {"forget", "aside", "write", "fill"} => IsWhole(up'[w].new)
    BY <1>1, <1>2, <2>1 DEF OnWindows, Replacing
  <2>4. OnUnix' /\ OnWindows'
    BY <1>1, <1>2, <1>3, <2>1, <2>3 DEF OnUnix, OnWindows, IsWhole, Replacing
  <2> QED BY <2>2, <2>4
<1>4. CASE Fault /\ Stop(u) /\ UNCHANGED <<exe, old>>
  <2>1. /\ up' \in Places' /\ up'[u].pc = "asleep" /\ up'[u].img = "none"
        /\ \A w \in Updaters : w # u => up'[w] = up[w]
    BY <1>1, <1>4, StopChanges
  <2>2. spent' \in Counts /\ spent'.faults = spent.faults + 1
    BY <1>4, FaultChanges
  <2>3. UpdaterTypes'
    BY <1>1, <1>4, <2>1, <2>2, KeepsTypes DEF UpdaterTypes
  <2>4. OnUnix' /\ OnWindows'
    BY <1>1, <1>2, <1>4, <2>1, <2>2 DEF OnUnix, OnWindows, IsWhole, Replacing
  <2> QED BY <2>3, <2>4
<1> QED BY <1>3, <1>4 DEF Undo

\* The update is over.
LEMMA DropOldKeeps ==
    ASSUME SoundUpdates, NEW u \in Updaters, DropOld(u)
    PROVE  SoundUpdates'
<1> USE DEF SoundUpdates
<1>1. /\ up[u].pc \in {"drop", "undone"} /\ system = "windows" /\ system' = system
      /\ exe' = exe /\ old' = old /\ part' = part /\ spent' = spent
  BY ProcessesAreTyped DEF DropOld, UnixSteps, UpdaterTypes
<1>2. /\ up' \in Places' /\ up'[u].pc = "asleep" /\ up'[u].img = "none"
      /\ \A w \in Updaters : w # u => up'[w] = up[w]
  BY <1>1, StopChanges DEF DropOld
<1>3. UpdaterTypes'
  BY <1>1, <1>2, KeepsTypes DEF UpdaterTypes
<1>4. OnUnix' /\ OnWindows'
  BY <1>1, <1>2 DEF OnUnix, OnWindows, IsWhole, Replacing
<1> QED BY <1>3, <1>4

--------------------------------------------------------------------------------
(* Updates: commands, kills and the theorem.                               *)

\* An update begins.
LEMMA UpdateKeeps ==
    ASSUME SoundUpdates, NEW u \in Updaters, NEW channel \in Channels, NEW force \in BOOLEAN,
           Update(u, channel, force)
    PROVE  SoundUpdates'
<1> USE DEF SoundUpdates
<1>1. /\ system' = system /\ exe' = exe /\ old' = old /\ part' = part
      /\ IsWhole(exe) /\ up[u] = Asleep /\ Asleep.pc = "asleep"
  BY DEF Update, Asleep
<1>2. PICK t : t = [pc |-> "download",
                    new |-> Torn(selectReleaseByChannel(channel).v), img |-> "exe"]
  OBVIOUS
<1>3. /\ t \in [pc : IF system = "unix" THEN UnixSteps ELSE WindowsSteps, new : Installable, img : {"none", "exe", "old"}]
      /\ t.img = "exe" /\ t.pc = "download"
  BY <1>2, ChannelHasRelease, Binaries DEF UnixSteps, WindowsSteps
<1>4. up' = [up EXCEPT ![u] = t]
  BY <1>2 DEF Update
<1>5. /\ up' \in Places' /\ up'[u] = t /\ \A w \in Updaters : w # u => up'[w] = up[w]
  BY <1>1, <1>3, <1>4 DEF UpdaterTypes, Places
<1>6. spent' \in Counts /\ spent'.faults = spent.faults
  <2>1. PICK t2 : t2 = [spent EXCEPT !.updates = @ + 1]
    OBVIOUS
  <2>2. t2 \in Counts /\ t2.faults = spent.faults
    BY <2>1 DEF UpdaterTypes, Counts
  <2> QED BY <2>1, <2>2 DEF Update
<1>7. UpdaterTypes'
  BY <1>1, <1>5, <1>6, KeepsTypes DEF UpdaterTypes
<1>8. OnUnix'
  BY <1>1, <1>3, <1>5, <1>6 DEF OnUnix, IsWhole
<1>9. OnWindows'
  BY <1>1, <1>3, <1>5, <1>6 DEF OnWindows, IsWhole, Replacing
<1> QED BY <1>7, <1>8, <1>9

\* A process is killed.
LEMMA KilledKeeps ==
    ASSUME SoundUpdates, NEW u \in Updaters, Killed(u)
    PROVE  SoundUpdates'
<1> USE DEF SoundUpdates
<1>1. system' = system /\ exe' = exe /\ old' = old /\ part' = part
  BY DEF Killed
<1>2. /\ up' \in Places' /\ up'[u].pc = "asleep" /\ up'[u].img = "none"
      /\ \A w \in Updaters : w # u => up'[w] = up[w]
  BY <1>1, StopChanges DEF Killed
<1>3. /\ spent' \in Counts /\ spent'.faults = spent.faults + 1
      /\ spent.faults \in Nat
  BY FaultChanges DEF Killed
<1>4. UpdaterTypes'
  BY <1>1, <1>2, <1>3, KeepsTypes DEF UpdaterTypes
<1>5. OnUnix'
  BY <1>1, <1>2, <1>3 DEF OnUnix, IsWhole
<1>6. OnWindows'
  BY <1>1, <1>2, <1>3 DEF OnWindows, IsWhole, Replacing
<1> QED BY <1>4, <1>5, <1>6

\* A binary that was read is what its process has to install.
LEMMA ReadChanges ==
    ASSUME UpdaterTypes, NEW u \in Updaters, NEW whole \in BOOLEAN, system' = system,
           up' = [up EXCEPT ![u] = [pc |-> IF system = "unix" THEN "stage" ELSE "forget",
                                    new |-> [v |-> @.new.v, whole |-> whole], img |-> @.img]]
    PROVE  /\ up' \in Places' /\ up'[u].img = up[u].img
           /\ whole => IsWhole(up'[u].new)
           /\ up'[u].pc = IF system = "unix" THEN "stage" ELSE "forget"
           /\ \A w \in Updaters : w # u => up'[w] = up[w]
<1>1. PICK t : t = [pc |-> IF system = "unix" THEN "stage" ELSE "forget",
                    new |-> [v |-> up[u].new.v, whole |-> whole], img |-> up[u].img]
  OBVIOUS
<1>2. /\ t \in [pc : IF system = "unix" THEN UnixSteps ELSE WindowsSteps,
                new : Installable, img : {"none", "exe", "old"}]
      /\ t.img = up[u].img /\ t.pc = IF system = "unix" THEN "stage" ELSE "forget"
      /\ t.new \in Installable /\ t.new.whole = whole
  BY <1>1, ProcessesAreTyped DEF UnixSteps, WindowsSteps, Installable
<1>3. up' = [up EXCEPT ![u] = t]
  BY <1>1 DEF UpdaterTypes, Places
<1>4. whole => IsWhole(t.new)
  BY <1>2, UpdaterAssumption DEF IsWhole, Installable
<1> QED BY <1>2, <1>3, <1>4 DEF UpdaterTypes, Places

\* The archive is downloaded, or the update ends.
LEMMA DownloadKeeps ==
    ASSUME SoundUpdates, NEW u \in Updaters, Download(u)
    PROVE  SoundUpdates'
<1> USE DEF SoundUpdates
<1>1. up[u].pc = "download" /\ system' = system /\ exe' = exe /\ old' = old /\ part' = part
  BY DEF Download
<1>2. CASE up' = [up EXCEPT ![u].pc = "extract"] /\ UNCHANGED spent
  <2>1. Step(u, "download", "extract")
    BY <1>1, <1>2 DEF Step
  <2>2. /\ up' \in Places' /\ up'[u].pc = "extract" /\ up'[u].img = up[u].img
        /\ \A w \in Updaters : w # u => up'[w] = up[w]
    BY <1>1, <2>1, StepChanges DEF UnixSteps, WindowsSteps
  <2>3. UpdaterTypes'
    BY <1>1, <1>2, <2>2, KeepsTypes DEF UpdaterTypes
  <2>4. OnUnix'
    BY <1>1, <1>2, <2>2 DEF OnUnix, IsWhole
  <2>5. OnWindows'
    BY <1>1, <1>2, <2>2 DEF OnWindows, IsWhole, Replacing
  <2> QED BY <2>3, <2>4, <2>5
<1>3. CASE Fault /\ Stop(u)
  <2>1. Killed(u)
    BY <1>1, <1>3 DEF Killed, Asleep
  <2> QED BY <2>1, KilledKeeps
<1> QED BY <1>2, <1>3 DEF Download

\* The binary is read, or the update ends.
LEMMA ExtractKeeps ==
    ASSUME SoundUpdates, NEW u \in Updaters, Extract(u), spent'.ignored = spent.ignored
    PROVE  SoundUpdates'
<1> USE DEF SoundUpdates
<1>1. up[u].pc = "extract" /\ system' = system /\ exe' = exe /\ old' = old /\ part' = part
  BY DEF Extract
<1>2. CASE Fault /\ Stop(u)
  <2>1. Killed(u)
    BY <1>1, <1>2 DEF Killed, Asleep
  <2> QED BY <2>1, KilledKeeps
<1>3. CASE /\ up' = [up EXCEPT ![u] = [pc |-> IF system = "unix" THEN "stage" ELSE "forget",
                                       new |-> [v |-> @.new.v, whole |-> TRUE], img |-> @.img]]
           /\ UNCHANGED spent
  <2>1. /\ up' \in Places' /\ up'[u].img = up[u].img /\ IsWhole(up'[u].new)
        /\ up'[u].pc = IF system = "unix" THEN "stage" ELSE "forget"
        /\ \A w \in Updaters : w # u => up'[w] = up[w]
    BY <1>1, <1>3, ReadChanges, Zenon
  <2>2. UpdaterTypes'
    BY <1>1, <1>3, <2>1, KeepsTypes DEF UpdaterTypes
  <2>3. OnUnix'
    BY <1>1, <1>3, <2>1 DEF OnUnix, IsWhole
  <2>4. OnWindows'
    BY <1>1, <1>3, <2>1 DEF OnWindows, IsWhole, Replacing
  <2> QED BY <2>2, <2>3, <2>4
<1>4. ~IgnoredFault
  BY DEF IgnoredFault, UpdaterTypes, Counts
<1> QED BY <1>2, <1>3, <1>4 DEF Extract

\* What is counted only grows, and an ignored failure is a fault.
LEMMA SpentGrows ==
    ASSUME UpdaterTypes, spent.ignored <= spent.faults, UpdaterNext
    PROVE  /\ spent' \in Counts /\ spent'.ignored <= spent'.faults
           /\ spent.ignored <= spent'.ignored
<1> USE DEF UpdaterTypes, Counts
<1>1. ASSUME Fault PROVE spent' \in Counts /\ spent'.faults = spent.faults + 1 /\ spent'.ignored = spent.ignored
  BY <1>1, FaultChanges
<1>2. ASSUME NEW u \in Updaters, UpdaterStep(u) \/ Killed(u)
      PROVE  spent' = spent \/ Fault \/ IgnoredFault
  BY <1>2 DEF UpdaterStep, Killed, Download, Extract, Stage, Staged, Swap, Unlink, Retry, Sweep,
              ForgetOld, Aside, Create, Finish, Undo, DropOld
<1>3. ASSUME NEW u \in Updaters, NEW channel \in Channels, NEW force \in BOOLEAN,
             Update(u, channel, force)
      PROVE  spent' = [spent EXCEPT !.updates = @ + 1]
  BY <1>3 DEF Update
<1>4. PICK t : t = [spent EXCEPT !.updates = @ + 1]
  OBVIOUS
<1>5. t \in Counts /\ t.faults = spent.faults /\ t.ignored = spent.ignored
  BY <1>4
<1>6. ASSUME IgnoredFault
      PROVE  spent' \in Counts /\ spent'.faults = spent.faults + 1 /\ spent'.ignored = spent.ignored + 1
  BY <1>6 DEF IgnoredFault
<1>7. spent' = spent \/ Fault \/ IgnoredFault \/ spent' = t
  BY <1>2, <1>3, <1>4 DEF UpdaterNext
<1> QED BY <1>1, <1>5, <1>6, <1>7

\* Every step keeps the types, whatever failures were ignored before it.
LEMMA TypesKeep ==
    ASSUME UpdaterTypes, spent.ignored <= spent.faults, UpdaterNext
    PROVE  UpdaterTypes'
<1>1. spent' \in Counts
  BY SpentGrows
<1>2. ASSUME NEW u \in Updaters, Download(u) \/ Extract(u) \/ Killed(u) PROVE UpdaterTypes'
  <2>1. system' = system /\ exe' = exe /\ old' = old /\ part' = part
    BY <1>2 DEF Download, Extract, Killed
  <2>2. CASE Stop(u)
    BY <1>1, <2>1, <2>2, StopChanges, KeepsTypes DEF UpdaterTypes
  <2>3. CASE up[u].pc = "download" /\ up' = [up EXCEPT ![u].pc = "extract"]
    <3>1. Step(u, "download", "extract")
      BY <2>3 DEF Step
    <3> QED BY <1>1, <2>1, <3>1, StepChanges, KeepsTypes DEF UpdaterTypes, UnixSteps, WindowsSteps
  <2>4. ASSUME NEW whole \in BOOLEAN,
               up' = [up EXCEPT ![u] = [pc |-> IF system = "unix" THEN "stage" ELSE "forget",
                                        new |-> [v |-> @.new.v, whole |-> whole], img |-> @.img]]
        PROVE  UpdaterTypes'
    <3>1. up' \in Places'
      BY <2>1, <2>4, ReadChanges
    <3> QED BY <1>1, <2>1, <3>1, KeepsTypes DEF UpdaterTypes
  <2> QED BY <1>2, <2>2, <2>3, <2>4 DEF Download, Extract, Killed
<1>3. ASSUME NEW u \in Updaters, NEW channel \in Channels, NEW force \in BOOLEAN,
             Update(u, channel, force)
      PROVE  UpdaterTypes'
  <2>1. PICK t : t = [pc |-> "download", new |-> Torn(selectReleaseByChannel(channel).v), img |-> "exe"]
    OBVIOUS
  <2>2. t \in [pc : IF system = "unix" THEN UnixSteps ELSE WindowsSteps,
               new : Installable, img : {"none", "exe", "old"}]
    BY <2>1, ChannelHasRelease, Binaries DEF UnixSteps, WindowsSteps
  <2>3. /\ up' = [up EXCEPT ![u] = t] /\ system' = system
        /\ exe' = exe /\ old' = old /\ part' = part
    BY <1>3, <2>1 DEF Update
  <2>4. up' \in Places'
    BY <2>2, <2>3 DEF UpdaterTypes, Places
  <2> QED BY <1>1, <2>3, <2>4, KeepsTypes DEF UpdaterTypes
<1>4. ASSUME NEW u \in Updaters,
             Stage(u) \/ Staged(u) \/ Swap(u) \/ Unlink(u) \/ Retry(u) \/ Sweep(u)
      PROVE  UpdaterTypes'
  <2> USE ProcessesAreTyped
  <2>1. up[u].pc \in {"stage", "staged", "swap", "unlink", "retry", "sweep"} /\ system' = system
    BY <1>4 DEF Stage, Staged, Swap, Unlink, Retry, Sweep, Step
  <2>2. system = "unix" /\ up[u].new \in Installable
    BY <2>1 DEF UpdaterTypes, WindowsSteps
  <2>3. /\ exe' \in BinaryFiles /\ old' \in BinaryFiles /\ part' \in [Updaters -> BinaryFiles]
    BY <1>4, <2>2, InstallablesAreFiles
       DEF Stage, Staged, Swap, Unlink, Retry, Sweep, UpdaterTypes, BinaryFiles
  <2>4. Stop(u) \/ \E from, to \in UnixSteps : Step(u, from, to)
    BY <1>4 DEF Stage, Staged, Swap, Unlink, Retry, Sweep, Step, UnixSteps
  <2>5. up' \in Places'
    BY <2>1, <2>2, <2>4, StopChanges, StepChanges
  <2> QED BY <1>1, <2>1, <2>3, <2>5, KeepsTypes
<1>5. ASSUME NEW u \in Updaters,
             ForgetOld(u) \/ Aside(u) \/ Create(u) \/ Finish(u) \/ Undo(u) \/ DropOld(u)
      PROVE  UpdaterTypes'
  <2> USE ProcessesAreTyped
  <2>1. /\ up[u].pc \in {"forget", "aside", "write", "fill", "undo", "drop", "undone"}
        /\ system' = system
    BY <1>5 DEF ForgetOld, Aside, Create, Finish, Undo, DropOld, Step
  <2>2. system = "windows" /\ up[u].new \in Installable
    BY <2>1 DEF UpdaterTypes, UnixSteps
  <2>3. /\ exe' \in BinaryFiles /\ old' \in BinaryFiles /\ part' \in [Updaters -> BinaryFiles]
    BY <1>5, <2>2, InstallablesAreFiles
       DEF ForgetOld, Aside, Create, Finish, Undo, DropOld, UpdaterTypes, BinaryFiles
  <2>4. \/ Stop(u)
        \/ \E from, to \in WindowsSteps : Step(u, from, to)
        \/ \E a, b \in {"exe", "old"}, to \in WindowsSteps : Moves(a, b, At(u, to))
    BY <1>5 DEF ForgetOld, Aside, Create, Finish, Undo, DropOld, Step, WindowsSteps
  <2>5. up' \in Places'
    BY <2>1, <2>2, <2>4, StopChanges, StepChanges, MovesChanges
  <2> QED BY <1>1, <2>1, <2>3, <2>5, KeepsTypes
<1> QED BY <1>2, <1>3, <1>4, <1>5 DEF UpdaterNext, UpdaterStep

\* A step at which no failure is ignored keeps what is installed sound.
LEMMA StaysSound ==
    ASSUME SoundUpdates, UpdaterNext, spent'.ignored = spent.ignored
    PROVE  SoundUpdates'
<1>1. ASSUME NEW u \in Updaters, UpdaterStep(u) PROVE SoundUpdates'
  BY <1>1, DownloadKeeps, ExtractKeeps, StageKeeps, StagedKeeps, SwapKeeps, UnlinkKeeps, RetryKeeps,
     SweepKeeps, ForgetOldKeeps, AsideKeeps, WritingKeeps, UndoKeeps, DropOldKeeps DEF UpdaterStep
<1>2. ASSUME NEW u \in Updaters, Killed(u) PROVE SoundUpdates'
  BY <1>2, KilledKeeps
<1>3. ASSUME NEW u \in Updaters, NEW channel \in Channels, NEW force \in BOOLEAN,
             Update(u, channel, force)
      PROVE  SoundUpdates'
  BY <1>3, UpdateKeeps
<1> QED BY <1>1, <1>2, <1>3 DEF UpdaterNext

\* The inductive invariant holds in every reachable state.
THEOREM UpdaterInductive == UpdaterSpec => []UpdaterInv
<1>1. UpdaterInit => UpdaterInv
  <2> SUFFICES ASSUME UpdaterInit PROVE UpdaterInv
    OBVIOUS
  <2>1. UpdaterTypes
    <3>1. /\ Binary(0) \in BinaryFiles /\ Binary(1) \in BinaryFiles /\ NoFileHere \in BinaryFiles
          /\ Asleep \in [pc : IF system = "unix" THEN UnixSteps ELSE WindowsSteps,
                         new : Installable, img : {"none", "exe", "old"}]
      BY Binaries DEF Asleep, UnixSteps, WindowsSteps
    <3>2. old = NoFileHere \/ old = Binary(0)
      BY DEF UpdaterInit
    <3> QED BY <3>1, <3>2 DEF UpdaterInit, UpdaterTypes, Places, Counts
  <2>2. IsWhole(exe) /\ \A u \in Updaters : up[u].pc = "asleep" /\ up[u].img = "none"
    BY Binaries DEF UpdaterInit, Asleep
  <2>3. OnUnix /\ OnWindows
    BY <2>2 DEF OnUnix, OnWindows, Replacing
  <2> QED BY <2>1, <2>3 DEF UpdaterInit, UpdaterInv, SoundUpdates
<1>2. UpdaterInv /\ [UpdaterNext]_updaterVars => UpdaterInv'
  <2> SUFFICES ASSUME UpdaterInv, [UpdaterNext]_updaterVars PROVE UpdaterInv'
    OBVIOUS
  <2>1. CASE UNCHANGED updaterVars
    BY <2>1 DEF updaterVars, UpdaterInv, SoundUpdates, UpdaterTypes, Places, OnUnix, OnWindows, IsWhole
  <2>2. CASE UpdaterNext
    <3>1. /\ UpdaterTypes' /\ spent'.ignored <= spent'.faults
          /\ spent.ignored <= spent'.ignored /\ spent.ignored \in Nat
      BY <2>2, SpentGrows, TypesKeep DEF UpdaterInv, UpdaterTypes, Counts
    <3>2. spent'.ignored = 0 => spent.ignored = 0
      BY <3>1
    <3>3. spent'.ignored = 0 => SoundUpdates'
      BY <2>2, <3>2, StaysSound DEF UpdaterInv
    <3> QED BY <3>1, <3>3 DEF UpdaterInv
  <2> QED BY <2>1, <2>2
<1> QED BY <1>1, <1>2, PTL DEF UpdaterSpec

\* A single failure or kill leaves a whole executable, unless it is the one that
\* the code ignores, and none leaves it at its path, for any number of updates at
\* once (handleUpdateCommand, replaceExecutable).
THEOREM ExecutablesSurvive == UpdaterSpec => []ExecutableSurvives
<1>1. UpdaterInv => ExecutableSurvives
  <2> SUFFICES ASSUME UpdaterInv PROVE ExecutableSurvives
    OBVIOUS
  <2>1. Asleep.pc = "asleep"
    BY DEF Asleep
  <2>2. /\ spent.faults = 0 => spent.ignored = 0
        /\ spent.ignored = 0 => SoundUpdates
    BY DEF UpdaterInv, UpdaterTypes, Counts
  <2>3. CASE system = "unix"
    BY <2>1, <2>2, <2>3 DEF SoundUpdates, OnUnix, ExecutableSurvives
  <2>4. CASE system = "windows"
    BY <2>1, <2>2, <2>4 DEF SoundUpdates, OnWindows, ExecutableSurvives
  <2> QED BY <2>3, <2>4 DEF UpdaterInv, UpdaterTypes
<1> QED BY <1>1, UpdaterInductive, PTL

--------------------------------------------------------------------------------
(* Packages: the inductive invariant.                                      *)

Fields == DOMAIN Idle
\* Where a process has a package whose archive it fetches, extracts it, or
\* works on the plugin in place: extracts or removes it.
Fetching == {"lookup", "get", "copy", "verify", "rename", "unpack", "replace", "place"}
Extraction == {"open", "fill"}
Working == {"open", "fill", "unlink"}
Deletion == {"delete", "next"}
Backs == {"none", "roots", "needs"}

PubTypes ==
    /\ DOMAIN proc = Procs /\ \A p \in Procs : DOMAIN proc[p] = Fields
    /\ plugins \in [Ids -> {None} \union SUBSET Parts]

\* A process that fetches, extracts or removes has a published package; only a
\* .jp is placed as a whole, and only a ZIP is extracted in place.
HasPackage(p) ==
    /\ proc[p].pc \in Fetching \union Working => proc[p].id \in Ids
    /\ proc[p].pc \in {"replace", "place"} => proc[p].id \in Jps
    /\ proc[p].pc = "unlink" /\ proc[p].op # "remove" => proc[p].id \in Jps
    /\ proc[p].pc \in Deletion => proc[p].op = "remove"
    /\ proc[p].pc \in Extraction => proc[p].id \notin Jps
    /\ proc[p].pc = "fill" => proc[p].part \in Parts
    /\ proc[p].back \in Backs /\ proc[p].dirs \subseteq Ids

\* Process p is extracting this part of id, or has it before it.
Owes(p, id, entry) ==
    /\ proc[p].pc \in Extraction /\ proc[p].id = id
    /\ (entry \in proc[p].todo \/ (proc[p].pc = "fill" /\ entry = proc[p].part))

\* Of a plugin that was not left in pieces, its directory is there for whoever
\* extracts it, and when it is there and nobody removes it, every part is in it
\* or is owed by a process that extracts it.
Holds(id) ==
    id \notin cut =>
      /\ \A p \in Procs : proc[p].pc \in Extraction /\ proc[p].id = id => plugins[id] # None
      /\ plugins[id] # None /\ (\A p \in Procs : ~(proc[p].pc = "unlink" /\ proc[p].id = id)) =>
           \A entry \in Parts \ plugins[id] : \E p \in Procs : Owes(p, id, entry)

PluginContents == \A id \in Ids : Holds(id)

PubInv == PubTypes /\ (\A p \in Procs : HasPackage(p)) /\ PluginContents


Kept == {"pc", "op", "id", "todo", "part", "dirs", "back"}
\* What concerns the plugins stays as it is in what process q is doing.
SameWork(q) == \A k \in Kept : proc'[q][k] = proc[q][k]

LEMMA FieldsOfProcesses == Fields = {"pc", "op", "alone", "id", "sum", "got", "fd", "staged",
    "damaged", "dirs", "todo", "part", "back", "roots", "queue", "visited", "deps", "read", "hash"}
BY DEF Fields, Idle

LEMMA IdleProcess ==
  DOMAIN Idle = Fields /\ Idle.pc = "idle" /\ Idle.back = "none" /\ Idle.dirs = {}
BY DEF Fields, Idle

LEMMA SameWorkKeeps ==
  ASSUME NEW q, SameWork(q)
  PROVE  /\ HasPackage(q) => HasPackage(q)'
         /\ \A id, entry : Owes(q, id, entry)' <=> Owes(q, id, entry)
         /\ proc'[q].pc = proc[q].pc /\ proc'[q].id = proc[q].id
BY DEF SameWork, Kept, HasPackage, Owes, Fetching, Extraction, Working, Deletion, Backs, Ids

\* A plugin that p does not work on, before and after its step.
LEMMA HoldsStill ==
  ASSUME PubInv, NEW p \in Procs, \A q \in Procs : q # p => SameWork(q), NEW id \in Ids,
         ~(proc[p].pc \in Working /\ proc[p].id = id),
         ~(proc'[p].pc \in Working /\ proc'[p].id = id),
         plugins'[id] = plugins[id], id \in cut' <=> id \in cut
  PROVE  Holds(id)'
<1>1. Holds(id)
  BY DEF PubInv, PluginContents
<1>2. \A q \in Procs : q # p => proc'[q].pc = proc[q].pc /\ proc'[q].id = proc[q].id
  BY SameWorkKeeps
<1>3. \A q \in Procs : (proc'[q].pc \in Working /\ proc'[q].id = id) <=> (proc[q].pc \in Working /\ proc[q].id = id)
  BY <1>2
<1>4. \A q \in Procs : (proc'[q].pc = "unlink" /\ proc'[q].id = id) <=> (proc[q].pc = "unlink" /\ proc[q].id = id)
  BY <1>2 DEF Working, Deletion
<1>5. \A q \in Procs, entry \in Parts : Owes(q, id, entry) => Owes(q, id, entry)'
  <2> TAKE q \in Procs, entry \in Parts
  <2> HAVE Owes(q, id, entry)
  <2>1. q # p
    BY DEF Owes, Extraction, Working, Deletion
  <2> QED
    BY <2>1, SameWorkKeeps
<1>6. ASSUME id \notin cut, NEW q \in Procs, proc'[q].pc \in Extraction, proc'[q].id = id
      PROVE  plugins[id] # None
  <2>1. q # p
    BY <1>6 DEF Extraction, Working, Deletion
  <2> QED
    BY <1>1, <1>2, <1>6, <2>1 DEF Holds
<1>7. ASSUME id \notin cut, plugins[id] # None, NEW entry \in Parts \ plugins[id],
             \A q \in Procs : ~(proc'[q].pc = "unlink" /\ proc'[q].id = id)
      PROVE  \E q \in Procs : Owes(q, id, entry)'
  <2>1. PICK q \in Procs : Owes(q, id, entry)
    BY <1>1, <1>4, <1>7 DEF Holds
  <2> QED
    BY <1>5, <1>7, <2>1
<1> QED
  BY <1>6, <1>7 DEF Holds, Extraction, Parts

\* A step of p that leaves the plugins alone, before and after any work on them.
LEMMA QuietStep ==
  ASSUME PubInv, NEW p \in Procs, proc[p].pc \notin Working,
         plugins' = plugins, cut' = cut,
         DOMAIN proc' = Procs, \A q \in Procs : DOMAIN proc'[q] = Fields,
         \A q \in Procs : q # p => SameWork(q),
         proc'[p].pc \notin Working, HasPackage(p)'
  PROVE  PubInv'
<1>1. PubTypes'
  BY DEF PubInv, PubTypes, Ids
<1>2. \A q \in Procs : HasPackage(q)'
  BY SameWorkKeeps DEF PubInv
<1>3. \A id \in Ids : Holds(id)'
  BY HoldsStill
<1>4. PluginContents'
  BY <1>3 DEF PluginContents, Ids
<1> QED
  BY <1>1, <1>2, <1>4 DEF PubInv

\* A step that changes nothing of all this.
LEMMA AllTheSame ==
  ASSUME PubInv, plugins' = plugins, cut' = cut,
         DOMAIN proc' = Procs, \A q \in Procs : DOMAIN proc'[q] = Fields,
         \A q \in Procs : SameWork(q)
  PROVE  PubInv'
<1>1. PubTypes'
  BY DEF PubInv, PubTypes, Ids
<1>2. \A q \in Procs : HasPackage(q)'
  BY SameWorkKeeps DEF PubInv
<1>3. ASSUME NEW id \in Ids
      PROVE  Holds(id)'
  <2>1. Holds(id)
    BY DEF PubInv, PluginContents
  <2>2. \A q \in Procs : /\ proc'[q].pc = proc[q].pc /\ proc'[q].id = proc[q].id
                         /\ \A entry \in Parts : Owes(q, id, entry) => Owes(q, id, entry)'
    BY SameWorkKeeps
  <2>3. ASSUME id \notin cut, plugins[id] # None, NEW entry \in Parts \ plugins[id],
               \A q \in Procs : ~(proc'[q].pc = "unlink" /\ proc'[q].id = id)
        PROVE  \E q \in Procs : Owes(q, id, entry)'
    BY <2>1, <2>2, <2>3 DEF Holds
  <2>4. ASSUME id \notin cut, NEW q \in Procs, proc'[q].pc \in Extraction, proc'[q].id = id
        PROVE  plugins[id] # None
    BY <2>1, <2>2, <2>4 DEF Holds
  <2> QED
    BY <2>3, <2>4 DEF Holds, Extraction, Parts
<1>4. PluginContents'
  BY <1>3 DEF PluginContents, Ids
<1> QED
  BY <1>1, <1>2, <1>4 DEF PubInv

\* A step of p that changes nothing but the plugin `id`, where it works.
LEMMA PluginStep ==
  ASSUME PubInv, NEW p \in Procs, NEW id \in Ids,
         proc[p].pc \in Working => proc[p].id = id,
         proc'[p].pc \in Working => proc'[p].id = id,
         DOMAIN proc' = Procs, \A q \in Procs : DOMAIN proc'[q] = Fields,
         \A q \in Procs : q # p => SameWork(q), HasPackage(p)',
         NEW s \in {None} \union SUBSET Parts, plugins' = [plugins EXCEPT ![id] = s],
         \A i \in Ids : i # id => (i \in cut' <=> i \in cut),
         Holds(id)'
  PROVE  PubInv'
<1>1. plugins' \in [Ids -> {None} \union SUBSET Parts]
  BY DEF PubInv, PubTypes
<1>2. PubTypes'
  BY <1>1 DEF PubTypes, Ids, Parts
<1>3. \A q \in Procs : HasPackage(q)'
  BY SameWorkKeeps DEF PubInv
<1>4. ASSUME NEW i \in Ids
      PROVE  Holds(i)'
  <2>1. CASE i = id
    BY <2>1
  <2>2. CASE i # id
    <3>1. plugins'[i] = plugins[i]
      BY <2>2 DEF PubInv, PubTypes
    <3> QED
      BY <2>2, <3>1, HoldsStill
  <2> QED
    BY <2>1, <2>2
<1>5. PluginContents'
  BY <1>4 DEF PluginContents, Ids
<1> QED
  BY <1>2, <1>3, <1>5 DEF PubInv

\* What Goes(p, r) does to the processes.
LEMMA Going ==
  ASSUME PubTypes, NEW p \in Procs, NEW r, DOMAIN r \subseteq Fields, Goes(p, r)
  PROVE  /\ DOMAIN proc' = Procs
         /\ \A q \in Procs : DOMAIN proc'[q] = Fields
         /\ \A q \in Procs : q # p => proc'[q] = proc[q]
         /\ \A k \in Fields : proc'[p][k] = IF k \in DOMAIN r THEN r[k] ELSE proc[p][k]
BY DEF PubTypes, Goes, Merged

\* The field k of process p after Goes(p, r).
FieldAfter(p, r, k) == IF k \in DOMAIN r THEN r[k] ELSE proc[p][k]
\* These fields neither begin an extraction nor lose the package of a fetch.
Sound(p, r) ==
    /\ DOMAIN r \subseteq Fields
    /\ FieldAfter(p, r, "pc") \notin Working
    /\ FieldAfter(p, r, "pc") \in Fetching => FieldAfter(p, r, "id") \in Ids
    /\ FieldAfter(p, r, "pc") \in {"replace", "place"} => FieldAfter(p, r, "id") \in Jps
    /\ FieldAfter(p, r, "pc") \in Deletion => FieldAfter(p, r, "op") = "remove"
    /\ FieldAfter(p, r, "back") \in Backs /\ FieldAfter(p, r, "dirs") \subseteq Ids

LEMMA SoundStep ==
  ASSUME PubInv, NEW p \in Procs, NEW r, DOMAIN proc' = Procs,
         \A q \in Procs : DOMAIN proc'[q] = Fields,
         \A q \in Procs : q # p => SameWork(q),
         \A k \in Kept : proc'[p][k] = FieldAfter(p, r, k), Sound(p, r),
         proc[p].pc \notin Working, plugins' = plugins, cut' = cut
  PROVE  PubInv'
<1>1. proc'[p].pc \notin Working
  BY DEF Sound, Kept
<1>2. HasPackage(p)'
  BY <1>1 DEF Sound, Kept, HasPackage, Fetching, Extraction, Working, Deletion, Backs, Ids, Parts
<1> QED
  BY <1>1, <1>2, QuietStep

LEMMA GoesQuietly ==
  ASSUME PubInv, NEW p \in Procs, NEW r, Goes(p, r), Sound(p, r),
         proc[p].pc \notin Working, plugins' = plugins, cut' = cut
  PROVE  PubInv'
<1>1. PubTypes /\ DOMAIN r \subseteq Fields
  BY DEF PubInv, Sound
<1>2. \A q \in Procs : q # p => SameWork(q)
  BY <1>1, Going DEF SameWork
<1>3. \A k \in Kept : proc'[p][k] = FieldAfter(p, r, k)
  BY <1>1, Going, FieldsOfProcesses DEF Kept, FieldAfter
<1> QED
  BY <1>1, <1>2, <1>3, Going, SoundStep

LEMMA EndsFrame ==
  ASSUME PubInv, NEW p \in Procs, Ends(p)
  PROVE  /\ DOMAIN proc' = Procs /\ \A q \in Procs : DOMAIN proc'[q] = Fields
         /\ \A q \in Procs : q # p => SameWork(q)
         /\ HasPackage(p)' /\ proc'[p].pc \notin Working
<1>1. DOMAIN proc' = Procs /\ proc'[p] = Idle /\ \A q \in Procs : q # p => proc'[q] = proc[q]
  BY DEF Ends, PubInv, PubTypes
<1>2. \A q \in Procs : DOMAIN proc'[q] = Fields
  BY <1>1, IdleProcess DEF PubInv, PubTypes
<1>3. \A q \in Procs : q # p => SameWork(q)
  BY <1>1 DEF SameWork
<1>4. HasPackage(p)' /\ proc'[p].pc \notin Working
  BY <1>1, IdleProcess DEF HasPackage, Fetching, Extraction, Working, Deletion, Backs, Ids
<1> QED
  BY <1>1, <1>2, <1>3, <1>4

LEMMA EndsQuietly ==
  ASSUME PubInv, NEW p \in Procs, Ends(p),
         proc[p].pc \notin Working, plugins' = plugins, cut' = cut
  PROVE  PubInv'
BY EndsFrame, QuietStep

LEMMA ReturnsSoundly ==
  ASSUME PubInv, NEW p \in Procs, NEW ok \in BOOLEAN, NEW r, r = Returns(p, ok),
         proc[p].pc \in Fetching \union Working
  PROVE  Sound(p, r) /\ r["pc"] \notin Working \union Fetching
<1>1. proc[p].back \in Backs /\ proc[p].dirs \subseteq Ids /\ (proc[p].pc \in Deletion => proc[p].op = "remove")
  BY DEF PubInv, HasPackage
<1>2. CASE ok
  <2>1. DOMAIN r = {"pc"} /\ r["pc"] \in {"edit"} \union Backs
    BY <1>1, <1>2 DEF Returns
  <2> QED
    BY <2>1, <1>1, FieldsOfProcesses DEF Sound, FieldAfter, Fetching, Extraction, Working, Deletion, Backs
<1>3. CASE ~ok /\ proc[p].op = "add" /\ proc[p].id[2] # Latest
  <2>1. DOMAIN r = {"pc"} /\ r["pc"] = "github"
    BY <1>3 DEF Returns
  <2> QED
    BY <2>1, <1>1, FieldsOfProcesses DEF Sound, FieldAfter, Fetching, Extraction, Working, Deletion, Backs
<1>4. CASE ~ok /\ ~(proc[p].op = "add" /\ proc[p].id[2] # Latest)
  <2>1. r = Idle
    BY <1>4 DEF Returns
  <2> QED
    BY <2>1, IdleProcess, FieldsOfProcesses DEF Sound, FieldAfter, Fetching, Extraction, Working, Deletion, Backs
<1> QED
  BY <1>2, <1>3, <1>4

--------------------------------------------------------------------------------
(* Packages: the steps that leave the plugins alone.                       *)

\* A step to a place where p has nothing to fetch or to extract.
LEMMA GoesAside ==
  ASSUME PubInv, NEW p \in Procs, NEW r, Goes(p, r), DOMAIN r \subseteq Fields \ {"op", "back", "dirs"},
         "pc" \in DOMAIN r => r["pc"] \notin Fetching \union Working \union Deletion,
         "pc" \in DOMAIN r \/ proc[p].pc \notin Fetching,
         proc[p].pc \notin Working, plugins' = plugins, cut' = cut
  PROVE  PubInv'
<1>1. proc[p].back \in Backs /\ proc[p].dirs \subseteq Ids /\ (proc[p].pc \in Deletion => proc[p].op = "remove")
  BY DEF PubInv, HasPackage
<1>2. Sound(p, r)
  BY <1>1 DEF Sound, FieldAfter, Fetching, Extraction, Working, Deletion
<1> QED
  BY <1>2, GoesQuietly

\* A step of a fetch that keeps its package.
LEMMA FetchGoesOn ==
  ASSUME PubInv, NEW p \in Procs, NEW r, Goes(p, r), DOMAIN r \subseteq Fields \ {"back", "id", "dirs"},
         proc[p].pc \in Fetching, "pc" \in DOMAIN r,
         r["pc"] \in Fetching \ {"replace", "place"},
         plugins' = plugins, cut' = cut
  PROVE  PubInv'
<1>1. proc[p].back \in Backs /\ proc[p].dirs \subseteq Ids /\ proc[p].id \in Ids
  BY DEF PubInv, HasPackage
<1>2. Sound(p, r) /\ proc[p].pc \notin Working
  BY <1>1 DEF Sound, FieldAfter, Fetching, Extraction, Working, Deletion
<1> QED
  BY <1>2, GoesQuietly

LEMMA AskInv ==
  ASSUME PubInv, NEW p \in Procs, Ask(p)
  PROVE  PubInv'
<1>1. proc[p].pc = "ask" /\ plugins' = plugins /\ cut' = cut
  BY DEF Ask
<1>2. proc[p].back \in Backs /\ proc[p].dirs \subseteq Ids
  BY DEF PubInv, HasPackage
<1>3. CASE proc[p].id \in Ids /\ Goes(p, [pc |-> "lookup", sum |-> proc[p].id \in Sealed])
  <2>1. PICK r : r = [pc |-> "lookup", sum |-> proc[p].id \in Sealed]
    OBVIOUS
  <2>2. DOMAIN r = {"pc", "sum"} /\ r["pc"] = "lookup"
    BY <2>1
  <2>3. Sound(p, r)
    BY <2>2, <1>2, <1>3, FieldsOfProcesses DEF Sound, FieldAfter, Fetching, Extraction, Working, Deletion
  <2>4. Goes(p, r)
    BY <1>3, <2>1
  <2> QED
    BY <2>3, <2>4, <1>1, GoesQuietly DEF Extraction, Working, Deletion
<1>4. CASE Goes(p, [pc |-> "github"])
  <2>1. PICK r : r = [pc |-> "github"]
    OBVIOUS
  <2>2. DOMAIN r = {"pc"} /\ r["pc"] = "github"
    BY <2>1
  <2>3. Goes(p, r)
    BY <1>4, <2>1
  <2> QED
    BY <2>2, <2>3, <1>1, GoesAside, FieldsOfProcesses DEF Fetching, Extraction, Working, Deletion
<1> QED
  BY <1>3, <1>4 DEF Ask

LEMMA CopyInv ==
  ASSUME PubInv, NEW p \in Procs, Copy(p)
  PROVE  PubInv'
<1>1. proc[p].pc = "copy" /\ plugins' = plugins /\ cut' = cut
  BY DEF Copy
<1>2. PICK r : r = [got |-> proc[p].got + 1, pc |-> IF proc[p].got + 1 + 1 \in Blocks THEN "copy" ELSE "verify"]
  OBVIOUS
<1>3. DOMAIN r = {"got", "pc"} /\ r["pc"] \in {"copy", "verify"} /\ Goes(p, r)
  BY <1>2 DEF Copy
<1> QED
  BY <1>1, <1>3, FetchGoesOn, FieldsOfProcesses DEF Fetching

LEMMA ReadManifestInv ==
  ASSUME PubInv, NEW p \in Procs, ReadManifest(p)
  PROVE  PubInv'
<1>1. proc[p].pc = "manifest" /\ plugins' = plugins /\ cut' = cut
  BY DEF ReadManifest
<1>2. CASE Ends(p)
  BY <1>1, <1>2, EndsQuietly DEF Extraction, Working, Deletion
<1>3. CASE Goes(p, [pc |-> "roots", deps |-> manifest.deps,
           roots |-> Asked(manifest.deps), queue |-> Asked(manifest.deps)])
  <2>1. PICK r : r = [pc |-> "roots", deps |-> manifest.deps,
           roots |-> Asked(manifest.deps), queue |-> Asked(manifest.deps)]
    OBVIOUS
  <2>2. DOMAIN r = {"pc", "deps", "roots", "queue"} /\ r["pc"] = "roots"
    BY <2>1
  <2>3. Goes(p, r)
    BY <1>3, <2>1
  <2> QED
    BY <2>2, <2>3, <1>1, GoesAside, FieldsOfProcesses DEF Fetching, Extraction, Working, Deletion
<1> QED
  BY <1>2, <1>3 DEF ReadManifest

LEMMA RootsDoneInv ==
  ASSUME PubInv, NEW p \in Procs, RootsDone(p)
  PROVE  PubInv'
<1>1. proc[p].pc = "roots" /\ plugins' = plugins /\ cut' = cut
  BY DEF RootsDone
<1>2. CASE Goes(p, [pc |-> "queue"])
  <2>1. PICK r : r = [pc |-> "queue"]
    OBVIOUS
  <2>2. DOMAIN r = {"pc"} /\ r["pc"] = "queue"
    BY <2>1
  <2>3. Goes(p, r)
    BY <1>2, <2>1
  <2> QED
    BY <2>2, <2>3, <1>1, GoesAside, FieldsOfProcesses DEF Fetching, Extraction, Working, Deletion
<1> QED
  BY <1>2 DEF RootsDone

LEMMA ReadNeedsInv ==
  ASSUME PubInv, NEW p \in Procs, ReadNeeds(p)
  PROVE  PubInv'
<1>1. proc[p].pc = "needs" /\ plugins' = plugins /\ cut' = cut
  BY DEF ReadNeeds
<1>2. CASE Ends(p)
  BY <1>1, <1>2, EndsQuietly DEF Extraction, Working, Deletion
<1>3. CASE Goes(p, [pc |-> "queue", queue |-> proc[p].queue \union Asked(Needs[proc[p].id])])
  <2>1. PICK r : r = [pc |-> "queue", queue |-> proc[p].queue \union Asked(Needs[proc[p].id])]
    OBVIOUS
  <2>2. DOMAIN r = {"pc", "queue"} /\ r["pc"] = "queue"
    BY <2>1
  <2>3. Goes(p, r)
    BY <1>3, <2>1
  <2> QED
    BY <2>2, <2>3, <1>1, GoesAside, FieldsOfProcesses DEF Fetching, Extraction, Working, Deletion
<1> QED
  BY <1>2, <1>3 DEF ReadNeeds

LEMMA QueueDoneInv ==
  ASSUME PubInv, NEW p \in Procs, QueueDone(p)
  PROVE  PubInv'
<1>1. proc[p].pc = "queue" /\ plugins' = plugins /\ cut' = cut
  BY DEF QueueDone
<1>2. CASE Goes(p, [pc |-> "hash"])
  <2>1. PICK r : r = [pc |-> "hash"]
    OBVIOUS
  <2>2. DOMAIN r = {"pc"} /\ r["pc"] = "hash"
    BY <2>1
  <2>3. Goes(p, r)
    BY <1>2, <2>1
  <2> QED
    BY <2>2, <2>3, <1>1, GoesAside, FieldsOfProcesses DEF Fetching, Extraction, Working, Deletion
<1> QED
  BY <1>2 DEF QueueDone

LEMMA EditReadInv ==
  ASSUME PubInv, NEW p \in Procs, EditRead(p)
  PROVE  PubInv'
<1>1. proc[p].pc = "edit" /\ plugins' = plugins /\ cut' = cut
  BY DEF EditRead
<1>2. CASE Goes(p, [pc |-> "truncate", read |-> manifest])
  <2>1. PICK r : r = [pc |-> "truncate", read |-> manifest]
    OBVIOUS
  <2>2. DOMAIN r = {"pc", "read"} /\ r["pc"] = "truncate"
    BY <2>1
  <2>3. Goes(p, r)
    BY <1>2, <2>1
  <2> QED
    BY <2>2, <2>3, <1>1, GoesAside, FieldsOfProcesses DEF Fetching, Extraction, Working, Deletion
<1>3. CASE Goes(p, [pc |-> "truncate", read |-> Text(NoDeps)])
  <2>1. PICK r : r = [pc |-> "truncate", read |-> Text(NoDeps)]
    OBVIOUS
  <2>2. DOMAIN r = {"pc", "read"} /\ r["pc"] = "truncate"
    BY <2>1
  <2>3. Goes(p, r)
    BY <1>3, <2>1
  <2> QED
    BY <2>2, <2>3, <1>1, GoesAside, FieldsOfProcesses DEF Fetching, Extraction, Working, Deletion
<1>4. CASE Goes(p, [pc |-> "reread"])
  <2>1. PICK r : r = [pc |-> "reread"]
    OBVIOUS
  <2>2. DOMAIN r = {"pc"} /\ r["pc"] = "reread"
    BY <2>1
  <2>3. Goes(p, r)
    BY <1>4, <2>1
  <2> QED
    BY <2>2, <2>3, <1>1, GoesAside, FieldsOfProcesses DEF Fetching, Extraction, Working, Deletion
<1> QED
  BY <1>2, <1>3, <1>4 DEF EditRead

LEMMA TruncateInv ==
  ASSUME PubInv, NEW p \in Procs, Truncate(p)
  PROVE  PubInv'
<1>1. proc[p].pc = "truncate" /\ plugins' = plugins /\ cut' = cut
  BY DEF Truncate
<1>2. CASE Goes(p, [pc |-> "write"])
  <2>1. PICK r : r = [pc |-> "write"]
    OBVIOUS
  <2>2. DOMAIN r = {"pc"} /\ r["pc"] = "write"
    BY <2>1
  <2>3. Goes(p, r)
    BY <1>2, <2>1
  <2> QED
    BY <2>2, <2>3, <1>1, GoesAside, FieldsOfProcesses DEF Fetching, Extraction, Working, Deletion
<1> QED
  BY <1>2 DEF Truncate

LEMMA WriteInv ==
  ASSUME PubInv, NEW p \in Procs, Write(p)
  PROVE  PubInv'
<1>1. proc[p].pc = "write" /\ plugins' = plugins /\ cut' = cut
  BY DEF Write
<1>2. CASE Goes(p, [pc |-> "reread", read |-> NoFile])
  <2>1. PICK r : r = [pc |-> "reread", read |-> NoFile]
    OBVIOUS
  <2>2. DOMAIN r = {"pc", "read"} /\ r["pc"] = "reread"
    BY <2>1
  <2>3. Goes(p, r)
    BY <1>2, <2>1
  <2> QED
    BY <2>2, <2>3, <1>1, GoesAside, FieldsOfProcesses DEF Fetching, Extraction, Working, Deletion
<1> QED
  BY <1>2 DEF Write

LEMMA RereadInv ==
  ASSUME PubInv, NEW p \in Procs, Reread(p)
  PROVE  PubInv'
<1>1. proc[p].pc = "reread" /\ plugins' = plugins /\ cut' = cut
  BY DEF Reread
<1>2. CASE Goes(p, [pc |-> "hash", deps |-> manifest.deps])
  <2>1. PICK r : r = [pc |-> "hash", deps |-> manifest.deps]
    OBVIOUS
  <2>2. DOMAIN r = {"pc", "deps"} /\ r["pc"] = "hash"
    BY <2>1
  <2>3. Goes(p, r)
    BY <1>2, <2>1
  <2> QED
    BY <2>2, <2>3, <1>1, GoesAside, FieldsOfProcesses DEF Fetching, Extraction, Working, Deletion
<1>3. CASE Ends(p)
  BY <1>1, <1>3, EndsQuietly DEF Extraction, Working, Deletion
<1> QED
  BY <1>2, <1>3 DEF Reread

LEMMA HashInv ==
  ASSUME PubInv, NEW p \in Procs, Hash(p)
  PROVE  PubInv'
<1>1. proc[p].pc = "hash" /\ plugins' = plugins /\ cut' = cut
  BY DEF Hash
<1>2. CASE Goes(p, [pc |-> "lock", hash |-> manifest])
  <2>1. PICK r : r = [pc |-> "lock", hash |-> manifest]
    OBVIOUS
  <2>2. DOMAIN r = {"pc", "hash"} /\ r["pc"] = "lock"
    BY <2>1
  <2>3. Goes(p, r)
    BY <1>2, <2>1
  <2> QED
    BY <2>2, <2>3, <1>1, GoesAside, FieldsOfProcesses DEF Fetching, Extraction, Working, Deletion
<1> QED
  BY <1>2 DEF Hash

LEMMA WriteLockInv ==
  ASSUME PubInv, NEW p \in Procs, WriteLock(p)
  PROVE  PubInv'
<1>1. proc[p].pc = "lock" /\ plugins' = plugins /\ cut' = cut
  BY DEF WriteLock
<1>2. CASE Ends(p)
  BY <1>1, <1>2, EndsQuietly DEF Extraction, Working, Deletion
<1> QED
  BY <1>2 DEF WriteLock

LEMMA GitHubInv ==
  ASSUME PubInv, NEW p \in Procs, GitHub(p)
  PROVE  PubInv'
<1>1. proc[p].pc = "github" /\ plugins' = plugins /\ cut' = cut
  BY DEF GitHub
<1>2. proc[p].back \in Backs /\ proc[p].dirs \subseteq Ids
  BY DEF PubInv, HasPackage
<1>3. CASE Ends(p)
  BY <1>1, <1>3, EndsQuietly DEF Extraction, Working, Deletion
<1>4. ASSUME NEW id \in Jps, Goes(p, [pc |-> "lookup", id |-> id, sum |-> FALSE])
      PROVE  PubInv'
  <2>1. PICK r : r = [pc |-> "lookup", id |-> id, sum |-> FALSE]
    OBVIOUS
  <2>2. DOMAIN r = {"pc", "id", "sum"} /\ r["pc"] = "lookup" /\ r["id"] = id
    BY <2>1
  <2>3. Sound(p, r)
    BY <2>2, <1>2, FieldsOfProcesses DEF Sound, FieldAfter, Fetching, Extraction, Working, Deletion, Ids
  <2>4. Goes(p, r)
    BY <1>4, <2>1
  <2> QED
    BY <2>3, <2>4, <1>1, GoesQuietly DEF Extraction, Working, Deletion
<1> QED
  BY <1>3, <1>4 DEF GitHub

\* A loop of an install asks for a package, and forgets or remembers others.
LEMMA ResolveInv ==
  ASSUME PubInv, NEW p \in Procs, NEW id, NEW back \in Backs, NEW r,
         DOMAIN r \subseteq {"roots", "queue", "visited"},
         proc[p].pc \in {"roots", "queue"}, Resolve(p, id, back, r),
         plugins' = plugins, cut' = cut
  PROVE  PubInv'
<1>1. proc[p].pc \notin Fetching \union Working /\ proc[p].dirs \subseteq Ids
  BY DEF Fetching, Working, PubInv, HasPackage
<1>2. CASE Ends(p)
  BY <1>1, <1>2, EndsQuietly
<1>3. CASE /\ id \in Ids
           /\ Goes(p, Merged(r, [pc |-> "lookup", id |-> id, sum |-> id \in Sealed, back |-> back]))
  <2>1. PICK s : s = [pc |-> "lookup", id |-> id, sum |-> id \in Sealed, back |-> back]
    OBVIOUS
  <2>2. DOMAIN s = {"pc", "id", "sum", "back"} /\ s["pc"] = "lookup" /\ s["id"] = id /\ s["back"] = back
    BY <2>1
  <2>3. PICK t : t = Merged(r, s)
    OBVIOUS
  <2>4. DOMAIN t = DOMAIN r \union DOMAIN s
    BY <2>3 DEF Merged
  <2>5. t["pc"] = "lookup" /\ t["id"] = id /\ t["back"] = back
    BY <2>2, <2>3 DEF Merged
  <2>6. Sound(p, t)
    BY <1>1, <2>2, <2>4, <2>5, <1>3, FieldsOfProcesses DEF Sound, FieldAfter, Fetching, Extraction, Working, Deletion
  <2>7. Goes(p, t)
    BY <1>3, <2>1, <2>3
  <2> QED
    BY <2>6, <2>7, <1>1, GoesQuietly
<1> QED
  BY <1>2, <1>3 DEF Resolve

LEMMA RootInv ==
  ASSUME PubInv, NEW p \in Procs, NEW id, Root(p, id)
  PROVE  PubInv'
<1>1. proc[p].pc = "roots" /\ plugins' = plugins /\ cut' = cut
  BY DEF Root
<1>2. PICK r : r = [roots |-> proc[p].roots \ {id}]
  OBVIOUS
<1>3. DOMAIN r = {"roots"}
  BY <1>2
<1>4. CASE Goes(p, r)
  BY <1>1, <1>3, <1>4, GoesAside, FieldsOfProcesses DEF Fetching, Extraction, Working, Deletion
<1>5. CASE Resolve(p, id, "roots", r)
  BY <1>1, <1>3, <1>5, ResolveInv DEF Backs
<1> QED
  BY <1>2, <1>4, <1>5 DEF Root

LEMMA VisitInv ==
  ASSUME PubInv, NEW p \in Procs, NEW id, Visit(p, id)
  PROVE  PubInv'
<1>1. proc[p].pc = "queue" /\ plugins' = plugins /\ cut' = cut
  BY DEF Visit
<1>2. PICK r : r = [queue |-> proc[p].queue \ {id}, visited |-> proc[p].visited \union {id}]
  OBVIOUS
<1>3. DOMAIN r = {"queue", "visited"}
  BY <1>2
<1>4. CASE Goes(p, r)
  BY <1>1, <1>3, <1>4, GoesAside, FieldsOfProcesses DEF Fetching, Extraction, Working, Deletion
<1>5. CASE Goes(p, Merged(r, [pc |-> "needs", id |-> id]))
  <2>1. PICK s : s = [pc |-> "needs", id |-> id]
    OBVIOUS
  <2>2. DOMAIN s = {"pc", "id"} /\ s["pc"] = "needs"
    BY <2>1
  <2>3. PICK t : t = Merged(r, s)
    OBVIOUS
  <2>4. DOMAIN t = {"queue", "visited", "pc", "id"} /\ t["pc"] = "needs"
    BY <1>3, <2>2, <2>3 DEF Merged
  <2>5. Goes(p, t)
    BY <1>5, <2>1, <2>3
  <2> QED
    BY <2>4, <2>5, <1>1, GoesAside, FieldsOfProcesses DEF Fetching, Extraction, Working, Deletion
<1>6. CASE Resolve(p, id, "needs", r)
  BY <1>1, <1>3, <1>6, ResolveInv DEF Backs
<1>7. Goes(p, r) \/ Goes(p, Merged(r, [pc |-> "needs", id |-> id])) \/ Resolve(p, id, "needs", r)
  BY <1>2 DEF Visit
<1> QED
  BY <1>4, <1>5, <1>6, <1>7

\* A process gives up a fetch or an extraction, or is done with it.
LEMMA ReturnsInv ==
  ASSUME PubInv, NEW p \in Procs, NEW ok \in BOOLEAN, proc[p].pc \in Fetching,
         Goes(p, Returns(p, ok)), plugins' = plugins, cut' = cut
  PROVE  PubInv'
<1>1. PICK r : r = Returns(p, ok)
  OBVIOUS
<1>2. Sound(p, r) /\ proc[p].pc \notin Working
  BY <1>1, ReturnsSoundly DEF Fetching, Extraction, Working, Deletion
<1> QED
  BY <1>1, <1>2, GoesQuietly

LEMMA GetInv ==
  ASSUME PubInv, NEW p \in Procs, Get(p)
  PROVE  PubInv'
<1>1. proc[p].pc = "get" /\ plugins' = plugins /\ cut' = cut
  BY DEF Get
<1>2. CASE Goes(p, [pc |-> "copy", got |-> 0, fd |-> "tmp"])
  <2>1. PICK r : r = [pc |-> "copy", got |-> 0, fd |-> "tmp"]
    OBVIOUS
  <2>2. DOMAIN r = {"pc", "got", "fd"} /\ r["pc"] = "copy"
    BY <2>1
  <2>3. Goes(p, r)
    BY <1>2, <2>1
  <2> QED
    BY <2>2, <2>3, <1>1, FetchGoesOn, FieldsOfProcesses DEF Fetching
<1>3. CASE Goes(p, Returns(p, FALSE))
  BY <1>1, <1>3, ReturnsInv DEF Fetching
<1> QED
  BY <1>2, <1>3 DEF Get

LEMMA OtherField ==
  ASSUME NEW f, NEW k \in {"fd", "alone", "staged"}, NEW v, Kept \subseteq DOMAIN f
  PROVE  /\ DOMAIN [f EXCEPT ![k] = v] = DOMAIN f
         /\ \A i \in Kept : [f EXCEPT ![k] = v][i] = f[i]
BY DEF Kept

LEMMA KeptFields == Kept \subseteq Fields
BY FieldsOfProcesses DEF Kept

\* A rename or a removal changes where the open files of the others are.
LEMMA MovedKeeps ==
  ASSUME PubTypes, NEW id, NEW from, NEW to
  PROVE  /\ DOMAIN Moved(id, from, to) = Procs
         /\ \A q \in Procs : DOMAIN Moved(id, from, to)[q] = Fields
         /\ \A q \in Procs : \A k \in Kept : Moved(id, from, to)[q][k] = proc[q][k]
<1>1. DOMAIN Moved(id, from, to) = Procs
  BY DEF Moved
<1>2. ASSUME NEW q \in Procs
      PROVE  /\ DOMAIN Moved(id, from, to)[q] = Fields
             /\ \A k \in Kept : Moved(id, from, to)[q][k] = proc[q][k]
  <2>1. Moved(id, from, to)[q] = proc[q] \/ Moved(id, from, to)[q] = [proc[q] EXCEPT !.fd = to]
    BY DEF Moved
  <2>2. DOMAIN proc[q] = Fields
    BY DEF PubTypes
  <2> QED
    BY <2>1, <2>2, OtherField, KeptFields
<1> QED
  BY <1>1, <1>2

LEMMA DropsInv ==
  ASSUME PubInv, NEW p \in Procs, Drops(p), proc[p].pc \in Fetching,
         plugins' = plugins, cut' = cut
  PROVE  PubInv'
<1>1. PICK r : r = Returns(p, FALSE)
  OBVIOUS
<1>2. Sound(p, r) /\ proc[p].pc \notin Working
  BY <1>1, ReturnsSoundly DEF Fetching, Extraction, Working, Deletion
<1>3. PICK moved : moved = Moved(proc[p].id, "tmp", "gone")
  OBVIOUS
<1>4. PICK closed : closed = [proc[p] EXCEPT !.fd = "closed"]
  OBVIOUS
<1>5. proc' = [moved EXCEPT ![p] = Merged(r, closed)]
  BY <1>1, <1>3, <1>4 DEF Drops
<1>6. PubTypes
  BY DEF PubInv
<1>7. /\ DOMAIN moved = Procs
      /\ \A q \in Procs : DOMAIN moved[q] = Fields
      /\ \A q \in Procs : \A k \in Kept : moved[q][k] = proc[q][k]
  BY <1>3, <1>6, MovedKeeps
<1>8. DOMAIN closed = Fields /\ \A k \in Kept : closed[k] = proc[p][k]
  BY <1>4, <1>6 DEF PubTypes, Kept
<1>9. DOMAIN Merged(r, closed) = Fields /\ \A k \in Kept : Merged(r, closed)[k] = FieldAfter(p, r, k)
  BY <1>2, <1>8, FieldsOfProcesses DEF Merged, FieldAfter, Sound, Kept
<1>10. DOMAIN proc' = Procs /\ proc'[p] = Merged(r, closed) /\ \A q \in Procs : q # p => proc'[q] = moved[q]
  BY <1>5, <1>7
<1>11. \A q \in Procs : DOMAIN proc'[q] = Fields
  BY <1>7, <1>9, <1>10
<1>12. \A q \in Procs : q # p => SameWork(q)
  BY <1>7, <1>10 DEF SameWork
<1>13. \A k \in Kept : proc'[p][k] = FieldAfter(p, r, k)
  BY <1>9, <1>10
<1> QED
  BY <1>2, <1>10, <1>11, <1>12, <1>13, SoundStep

LEMMA BrokenInv ==
  ASSUME PubInv, NEW p \in Procs, Broken(p)
  PROVE  PubInv'
BY DropsInv DEF Broken, Fetching

LEMMA VerifyInv ==
  ASSUME PubInv, NEW p \in Procs, Verify(p)
  PROVE  PubInv'
<1>1. proc[p].pc = "verify" /\ plugins' = plugins /\ cut' = cut
  BY DEF Verify
<1>2. CASE Drops(p)
  BY <1>1, <1>2, DropsInv DEF Fetching
<1>3. CASE Goes(p, [pc |-> "rename", fd |-> "closed"])
  <2>1. PICK r : r = [pc |-> "rename", fd |-> "closed"]
    OBVIOUS
  <2>2. DOMAIN r = {"pc", "fd"} /\ r["pc"] = "rename"
    BY <2>1
  <2>3. Goes(p, r)
    BY <1>3, <2>1
  <2> QED
    BY <2>2, <2>3, <1>1, FetchGoesOn, FieldsOfProcesses DEF Fetching
<1> QED
  BY <1>2, <1>3 DEF Verify

\* The open files of the others move, and p goes on with its fetch.
LEMMA MovesInv ==
  ASSUME PubInv, NEW p \in Procs, proc[p].pc \in Fetching, NEW next \in {"get", "unpack"},
         NEW moved, DOMAIN moved = Procs, \A q \in Procs : DOMAIN moved[q] = Fields,
         \A q \in Procs : \A k \in Kept : moved[q][k] = proc[q][k],
         DOMAIN proc' = Procs, proc'[p] = [moved[p] EXCEPT !.pc = next],
         \A q \in Procs : q # p => proc'[q] = moved[q],
         plugins' = plugins, cut' = cut
  PROVE  PubInv'
<1>1. DOMAIN proc' = Procs /\ proc'[p] = [moved[p] EXCEPT !.pc = next]
      /\ \A q \in Procs : q # p => proc'[q] = moved[q]
  OBVIOUS
<1>2. \A q \in Procs : DOMAIN proc'[q] = Fields
  BY <1>1
<1>3. \A q \in Procs : q # p => SameWork(q)
  BY <1>1 DEF SameWork
<1>4. proc'[p].pc = next /\ proc'[p].id = proc[p].id
      /\ proc'[p].back = proc[p].back /\ proc'[p].dirs = proc[p].dirs
  BY <1>1, FieldsOfProcesses DEF Kept
<1>5. HasPackage(p)' /\ proc'[p].pc \notin Working
  BY <1>4 DEF PubInv, HasPackage, Fetching, Extraction, Working, Deletion, Ids, Backs
<1> QED
  BY <1>1, <1>2, <1>3, <1>5, QuietStep DEF Fetching, Extraction, Working, Deletion

LEMMA LookupInv ==
  ASSUME PubInv, NEW p \in Procs, Lookup(p)
  PROVE  PubInv'
<1>1. proc[p].pc = "lookup" /\ plugins' = plugins /\ cut' = cut
  BY DEF Lookup
<1>2. ASSUME NEW next \in {"get", "unpack"}, Goes(p, [pc |-> next])
      PROVE  PubInv'
  <2>1. PICK r : r = [pc |-> next]
    OBVIOUS
  <2>2. DOMAIN r = {"pc"} /\ r["pc"] = next
    BY <2>1
  <2>3. Goes(p, r)
    BY <1>2, <2>1
  <2> QED
    BY <2>2, <2>3, <1>1, FetchGoesOn, FieldsOfProcesses DEF Fetching
<1>3. CASE proc' = [Moved(proc[p].id, "cache", "gone") EXCEPT ![p].pc = "get"]
  <2>1. PICK moved : moved = Moved(proc[p].id, "cache", "gone")
    OBVIOUS
  <2>2. /\ DOMAIN moved = Procs
        /\ \A q \in Procs : DOMAIN moved[q] = Fields
        /\ \A q \in Procs : \A k \in Kept : moved[q][k] = proc[q][k]
    BY <2>1, MovedKeeps DEF PubInv
  <2>3. /\ DOMAIN proc' = Procs /\ proc'[p] = [moved[p] EXCEPT !.pc = "get"]
        /\ \A q \in Procs : q # p => proc'[q] = moved[q]
    BY <1>3, <2>1, <2>2
  <2> QED
    BY <1>1, <2>2, <2>3, MovesInv DEF Fetching
<1> QED
  BY <1>2, <1>3 DEF Lookup

LEMMA RenameInv ==
  ASSUME PubInv, NEW p \in Procs, Rename(p)
  PROVE  PubInv'
<1> DEFINE id    == proc[p].id
           away  == Moved(id, "cache", "gone")
           there == [q \in Procs |-> IF proc[q].id = id /\ proc[q].fd = "tmp"
                                     THEN [proc[q] EXCEPT !.fd = "cache"] ELSE away[q]]
<1>1. proc[p].pc = "rename" /\ plugins' = plugins /\ cut' = cut
  BY DEF Rename
<1>2. CASE Goes(p, [pc |-> "unpack"])
  <2>1. PICK r : r = [pc |-> "unpack"]
    OBVIOUS
  <2>2. DOMAIN r = {"pc"} /\ r["pc"] = "unpack"
    BY <2>1
  <2>3. Goes(p, r)
    BY <1>2, <2>1
  <2> QED
    BY <2>2, <2>3, <1>1, FetchGoesOn, FieldsOfProcesses DEF Fetching
<1>3. CASE proc' = [there EXCEPT ![p].pc = "unpack"]
  <2>1. /\ \A q \in Procs : DOMAIN away[q] = Fields
        /\ \A q \in Procs : \A k \in Kept : away[q][k] = proc[q][k]
    BY MovedKeeps DEF PubInv
  <2>2. \A q \in Procs : there[q] = away[q] \/ there[q] = [proc[q] EXCEPT !.fd = "cache"]
    OBVIOUS
  <2>3. \A q \in Procs : DOMAIN proc[q] = Fields
    BY DEF PubInv, PubTypes
  <2>4. DOMAIN there = Procs
    OBVIOUS
  <2> HIDE DEF away, there
  <2>5. \A q \in Procs : DOMAIN there[q] = Fields
    BY <2>1, <2>2, <2>3
  <2>6. ASSUME NEW q \in Procs, NEW k \in Kept
        PROVE  there[q][k] = proc[q][k]
    <3>1. CASE there[q] = away[q]
      BY <2>1, <3>1
    <3>2. CASE there[q] = [proc[q] EXCEPT !.fd = "cache"]
      BY <2>3, <3>2, OtherField, KeptFields
    <3> QED
      BY <2>2, <3>1, <3>2
  <2>7. /\ DOMAIN proc' = Procs /\ proc'[p] = [there[p] EXCEPT !.pc = "unpack"]
        /\ \A q \in Procs : q # p => proc'[q] = there[q]
    BY <1>3, <2>4
  <2> QED
    BY <1>1, <2>4, <2>5, <2>6, <2>7, MovesInv DEF Fetching
<1> QED
  BY <1>2, <1>3 DEF Rename

--------------------------------------------------------------------------------
(* Packages: the steps that change the plugins.                            *)

\* A step to a place where p works on no plugin.
LEMMA SoundFrame ==
  ASSUME PubInv, NEW p \in Procs, NEW r, Goes(p, r), Sound(p, r)
  PROVE  /\ DOMAIN proc' = Procs /\ \A q \in Procs : DOMAIN proc'[q] = Fields
         /\ \A q \in Procs : q # p => SameWork(q)
         /\ HasPackage(p)' /\ proc'[p].pc \notin Working
<1>1. PubTypes /\ DOMAIN r \subseteq Fields
  BY DEF PubInv, Sound
<1>2. /\ DOMAIN proc' = Procs
      /\ \A q \in Procs : DOMAIN proc'[q] = Fields
      /\ \A q \in Procs : q # p => proc'[q] = proc[q]
      /\ \A k \in Fields : proc'[p][k] = FieldAfter(p, r, k)
  BY <1>1, Going DEF FieldAfter
<1>3. proc'[p].pc \notin Working
  BY <1>2, FieldsOfProcesses DEF Sound
<1>4. HasPackage(p)'
  BY <1>2, <1>3, FieldsOfProcesses
  DEF Sound, HasPackage, Fetching, Extraction, Working, Deletion, Backs, Ids, Parts
<1> QED
  BY <1>2, <1>3, <1>4 DEF SameWork

\* Whoever leaves a plugin says when it leaves it in pieces.
LEMMA LeavesHolds ==
  ASSUME PubInv, NEW p \in Procs, NEW id \in Ids, \A q \in Procs : q # p => SameWork(q),
         proc'[p].pc \notin Working, plugins' = plugins, Leaves(id)
  PROVE  Holds(id)'
<1>1. Holds(id)
  BY DEF PubInv, PluginContents
<1>2. id \notin cut' => id \notin cut /\ plugins[id] \in {None, Parts}
  BY DEF Leaves
<1>3. ASSUME id \notin cut', NEW q \in Procs, proc'[q].pc \in Extraction, proc'[q].id = id
      PROVE  plugins[id] # None
  <2>1. proc[q].pc \in Extraction /\ proc[q].id = id
    BY <1>3, SameWorkKeeps DEF Extraction, Working, Deletion
  <2> QED
    BY <1>1, <1>2, <1>3, <2>1 DEF Holds
<1>4. ASSUME id \notin cut', plugins[id] # None PROVE Parts \ plugins[id] = {}
  BY <1>2, <1>4
<1> QED
  BY <1>3, <1>4 DEF Holds, Extraction, Parts

\* A step in which p leaves a plugin as it is.
LEMMA LeavesInv ==
  ASSUME PubInv, NEW p \in Procs, NEW r, Goes(p, r), Sound(p, r), proc[p].pc \in Working,
         plugins' = plugins, Leaves(proc[p].id)
  PROVE  PubInv'
<1>1. PICK id : id = proc[p].id
  OBVIOUS
<1>2. id \in Ids
  BY <1>1 DEF PubInv, HasPackage
<1>3. \A i \in Ids : i # id => (i \in cut' <=> i \in cut)
  BY <1>1 DEF Leaves
<1>4. Holds(id)'
  BY <1>1, <1>2, SoundFrame, LeavesHolds
<1>5. PICK s : s = plugins[id]
  OBVIOUS
<1>6. s \in {None} \union SUBSET Parts /\ plugins' = [plugins EXCEPT ![id] = s]
  BY <1>2, <1>5 DEF PubInv, PubTypes
<1> QED
  BY <1>1, <1>2, <1>3, <1>4, <1>6, SoundFrame, PluginStep

\* A step in which p begins to remove a plugin.
LEMMA RemovalInv ==
  ASSUME PubInv, NEW p \in Procs, NEW id \in Ids, proc[p].pc \notin Working,
         DOMAIN proc' = Procs, \A q \in Procs : DOMAIN proc'[q] = Fields,
         \A q \in Procs : q # p => SameWork(q), HasPackage(p)',
         proc'[p].pc = "unlink", proc'[p].id = id, plugins' = plugins, cut' = cut
  PROVE  PubInv'
<1>1. Holds(id)
  BY DEF PubInv, PluginContents
<1>2. ASSUME id \notin cut, NEW q \in Procs, proc'[q].pc \in Extraction, proc'[q].id = id
      PROVE  plugins[id] # None
  <2>1. proc[q].pc \in Extraction /\ proc[q].id = id
    BY <1>2, SameWorkKeeps DEF Extraction
  <2> QED
    BY <1>1, <1>2, <2>1 DEF Holds
<1>3. Holds(id)'
  BY <1>2 DEF Holds, Extraction, Parts
<1>4. PICK s : s = plugins[id]
  OBVIOUS
<1>5. s \in {None} \union SUBSET Parts /\ plugins' = [plugins EXCEPT ![id] = s]
  BY <1>4 DEF PubInv, PubTypes
<1> QED
  BY <1>3, <1>5, PluginStep

LEMMA ReplaceInv ==
  ASSUME PubInv, NEW p \in Procs, Replace(p)
  PROVE  PubInv'
<1>1. proc[p].pc = "replace" /\ plugins' = plugins /\ cut' = cut
  BY DEF Replace
<1>2. proc[p].id \in Jps /\ proc[p].back \in Backs /\ proc[p].dirs \subseteq Ids
  BY <1>1 DEF PubInv, HasPackage
<1>3. PICK r : r = [pc |-> "unlink", todo |-> Entries(proc[p].id)]
  OBVIOUS
<1>4. DOMAIN r = {"pc", "todo"} /\ r["pc"] = "unlink"
  BY <1>3
<1>5. PubTypes /\ Goes(p, r) /\ DOMAIN r \subseteq Fields
  BY <1>3, <1>4, FieldsOfProcesses DEF PubInv, Replace
<1>6. /\ DOMAIN proc' = Procs
      /\ \A q \in Procs : DOMAIN proc'[q] = Fields
      /\ \A q \in Procs : q # p => proc'[q] = proc[q]
      /\ proc'[p].pc = "unlink" /\ proc'[p].id = proc[p].id
      /\ proc'[p].back = proc[p].back /\ proc'[p].dirs = proc[p].dirs
  BY <1>4, <1>5, Going, FieldsOfProcesses
<1>7. HasPackage(p)'
  BY <1>2, <1>6 DEF HasPackage, Fetching, Extraction, Working, Deletion, Backs, Ids
<1>8. \A q \in Procs : q # p => SameWork(q)
  BY <1>6 DEF SameWork
<1>9. PICK id : id = proc[p].id
  OBVIOUS
<1>10. id \in Ids /\ proc'[p].id = id /\ proc[p].pc \notin Working
  BY <1>1, <1>2, <1>6, <1>9 DEF Ids, Working, Deletion
<1> QED
  BY <1>1, <1>6, <1>7, <1>8, <1>10, RemovalInv

LEMMA DeleteInv ==
  ASSUME PubInv, NEW p \in Procs, Delete(p)
  PROVE  PubInv'
<1>1. proc[p].pc = "delete" /\ plugins' = plugins /\ cut' = cut
  BY DEF Delete
<1>2. proc[p].back \in Backs /\ proc[p].op = "remove"
  BY <1>1 DEF PubInv, HasPackage, Deletion
<1>3. PICK n : n = proc[p].id[1]
  OBVIOUS
<1>4. PICK r : r = [pc |-> "next", dirs |-> {id \in Ids : id[1] = n /\ plugins[id] # None}]
  OBVIOUS
<1>5. DOMAIN r = {"pc", "dirs"} /\ r["pc"] = "next" /\ r["dirs"] \subseteq Ids
  BY <1>4
<1>6. Sound(p, r)
  BY <1>2, <1>5, FieldsOfProcesses DEF Sound, FieldAfter, Fetching, Extraction, Working, Deletion
<1>7. Goes(p, r)
  BY <1>3, <1>4 DEF Delete
<1> QED
  BY <1>1, <1>6, <1>7, GoesQuietly DEF Working, Deletion

LEMMA NextDirInv ==
  ASSUME PubInv, NEW p \in Procs, NextDir(p)
  PROVE  PubInv'
<1>1. proc[p].pc = "next" /\ plugins' = plugins /\ cut' = cut
  BY DEF NextDir
<1>2. CASE Goes(p, [pc |-> "edit"])
  <2>1. PICK r : r = [pc |-> "edit"]
    OBVIOUS
  <2>2. DOMAIN r = {"pc"} /\ r["pc"] = "edit"
    BY <2>1
  <2>3. Goes(p, r)
    BY <1>2, <2>1
  <2> QED
    BY <2>2, <2>3, <1>1, GoesAside, FieldsOfProcesses DEF Fetching, Working, Deletion
<1>3. ASSUME NEW id \in proc[p].dirs, proc[p].op = "remove",
             Goes(p, [pc |-> "unlink", id |-> id, dirs |-> proc[p].dirs \ {id}, todo |-> Entries(id)])
      PROVE  PubInv'
  <2>1. id \in Ids /\ proc[p].back \in Backs /\ proc[p].dirs \subseteq Ids
    BY DEF PubInv, HasPackage
  <2>2. PICK r : r = [pc |-> "unlink", id |-> id, dirs |-> proc[p].dirs \ {id}, todo |-> Entries(id)]
    OBVIOUS
  <2>3. DOMAIN r = {"pc", "id", "dirs", "todo"} /\ r["pc"] = "unlink" /\ r["id"] = id
        /\ r["dirs"] \subseteq proc[p].dirs
    BY <2>2
  <2>4. PubTypes /\ Goes(p, r) /\ DOMAIN r \subseteq Fields
    BY <1>3, <2>2, <2>3, FieldsOfProcesses DEF PubInv
  <2>5. /\ DOMAIN proc' = Procs
        /\ \A q \in Procs : DOMAIN proc'[q] = Fields
        /\ \A q \in Procs : q # p => proc'[q] = proc[q]
        /\ proc'[p].pc = "unlink" /\ proc'[p].id = id /\ proc'[p].op = proc[p].op
        /\ proc'[p].back = proc[p].back /\ proc'[p].dirs \subseteq proc[p].dirs
    BY <2>3, <2>4, Going, FieldsOfProcesses
  <2>6. HasPackage(p)'
    BY <1>3, <2>1, <2>5 DEF HasPackage, Fetching, Extraction, Working, Deletion, Backs, Ids
  <2>7. \A q \in Procs : q # p => SameWork(q)
    BY <2>5 DEF SameWork
  <2> QED
    BY <1>1, <2>1, <2>5, <2>6, <2>7, RemovalInv DEF Working, Deletion
<1>4. proc[p].op = "remove"
  BY <1>1 DEF PubInv, HasPackage, Deletion
<1> QED
  BY <1>2, <1>3, <1>4 DEF NextDir

\* What process q prepares is none of the plugins.
LEMMA UnstageInv ==
  ASSUME PubInv, NEW p \in Procs, NEW q \in Procs, Unstage(p, q)
  PROVE  PubInv'
<1>1. plugins' = plugins /\ cut' = cut
  BY DEF Unstage
<1>2. PICK v : proc' = [proc EXCEPT ![q] = [proc[q] EXCEPT !.staged = v]]
  BY DEF Unstage
<1>3. DOMAIN proc' = Procs /\ \A a \in Procs : DOMAIN proc[a] = Fields
  BY <1>2 DEF PubInv, PubTypes
<1>4. ASSUME NEW a \in Procs
      PROVE  DOMAIN proc'[a] = Fields /\ \A k \in Kept : proc'[a][k] = proc[a][k]
  <2>1. CASE a # q
    BY <1>2, <1>3, <2>1
  <2>2. CASE a = q
    <3>1. proc'[a] = [proc[a] EXCEPT !.staged = v]
      BY <1>2, <1>3, <2>2
    <3> QED
      BY <1>3, <3>1, OtherField, KeptFields
  <2> QED
    BY <2>1, <2>2
<1> QED
  BY <1>1, <1>3, <1>4, AllTheSame DEF SameWork

\* An entry is removed: there is still somebody who removes.
LEMMA UnlinkEntryInv ==
  ASSUME PubInv, NEW p \in Procs, NEW unlinked, UnlinkEntry(p, unlinked)
  PROVE  PubInv'
<1>1. PICK id : id = proc[p].id
  OBVIOUS
<1>2. PICK entry : entry = EntryOf(id, unlinked)
  OBVIOUS
<1>3. proc[p].pc = "unlink" /\ cut' = cut /\ Goes(p, [todo |-> proc[p].todo \ entry])
      /\ \/ plugins' = [plugins EXCEPT ![id] = IF @ = None THEN None ELSE @ \ entry]
         \/ plugins' = plugins
  BY <1>1, <1>2 DEF UnlinkEntry
<1>4. id \in Ids
  BY <1>1, <1>3 DEF PubInv, HasPackage, Working
<1>5. PICK r : r = [todo |-> proc[p].todo \ entry]
  OBVIOUS
<1>6. DOMAIN r = {"todo"} /\ Goes(p, r) /\ PubTypes /\ DOMAIN r \subseteq Fields
  BY <1>3, <1>5, FieldsOfProcesses DEF PubInv
<1>7. /\ DOMAIN proc' = Procs
      /\ \A q \in Procs : DOMAIN proc'[q] = Fields
      /\ \A q \in Procs : q # p => proc'[q] = proc[q]
      /\ proc'[p].pc = "unlink" /\ proc'[p].id = id /\ proc'[p].op = proc[p].op
      /\ proc'[p].back = proc[p].back /\ proc'[p].dirs = proc[p].dirs
  BY <1>1, <1>3, <1>6, Going, FieldsOfProcesses
<1>8. HasPackage(p)'
  BY <1>1, <1>3, <1>4, <1>7
  DEF PubInv, HasPackage, Fetching, Extraction, Working, Deletion, Backs, Ids
<1>9. \A q \in Procs : q # p => SameWork(q)
  BY <1>7 DEF SameWork
<1>10. PICK s : s = plugins'[id]
  OBVIOUS
<1>11. plugins[id] \in {None} \union SUBSET Parts
  BY <1>4 DEF PubInv, PubTypes
<1>12. /\ plugins' = [plugins EXCEPT ![id] = s] /\ s \in {None} \union SUBSET Parts
       /\ plugins[id] # None => s \in SUBSET Parts
  BY <1>3, <1>4, <1>10, <1>11 DEF PubInv, PubTypes
<1>13. plugins[id] # None => s # None
  BY <1>12, PubAssumption
<1>14. ASSUME id \notin cut, NEW q \in Procs, proc'[q].pc \in Extraction, proc'[q].id = id
       PROVE  plugins[id] # None
  <2>1. proc[q].pc \in Extraction /\ proc[q].id = id
    BY <1>7, <1>14 DEF Extraction
  <2>2. Holds(id)
    BY <1>4 DEF PubInv, PluginContents
  <2> QED
    BY <1>14, <2>1, <2>2 DEF Holds
<1>15. Holds(id)'
  BY <1>3, <1>7, <1>10, <1>13, <1>14 DEF Holds, Extraction
<1> QED
  BY <1>1, <1>3, <1>4, <1>7, <1>8, <1>9, <1>12, <1>15, PluginStep

\* A fetch is over, and so is what it had prepared.
LEMMA UnstagedSoundly ==
  ASSUME PubInv, NEW p \in Procs, NEW ok \in BOOLEAN, proc[p].pc \in Fetching \union Working
  PROVE  Sound(p, Merged([staged |-> "no"], Returns(p, ok)))
<1>1. PICK r : r = Returns(p, ok)
  OBVIOUS
<1>2. Sound(p, r)
  BY <1>1, ReturnsSoundly
<1>3. PICK s : s = [staged |-> "no"]
  OBVIOUS
<1>4. PICK t : t = Merged(s, r)
  OBVIOUS
<1>5. DOMAIN t = DOMAIN r \union {"staged"} /\ \A k \in Kept : FieldAfter(p, t, k) = FieldAfter(p, r, k)
  BY <1>3, <1>4 DEF Merged, FieldAfter, Kept
<1>6. Sound(p, t)
  BY <1>2, <1>5, FieldsOfProcesses DEF Sound, Kept
<1> QED
  BY <1>1, <1>3, <1>4, <1>6

\* What p does after a removal.
LEMMA RemovalEnds ==
  ASSUME PubInv, NEW p \in Procs, proc[p].pc = "unlink", NEW ok \in BOOLEAN
  PROVE  Sound(p, AfterRemoval(p, ok))
<1>1. /\ proc[p].back \in Backs /\ proc[p].dirs \subseteq Ids /\ proc[p].id \in Ids
      /\ proc[p].op # "remove" => proc[p].id \in Jps
  BY DEF PubInv, HasPackage, Working
<1>2. CASE proc[p].op = "remove" \/ ok
  <2>1. PICK r : r = AfterRemoval(p, ok)
    OBVIOUS
  <2>2. DOMAIN r = {"pc"} /\ r["pc"] = IF proc[p].op = "remove" THEN "next" ELSE "place"
    BY <1>2, <2>1 DEF AfterRemoval
  <2>3. Sound(p, r)
    BY <1>1, <2>2, FieldsOfProcesses DEF Sound, FieldAfter, Fetching, Working, Deletion
  <2> QED
    BY <2>1, <2>3
<1>3. CASE proc[p].op # "remove" /\ ~ok
  <2>1. AfterRemoval(p, ok) = Merged([staged |-> "no"], Returns(p, FALSE))
    BY <1>3 DEF AfterRemoval
  <2> QED
    BY <2>1, UnstagedSoundly DEF Working
<1> QED
  BY <1>2, <1>3

LEMMA RemoveDirInv ==
  ASSUME PubInv, NEW p \in Procs, RemoveDir(p)
  PROVE  PubInv'
<1>1. PICK id : id = proc[p].id
  OBVIOUS
<1>2. proc[p].pc = "unlink" /\ proc[p].pc \in Working
  BY DEF RemoveDir, Working
<1>3. id \in Ids
  BY <1>1, <1>2 DEF PubInv, HasPackage
<1>4. CASE plugins' = plugins /\ Leaves(id) /\ Goes(p, AfterRemoval(p, FALSE))
  BY <1>1, <1>2, <1>4, RemovalEnds, LeavesInv
<1>5. CASE /\ plugins' = [plugins EXCEPT ![id] = None]
           /\ cut' = IF Extracted(id) THEN cut \union {id} ELSE cut
           /\ Goes(p, AfterRemoval(p, TRUE))
  <2>1. PICK r : r = AfterRemoval(p, TRUE)
    OBVIOUS
  <2>2. Sound(p, r) /\ Goes(p, r)
    BY <1>2, <1>5, <2>1, RemovalEnds
  <2>3. /\ DOMAIN proc' = Procs /\ \A q \in Procs : DOMAIN proc'[q] = Fields
        /\ \A q \in Procs : q # p => SameWork(q)
        /\ HasPackage(p)' /\ proc'[p].pc \notin Working
    BY <2>2, SoundFrame
  <2>4. plugins'[id] = None
    BY <1>3, <1>5 DEF PubInv, PubTypes
  <2>5. ASSUME NEW q \in Procs, proc'[q].pc \in Extraction, proc'[q].id = id
        PROVE  id \in cut'
    <3>1. Extracting(q) /\ proc[q].id = id
      BY <2>3, <2>5, SameWorkKeeps DEF Extracting, Extraction, Working
    <3> QED
      BY <1>5, <3>1 DEF Extracted
  <2>6. Holds(id)'
    BY <2>4, <2>5 DEF Holds, Extraction
  <2>7. \A i \in Ids : i # id => (i \in cut' <=> i \in cut)
    BY <1>5
  <2> QED
    BY <1>1, <1>3, <1>5, <2>3, <2>6, <2>7, PluginStep
<1> QED
  BY <1>1, <1>4, <1>5 DEF RemoveDir

LEMMA PlaceInv ==
  ASSUME PubInv, NEW p \in Procs, Place(p)
  PROVE  PubInv'
<1>1. PICK id : id = proc[p].id
  OBVIOUS
<1>2. proc[p].pc = "place" /\ proc[p].pc \notin Working
  BY DEF Place, Working
<1>3. id \in Jps /\ id \in Ids
  BY <1>1, <1>2 DEF PubInv, HasPackage, Ids
<1>4. CASE plugins' = plugins /\ cut' = cut /\ Goes(p, Merged([staged |-> "no"], Returns(p, FALSE)))
  BY <1>2, <1>4, UnstagedSoundly, GoesQuietly DEF Fetching
<1>5. ASSUME NEW s, s = Prepared(proc[p].staged), plugins' = [plugins EXCEPT ![id] = s],
             cut' = IF proc[p].staged = "whole" THEN cut \ {id} ELSE cut \union {id},
             Goes(p, Merged([staged |-> "no"], Returns(p, TRUE)))
      PROVE  PubInv'
  <2>1. PICK r : r = Merged([staged |-> "no"], Returns(p, TRUE))
    OBVIOUS
  <2>2. Sound(p, r) /\ Goes(p, r)
    BY <1>2, <1>5, <2>1, UnstagedSoundly DEF Fetching
  <2>3. /\ DOMAIN proc' = Procs /\ \A q \in Procs : DOMAIN proc'[q] = Fields
        /\ \A q \in Procs : q # p => SameWork(q)
        /\ HasPackage(p)' /\ proc'[p].pc \notin Working
    BY <2>2, SoundFrame
  <2>4. s \in SUBSET Parts /\ (id \notin cut' => s = Parts)
    BY <1>5 DEF Prepared, Parts
  <2>5. plugins'[id] = s
    BY <1>3, <1>5 DEF PubInv, PubTypes
  <2>6. \A q \in Procs : ~(proc'[q].pc \in Extraction /\ proc'[q].id = id)
    BY <1>3, <2>3, SameWorkKeeps DEF PubInv, HasPackage, Extraction, Working
  <2>7. Holds(id)'
    BY <2>4, <2>5, <2>6 DEF Holds, Extraction, Parts
  <2>8. \A i \in Ids : i # id => (i \in cut' <=> i \in cut)
    BY <1>5
  <2> QED
    BY <1>2, <1>3, <1>5, <2>3, <2>4, <2>7, <2>8, PluginStep
<1> QED
  BY <1>1, <1>4, <1>5 DEF Place

\* A step of the extraction of a ZIP by p, which leaves s of the plugin.
LEMMA PartStep ==
  ASSUME PubInv, NEW p \in Procs, NEW id \in Ids, proc[p].id = id,
         DOMAIN proc' = Procs, \A q \in Procs : DOMAIN proc'[q] = Fields,
         \A q \in Procs : q # p => proc'[q] = proc[q], HasPackage(p)',
         proc'[p].pc \in Working => proc'[p].id = id, proc'[p].pc # "unlink", proc[p].pc # "unlink",
         NEW s \in {None} \union SUBSET Parts, plugins' = [plugins EXCEPT ![id] = s], cut' = cut,
         id \notin cut => s # None,
         id \notin cut /\ ~Removed(id) => \A entry \in Parts \ s : \E q \in Procs : Owes(q, id, entry)'
  PROVE  PubInv'
<1>1. \A q \in Procs : q # p => SameWork(q)
  BY DEF SameWork
<1>2. plugins'[id] = s
  BY DEF PubInv, PubTypes
<1>3. (\A q \in Procs : ~(proc'[q].pc = "unlink" /\ proc'[q].id = id)) => ~Removed(id)
  BY DEF Removed, Removing
<1>4. Holds(id)'
  BY <1>2, <1>3 DEF Holds, Parts
<1> QED
  BY <1>1, <1>4, PluginStep

LEMMA UnpackInv ==
  ASSUME PubInv, NEW p \in Procs, Unpack(p)
  PROVE  PubInv'
<1>0. PICK id : id = proc[p].id
  OBVIOUS
<1>1. proc[p].pc = "unpack" /\ cut' = cut
  BY DEF Unpack
<1>2. id \in Ids /\ proc[p].back \in Backs /\ proc[p].dirs \subseteq Ids
  BY <1>0, <1>1 DEF PubInv, HasPackage, Fetching
<1>3. CASE Goes(p, Returns(p, FALSE)) /\ plugins' = plugins
  BY <1>1, <1>3, ReturnsInv DEF Fetching
<1>4. ASSUME NEW staged, id \in Jps, Goes(p, [pc |-> "replace", staged |-> staged]), plugins' = plugins
      PROVE  PubInv'
  <2>1. PICK r : r = [pc |-> "replace", staged |-> staged]
    OBVIOUS
  <2>2. DOMAIN r = {"pc", "staged"} /\ r["pc"] = "replace"
    BY <2>1
  <2>3. Sound(p, r)
    BY <1>0, <1>2, <1>4, <2>2, FieldsOfProcesses DEF Sound, FieldAfter, Fetching, Extraction, Working, Deletion
  <2>4. Goes(p, r)
    BY <1>4, <2>1
  <2> QED
    BY <1>1, <1>4, <2>3, <2>4, GoesQuietly DEF Extraction, Working, Deletion
<1>5. ASSUME NEW damaged, id \notin Jps,
             Goes(p, [pc |-> "open", todo |-> Parts, damaged |-> damaged]),
             plugins' = [plugins EXCEPT ![id] = IF @ = None THEN {} ELSE @]
      PROVE  PubInv'
  <2>1. PICK r : r = [pc |-> "open", todo |-> Parts, damaged |-> damaged]
    OBVIOUS
  <2>2. DOMAIN r = {"pc", "todo", "damaged"} /\ r["pc"] = "open" /\ r["todo"] = Parts
    BY <2>1
  <2>3. PubTypes /\ Goes(p, r) /\ DOMAIN r \subseteq Fields
    BY <1>5, <2>1, <2>2, FieldsOfProcesses DEF PubInv
  <2>4. /\ DOMAIN proc' = Procs
        /\ \A q \in Procs : DOMAIN proc'[q] = Fields
        /\ \A q \in Procs : q # p => proc'[q] = proc[q]
        /\ proc'[p].pc = "open" /\ proc'[p].todo = Parts
        /\ proc'[p].id = id /\ proc'[p].back = proc[p].back /\ proc'[p].dirs = proc[p].dirs
    BY <1>0, <2>2, <2>3, Going, FieldsOfProcesses
  <2>5. HasPackage(p)'
    BY <1>2, <1>5, <2>4 DEF HasPackage, Extraction, Working, Deletion, Fetching, Ids, Backs
  <2>6. PICK s : s = IF plugins[id] = None THEN {} ELSE plugins[id]
    OBVIOUS
  <2>7. plugins' = [plugins EXCEPT ![id] = s]
    BY <1>2, <1>5, <2>3, <2>6 DEF PubTypes
  <2>8. s \in SUBSET Parts
    BY <1>2, <2>3, <2>6 DEF PubTypes
  <2>9. s # None
    BY <2>8, PubAssumption
  <2>10. \A entry \in Parts \ s : Owes(p, id, entry)'
    BY <2>4 DEF Owes, Extraction, Parts
  <2> QED
    BY <1>0, <1>1, <1>2, <1>5, <2>4, <2>5, <2>7, <2>8, <2>9, <2>10, PartStep
<1>6. \/ Goes(p, Returns(p, FALSE)) /\ plugins' = plugins
      \/ \E staged : id \in Jps /\ Goes(p, [pc |-> "replace", staged |-> staged]) /\ plugins' = plugins
      \/ \E damaged : /\ id \notin Jps
                      /\ Goes(p, [pc |-> "open", todo |-> Parts, damaged |-> damaged])
                      /\ plugins' = [plugins EXCEPT ![id] = IF @ = None THEN {} ELSE @]
  BY <1>0, Zenon DEF Unpack
<1> QED
  BY <1>3, <1>4, <1>5, <1>6

LEMMA OpenInv ==
  ASSUME PubInv, NEW p \in Procs, NEW opened \in Parts, Open(p, opened)
  PROVE  PubInv'
<1> DEFINE id == proc[p].id
<1>1. proc[p].pc = "open" /\ cut' = cut
  BY DEF Open
<1>2. id \in Ids /\ id \notin Jps /\ proc[p].back \in Backs /\ proc[p].dirs \subseteq Ids
  BY <1>1 DEF PubInv, HasPackage, Extraction, Working
<1>3. PICK r : r = [pc |-> "fill", todo |-> proc[p].todo \ {opened}, part |-> opened]
  OBVIOUS
<1>4. DOMAIN r = {"pc", "todo", "part"} /\ r["pc"] = "fill"
      /\ r["todo"] = proc[p].todo \ {opened} /\ r["part"] = opened
  BY <1>3
<1>5. PubTypes /\ Goes(p, r) /\ DOMAIN r \subseteq Fields
  BY <1>3, <1>4, FieldsOfProcesses DEF PubInv, Open
<1>6. /\ DOMAIN proc' = Procs
      /\ \A q \in Procs : DOMAIN proc'[q] = Fields
      /\ \A q \in Procs : q # p => proc'[q] = proc[q]
      /\ proc'[p].pc = "fill" /\ proc'[p].todo = proc[p].todo \ {opened} /\ proc'[p].part = opened
      /\ proc'[p].id = id /\ proc'[p].back = proc[p].back /\ proc'[p].dirs = proc[p].dirs
  BY <1>4, <1>5, Going, FieldsOfProcesses
<1>7. HasPackage(p)'
  BY <1>2, <1>6 DEF HasPackage, Extraction, Working, Deletion, Fetching, Ids, Backs, Parts
<1>8. PICK s : s = IF plugins[id] = None THEN {} ELSE plugins[id] \ {opened}
  OBVIOUS
<1>9. plugins' = [plugins EXCEPT ![id] = s]
  BY <1>2, <1>5, <1>8 DEF PubTypes, Open
<1>10. s \in SUBSET Parts
  BY <1>2, <1>5, <1>8 DEF PubTypes
<1>11. s # None
  BY <1>10, PubAssumption
<1>12. ASSUME NEW entry \in Parts \ s, id \notin cut, ~Removed(id)
       PROVE  \E q \in Procs : Owes(q, id, entry)'
  <2>1. Holds(id) /\ \A q \in Procs : ~(proc[q].pc = "unlink" /\ proc[q].id = id)
    BY <1>2, <1>12 DEF PubInv, PluginContents, Removed, Removing
  <2>2. plugins[id] # None
    BY <1>1, <1>12, <2>1 DEF Holds, Extraction
  <2>3. CASE entry = opened
    BY <1>6, <2>3 DEF Owes, Extraction
  <2>4. CASE entry # opened
    <3>1. entry \in Parts \ plugins[id]
      BY <1>8, <1>12, <2>2, <2>4
    <3>2. PICK q \in Procs : Owes(q, id, entry)
      BY <1>12, <2>1, <2>2, <3>1 DEF Holds
    <3>3. CASE q = p
      BY <1>1, <1>6, <2>4, <3>2, <3>3 DEF Owes, Extraction
    <3>4. CASE q # p
      BY <1>6, <3>2, <3>4 DEF Owes
    <3> QED
      BY <3>3, <3>4
  <2> QED
    BY <2>3, <2>4
<1> QED
  BY <1>1, <1>2, <1>6, <1>7, <1>9, <1>10, <1>11, <1>12, PartStep

LEMMA FillInv ==
  ASSUME PubInv, NEW p \in Procs, Fill(p)
  PROVE  PubInv'
<1>0. PICK id : id = proc[p].id
  OBVIOUS
<1>1. proc[p].pc = "fill" /\ cut' = cut
  BY DEF Fill
<1>2. /\ id \in Ids /\ id \notin Jps /\ proc[p].part \in Parts
      /\ proc[p].back \in Backs /\ proc[p].dirs \subseteq Ids
  BY <1>0, <1>1 DEF PubInv, HasPackage, Extraction, Working
<1>3. PICK r : r = IF proc[p].todo = {} THEN Returns(p, TRUE) ELSE [pc |-> "open"]
  OBVIOUS
<1>4. Goes(p, r)
  BY <1>3 DEF Fill
<1>5. PubTypes
  BY DEF PubInv
<1>6. /\ DOMAIN proc' = Procs
      /\ \A q \in Procs : DOMAIN proc'[q] = Fields
      /\ \A q \in Procs : q # p => proc'[q] = proc[q]
      /\ HasPackage(p)' /\ proc'[p].pc # "unlink"
      /\ proc'[p].pc \in Working => proc'[p].id = id
      /\ proc[p].todo # {} => proc'[p].pc = "open" /\ proc'[p].id = id /\ proc'[p].todo = proc[p].todo
  <2>1. CASE proc[p].todo = {}
    <3>1. Sound(p, r)
      BY <1>1, <1>3, <2>1, ReturnsSoundly DEF Working
    <3>2. \A q \in Procs : q # p => proc'[q] = proc[q]
      BY <1>4, <1>5, <3>1, Going DEF Sound
    <3>3. /\ DOMAIN proc' = Procs /\ \A q \in Procs : DOMAIN proc'[q] = Fields
          /\ HasPackage(p)' /\ proc'[p].pc \notin Working
      BY <1>4, <3>1, SoundFrame
    <3> QED
      BY <2>1, <3>2, <3>3 DEF Working
  <2>2. CASE proc[p].todo # {}
    <3>1. r = [pc |-> "open"]
      BY <1>3, <2>2
    <3>2. DOMAIN r = {"pc"} /\ r["pc"] = "open"
      BY <3>1
    <3>3. /\ DOMAIN proc' = Procs
          /\ \A q \in Procs : DOMAIN proc'[q] = Fields
          /\ \A q \in Procs : q # p => proc'[q] = proc[q]
          /\ proc'[p].pc = "open" /\ proc'[p].id = id /\ proc'[p].todo = proc[p].todo
          /\ proc'[p].back = proc[p].back /\ proc'[p].dirs = proc[p].dirs
      BY <1>0, <1>4, <1>5, <3>2, Going, FieldsOfProcesses
    <3>4. HasPackage(p)'
      BY <1>2, <3>3 DEF HasPackage, Extraction, Working, Deletion, Fetching, Ids, Backs
    <3> QED
      BY <3>3, <3>4
  <2> QED
    BY <2>1, <2>2
<1>7. PICK whole : whole = IF plugins[id] = None THEN None ELSE plugins[id] \union {proc[p].part}
  OBVIOUS
<1>8. PICK s : /\ plugins' = [plugins EXCEPT ![id] = s]
               /\ s = whole \/ (s = plugins[id] /\ (Removed(id) \/ id \in cut))
  <2>1. \/ plugins' = [plugins EXCEPT ![id] = IF @ = None THEN None ELSE @ \union {proc[p].part}]
        \/ plugins' = plugins /\ (Removed(id) \/ id \in cut)
    BY <1>0 DEF Fill
  <2>2. plugins = [plugins EXCEPT ![id] = plugins[id]]
    BY <1>2, <1>5 DEF PubTypes
  <2> QED
    BY <1>2, <1>5, <1>7, <2>1, <2>2 DEF PubTypes
<1>9. whole \in {None} \union SUBSET Parts /\ plugins[id] \in {None} \union SUBSET Parts
  BY <1>2, <1>5, <1>7 DEF PubTypes
<1>10. ASSUME id \notin cut
       PROVE  plugins[id] # None /\ whole = plugins[id] \union {proc[p].part} /\ whole # None
  <2>1. plugins[id] # None
    BY <1>0, <1>1, <1>2, <1>10 DEF PubInv, PluginContents, Holds, Extraction
  <2>2. plugins[id] \in SUBSET Parts
    BY <1>9, <2>1
  <2>3. whole = plugins[id] \union {proc[p].part}
    BY <1>7, <2>1
  <2>4. whole \in SUBSET Parts
    BY <1>2, <2>2, <2>3
  <2> QED
    BY <2>1, <2>3, <2>4, PubAssumption
<1>11. ASSUME NEW entry \in Parts \ s, id \notin cut, ~Removed(id)
       PROVE  \E q \in Procs : Owes(q, id, entry)'
  <2>1. entry \in Parts \ plugins[id] /\ entry # proc[p].part
    BY <1>8, <1>10, <1>11
  <2>2. PICK q \in Procs : Owes(q, id, entry)
    BY <1>2, <1>10, <1>11, <2>1 DEF PubInv, PluginContents, Holds, Removed, Removing
  <2>3. CASE q = p
    BY <1>0, <1>6, <2>1, <2>2, <2>3 DEF Owes, Extraction
  <2>4. CASE q # p
    BY <1>6, <2>2, <2>4 DEF Owes
  <2> QED
    BY <2>3, <2>4
<1>12. s \in {None} \union SUBSET Parts /\ (id \notin cut => s # None)
  BY <1>8, <1>9, <1>10
<1> QED
  BY <1>0, <1>1, <1>2, <1>6, <1>8, <1>11, <1>12, PartStep

LEMMA ExtractionFailsInv ==
  ASSUME PubInv, NEW p \in Procs, ExtractionFails(p)
  PROVE  PubInv'
<1>1. /\ proc[p].pc \in Working /\ plugins' = plugins /\ Leaves(proc[p].id)
      /\ Goes(p, Returns(p, FALSE))
  BY DEF ExtractionFails, Extracting, Working
<1> QED
  BY <1>1, ReturnsSoundly, LeavesInv

\* The plugin that a killed process extracted or removed stays as it is.
LEMMA CrashInv ==
  ASSUME PubInv, NEW p \in Procs, Crash(p)
  PROVE  PubInv'
<1>1. plugins' = plugins /\ Ends(p)
  BY DEF Crash
<1>2. CASE proc[p].pc \notin Working
  BY <1>1, <1>2, EndsQuietly DEF Crash, Extracting, Removing, Working
<1>3. CASE proc[p].pc \in Working
  <2>1. PICK id : id = proc[p].id
    OBVIOUS
  <2>2. id \in Ids /\ Leaves(id)
    BY <1>3, <2>1 DEF Crash, Extracting, Removing, Working, PubInv, HasPackage
  <2>3. /\ DOMAIN proc' = Procs /\ \A q \in Procs : DOMAIN proc'[q] = Fields
        /\ \A q \in Procs : q # p => SameWork(q)
        /\ HasPackage(p)' /\ proc'[p].pc \notin Working
    BY <1>1, EndsFrame
  <2>4. Holds(id)' /\ \A i \in Ids : i # id => (i \in cut' <=> i \in cut)
    BY <1>1, <2>2, <2>3, LeavesHolds DEF Leaves
  <2>5. PICK s : s = plugins[id]
    OBVIOUS
  <2>6. s \in {None} \union SUBSET Parts /\ plugins' = [plugins EXCEPT ![id] = s]
    BY <1>1, <2>2, <2>5 DEF PubInv, PubTypes
  <2> QED
    BY <2>1, <2>2, <2>3, <2>4, <2>6, PluginStep
<1> QED
  BY <1>2, <1>3

\* A file of the cache is removed under whoever has it open.
LEMMA CleanFileInv ==
  ASSUME PubInv, NEW p \in Procs, NEW id \in Ids, CleanFile(p, id)
  PROVE  PubInv'
<1>1. plugins' = plugins /\ cut' = cut
  BY DEF CleanFile
<1>2. PICK from : proc' = Moved(id, from, "gone")
  BY DEF CleanFile
<1>3. /\ DOMAIN proc' = Procs /\ \A q \in Procs : DOMAIN proc'[q] = Fields
      /\ \A q \in Procs : SameWork(q)
  BY <1>2, MovedKeeps DEF PubInv, SameWork
<1> QED
  BY <1>1, <1>3, AllTheSame

LEMMA CleanInv ==
  ASSUME PubInv, NEW p \in Procs, Clean(p)
  PROVE  PubInv'
BY EndsQuietly DEF Clean, Working

LEMMA BeginInv ==
  ASSUME PubInv, NEW p \in Procs, NEW c, Begin(p, c)
  PROVE  PubInv'
<1>1. PICK first : first = CASE c.op = "add"    -> [pc |-> "ask", id |-> c.id]
                             [] c.op = "remove" -> [pc |-> "delete", id |-> c.id]
                             [] c.op = "clean"  -> [pc |-> "clean"]
                             [] OTHER           -> [pc |-> "manifest"]
  OBVIOUS
<1>2. DOMAIN first \subseteq {"pc", "id"} /\ "pc" \in DOMAIN first
      /\ first["pc"] \in {"ask", "delete", "clean", "manifest"}
      /\ (first["pc"] = "delete" => c.op = "remove")
  BY <1>1
<1>3. PICK more : more = [op |-> c.op, alone |-> Active = {}]
  OBVIOUS
<1>4. DOMAIN more = {"op", "alone"} /\ more["op"] = c.op
  BY <1>3
<1>5. PICK r : r = Merged(first, more)
  OBVIOUS
<1>6. DOMAIN r \subseteq Fields \ {"back", "dirs"} /\ {"pc", "op"} \subseteq DOMAIN r
      /\ r["pc"] \in {"ask", "delete", "clean", "manifest"}
      /\ (r["pc"] = "delete" => r["op"] = "remove")
  <2>1. DOMAIN r = DOMAIN first \union {"op", "alone"}
    BY <1>4, <1>5 DEF Merged
  <2>2. r["pc"] = first["pc"] /\ r["op"] = more["op"]
    BY <1>2, <1>4, <1>5 DEF Merged
  <2> QED
    BY <1>2, <1>4, <2>1, <2>2, FieldsOfProcesses
<1>7. PICK before : before = Accompanied
  OBVIOUS
<1>8. /\ proc[p].pc = "idle" /\ plugins' = plugins /\ cut' = cut
      /\ proc' = [before EXCEPT ![p] = Merged(r, @)]
  BY <1>1, <1>3, <1>5, <1>7 DEF Begin
<1>9. /\ DOMAIN before = Procs
      /\ \A q \in Procs : before[q] = proc[q] \/ before[q] = [proc[q] EXCEPT !.alone = FALSE]
  BY <1>7 DEF Accompanied
<1>10. ASSUME NEW q \in Procs
       PROVE  DOMAIN before[q] = Fields /\ \A k \in Kept : before[q][k] = proc[q][k]
  <2>1. DOMAIN proc[q] = Fields
    BY DEF PubInv, PubTypes
  <2>2. CASE before[q] = proc[q]
    BY <2>1, <2>2
  <2>3. CASE before[q] = [proc[q] EXCEPT !.alone = FALSE]
    BY <2>1, <2>3, OtherField, KeptFields
  <2> QED
    BY <1>9, <2>2, <2>3
<1>11. DOMAIN proc' = Procs /\ proc'[p] = Merged(r, before[p]) /\ \A q \in Procs : q # p => proc'[q] = before[q]
  BY <1>8, <1>9
<1>12. DOMAIN Merged(r, before[p]) = Fields /\ \A k \in Kept : Merged(r, before[p])[k] = FieldAfter(p, r, k)
  <2>1. DOMAIN before[p] = Fields /\ \A k \in Kept : before[p][k] = proc[p][k]
    BY <1>10
  <2> QED
    BY <1>6, <2>1, KeptFields DEF Merged, FieldAfter
<1>13. \A q \in Procs : DOMAIN proc'[q] = Fields
  BY <1>10, <1>11, <1>12
<1>14. \A q \in Procs : q # p => SameWork(q)
  BY <1>10, <1>11 DEF SameWork
<1>15. \A k \in Kept : proc'[p][k] = FieldAfter(p, r, k)
  BY <1>11, <1>12
<1>16. proc[p].back \in Backs /\ proc[p].dirs \subseteq Ids
  BY DEF PubInv, HasPackage
<1>17. Sound(p, r)
  BY <1>6, <1>16, FieldsOfProcesses DEF Sound, FieldAfter, Fetching, Working, Deletion
<1> QED
  BY <1>8, <1>11, <1>13, <1>14, <1>15, <1>17, SoundStep DEF Working

--------------------------------------------------------------------------------
(* Packages: the theorems.                                                 *)

\* The invariant behind InstalledIsWhole holds in every state.
THEOREM PubInductive == PubSpec => []PubInv
<1>1. PubInit => PubInv
  <2> SUFFICES ASSUME PubInit PROVE PubInv
    OBVIOUS
  <2>1. DOMAIN proc = Procs /\ \A p \in Procs : proc[p] = Idle
    BY DEF PubInit
  <2>2. plugins \in [Ids -> {None} \union SUBSET Parts] /\ \A id \in Ids : plugins[id] = None
    BY DEF PubInit
  <2>3. \A p \in Procs : HasPackage(p) /\ proc[p].pc \notin Working
    BY <2>1, IdleProcess DEF HasPackage, Fetching, Extraction, Working, Deletion, Backs, Ids
  <2>4. ASSUME NEW id \in Ids PROVE Holds(id)
    BY <2>2, <2>3 DEF Holds, Extraction, Working
  <2> QED
    BY <2>1, <2>2, <2>3, <2>4, IdleProcess DEF PubInv, PubTypes, PluginContents
<1>2. PubInv /\ [PubNext]_pubVars => PubInv'
  <2> SUFFICES ASSUME PubInv, [PubNext]_pubVars PROVE PubInv'
    OBVIOUS
  <2>1. CASE UNCHANGED pubVars
    BY <2>1, AllTheSame DEF pubVars, PubInv, PubTypes, SameWork
  <2>2. ASSUME NEW p \in Procs, Steps(p)
        PROVE  PubInv'
    <3>1. CASE Ask(p) \/ GitHub(p) \/ Lookup(p) \/ Get(p) \/ Copy(p) \/ Broken(p)
      BY <3>1, AskInv, GitHubInv, LookupInv, GetInv, CopyInv, BrokenInv
    <3>2. CASE Verify(p) \/ Rename(p) \/ Unpack(p) \/ Replace(p) \/ RemoveDir(p) \/ Place(p)
      BY <3>2, VerifyInv, RenameInv, UnpackInv, ReplaceInv, RemoveDirInv, PlaceInv
    <3>3. CASE \/ \E entry \in Parts : Open(p, entry) \/ UnlinkEntry(p, entry)
               \/ Fill(p) \/ ExtractionFails(p)
               \/ Delete(p) \/ NextDir(p) \/ \E q \in Procs : Unstage(p, q)
      BY <3>3, OpenInv, UnlinkEntryInv, FillInv, ExtractionFailsInv, DeleteInv, NextDirInv, UnstageInv
    <3>4. CASE \/ ReadManifest(p) \/ RootsDone(p) \/ ReadNeeds(p) \/ QueueDone(p)
               \/ \E id \in proc[p].roots : Root(p, id)
               \/ \E id \in proc[p].queue : Visit(p, id)
      BY <3>4, ReadManifestInv, RootsDoneInv, ReadNeedsInv, QueueDoneInv, RootInv, VisitInv
    <3>5. CASE EditRead(p) \/ Truncate(p) \/ Write(p) \/ Reread(p)
      BY <3>5, EditReadInv, TruncateInv, WriteInv, RereadInv
    <3>6. CASE Hash(p) \/ WriteLock(p) \/ (\E id \in Ids : CleanFile(p, id)) \/ Clean(p)
      BY <3>6, HashInv, WriteLockInv, CleanFileInv, CleanInv
    <3> QED
      BY <2>2, <3>1, <3>2, <3>3, <3>4, <3>5, <3>6, Zenon DEF Steps
  <2> QED
    BY <2>1, <2>2, CrashInv, BeginInv DEF PubNext
<1> QED
  BY <1>1, <1>2, PTL DEF PubSpec

\* Whatever commands run together, are killed or fail, an installed plugin is
\* whole unless a process removes it or, a ZIP, extracts it, or it was left in
\* pieces by one that did (installJPFile, extractPluginZip, pubRemove).
THEOREM PackagesAreWhole == PubSpec => []InstalledIsWhole
<1>1. PubInv => InstalledIsWhole
  <2> SUFFICES ASSUME PubInv, NEW id \in Ids, plugins[id] # None, plugins[id] # Parts,
                      id \notin cut, ~Removed(id)
               PROVE  id \in Zips /\ Extracted(id)
    BY DEF InstalledIsWhole
  <2>1. plugins[id] \in SUBSET Parts
    BY DEF PubInv, PubTypes
  <2>2. PICK entry \in Parts : entry \notin plugins[id]
    BY <2>1
  <2>3. PICK p \in Procs : Owes(p, id, entry)
    BY <2>2 DEF PubInv, PluginContents, Holds, Removed, Removing
  <2>4. proc[p].pc \in Extraction /\ proc[p].id = id
    BY <2>3 DEF Owes
  <2>5. id \notin Jps
    BY <2>4 DEF PubInv, HasPackage
  <2> QED
    BY <2>4, <2>5 DEF Extracted, Extracting, Extraction, Ids
<1> QED
  BY <1>1, PubInductive, PTL

--------------------------------------------------------------------------------
(* Packages: the walk of the lock file.                                    *)

\* Induction, with a set for the property.
LEMMA NatSetInduction ==
    ASSUME NEW G, 0 \in G, \A n \in Nat : n \in G => n + 1 \in G
    PROVE  Nat \subseteq G
<1>1. SUFFICES ASSUME NEW x \in Nat, x \notin G PROVE FALSE
  OBVIOUS
<1>2. PICK i \in Nat \ G : \A j \in Nat \ G : i <= j
  BY <1>1, LeastNumber
<1>3. i - 1 \in Nat \ G
  <2>1. i # 0 /\ i \in Nat
    BY <1>2
  <2>2. i - 1 \in Nat /\ (i - 1) + 1 = i
    BY <2>1
  <2>3. QED
    BY <1>2, <2>2
<1>4. QED
  BY <1>2, <1>3

\* The packages that a walk may take next, what it goes on with when it takes
\* one, and the number of names it has not taken.
Openings(s) == {id \in s[1] : id[1] \notin NamesOf(s[2])}
Taken(s, id) == <<Pending(Openings(s), s[2], id), s[2] \union {id}>>
Untaken(s) == Cardinality(Names \ NamesOf(s[2]))

\* One step of a walk that goes on with w.
WalkStep(w, s) ==
    IF Openings(s) = {} THEN {s[2]} ELSE UNION {w[Taken(s, id)] : id \in Openings(s)}
WalkOf(w) == [s \in PackageSets \X PackageSets |-> WalkStep(w, s)]

\* A walk goes from packages to packages, and each step takes a name.
LEMMA AskedPackages ==
    ASSUME NEW deps \in Dependencies
    PROVE  Asked(deps) \subseteq Names \X Versions
BY PubAssumption DEF Dependencies, Asked

LEMMA KnownPackages ==
    ASSUME NEW id
    PROVE  Known(id) \in Dependencies /\ Asked(Known(id)) \subseteq Names \X Versions
<1>1. Known(id) \in Dependencies
  BY PubAssumption DEF Known, Readable, Installed, Dependencies, NoDeps
<1> QED BY <1>1, AskedPackages

LEMMA WalkTakesNames ==
    ASSUME NEW s \in PackageSets \X PackageSets, NEW id \in Openings(s)
    PROVE  /\ Taken(s, id) \in PackageSets \X PackageSets
           /\ Untaken(s) \in Nat /\ Untaken(Taken(s, id)) \in Nat
           /\ Untaken(Taken(s, id)) < Untaken(s)
<1>1. s[1] \in PackageSets /\ s[2] \in PackageSets /\ id \in s[1] /\ id \in Names \X Versions
  BY DEF PackageSets, Openings
<1>2. Asked(Known(id)) \subseteq Names \X Versions
  BY KnownPackages
<1>3. Pending(Openings(s), s[2], id) \in PackageSets /\ s[2] \union {id} \in PackageSets
  BY <1>1, <1>2 DEF Pending, Openings, PackageSets
<1>4. Taken(s, id) \in PackageSets \X PackageSets /\ Taken(s, id)[2] = s[2] \union {id}
  BY <1>3 DEF Taken
<1> DEFINE A == Names \ NamesOf(s[2])
           B == Names \ NamesOf(s[2] \union {id})
<1>5. id[1] \in A /\ B = A \ {id[1]}
  BY <1>1 DEF Openings, NamesOf
<1>6. IsFiniteSet(A)
  BY PubAssumption, FS_Subset
<1>7. IsFiniteSet(B) /\ Cardinality(B) = Cardinality(A) - 1 /\ Cardinality(A) \in Nat /\ Cardinality(B) \in Nat
  <2> HIDE DEF A, B
  <2>1. IsFiniteSet(A) /\ id[1] \in A
    BY <1>5, <1>6
  <2>2. IsFiniteSet(A \ {id[1]}) /\ Cardinality(A \ {id[1]}) = Cardinality(A) - 1
    BY <2>1, FS_RemoveElement
  <2> QED BY <1>5, <2>1, <2>2, FS_CardinalityType
<1> QED BY <1>4, <1>7 DEF Untaken

LEMMA WalkStepSame ==
    ASSUME NEW STATE v, NEW STATE w, NEW s, \A id \in Openings(s) : v[Taken(s, id)] = w[Taken(s, id)]
    PROVE  WalkStep(v, s) = WalkStep(w, s)
BY DEF WalkStep

LEMMA WalkEquation == Walk = WalkOf(Walk)
<1> DEFINE S2 == PackageSets \X PackageSets
           Good(w, n) == \A s \in S2 : Untaken(s) < n => w[s] = WalkStep(w, s)
           G == {n \in Nat : \E w : Good(w, n)}
<1>1. 0 \in G
  <2>1. ASSUME NEW s \in S2 PROVE ~(Untaken(s) < 0)
    <3>1. Untaken(s) \in Nat
      <4>1. IsFiniteSet(Names \ NamesOf(s[2]))
        BY PubAssumption, FS_Subset
      <4> QED BY <4>1, FS_CardinalityType DEF Untaken
    <3> QED BY <3>1
  <2>2. Good({}, 0)
    BY <2>1
  <2> QED BY <2>2
<1>2. ASSUME NEW n \in Nat, n \in G PROVE n + 1 \in G
  <2>1. PICK w : Good(w, n)
    BY <1>2
  <2> DEFINE v == WalkOf(w)
  <2>2. ASSUME NEW s \in S2 PROVE v[s] = WalkStep(w, s)
    BY DEF WalkOf
  <2> HIDE DEF v
  <2>3. ASSUME NEW s \in S2, Untaken(s) < n + 1 PROVE v[s] = WalkStep(v, s)
    <3>1. ASSUME NEW id \in Openings(s) PROVE v[Taken(s, id)] = w[Taken(s, id)]
      <4>1. Taken(s, id) \in S2 /\ Untaken(Taken(s, id)) < n
        BY <2>3, WalkTakesNames
      <4> QED BY <2>1, <2>2, <4>1
    <3>2. WalkStep(v, s) = WalkStep(w, s)
      BY <3>1, WalkStepSame
    <3> QED BY <2>2, <3>2
  <2>4. Good(v, n + 1)
    BY <2>3
  <2> QED BY <2>4
<1> HIDE DEF G
<1>3. Nat \subseteq G
  BY <1>1, <1>2, NatSetInduction
<1>4. Cardinality(Names) \in Nat
  BY PubAssumption, FS_CardinalityType
<1>5. ASSUME NEW s \in S2 PROVE Untaken(s) < Cardinality(Names) + 1
  <2>1. Untaken(s) \in Nat /\ Untaken(s) <= Cardinality(Names)
    BY PubAssumption, FS_Subset, FS_CardinalityType DEF Untaken
  <2> QED BY <1>4, <2>1
<1>6. PICK w : \A s \in S2 : w[s] = WalkStep(w, s)
  <2>1. Cardinality(Names) + 1 \in G
    BY <1>3, <1>4
  <2>2. PICK w : Good(w, Cardinality(Names) + 1)
    BY <2>1, Zenon DEF G
  <2> QED BY <1>5, <2>2
<1>7. WalkOf(w) = WalkOf(WalkOf(w))
  <2> DEFINE v == WalkOf(w)
  <2>1. ASSUME NEW s \in S2 PROVE v[s] = w[s]
    BY <1>6 DEF WalkOf
  <2>2. ASSUME NEW s \in S2 PROVE WalkStep(v, s) = WalkStep(w, s)
    <3> HIDE DEF v
    <3>1. \A id \in Openings(s) : v[Taken(s, id)] = w[Taken(s, id)]
      BY <2>1, WalkTakesNames
    <3> QED BY <3>1, WalkStepSame
  <2>3. [s \in S2 |-> WalkStep(v, s)] = [s \in S2 |-> WalkStep(w, s)]
    <3> HIDE DEF v
    <3> QED BY <2>2
  <2> QED BY <2>3, Zenon DEF WalkOf
<1>8. Walk = CHOOSE v : v = WalkOf(v)
  BY Zenon DEF Walk, WalkOf, WalkStep, Openings, Taken
<1> QED BY <1>7, <1>8, Zenon

LEMMA WalkIs ==
    ASSUME NEW s \in PackageSets \X PackageSets
    PROVE  Walk[s] = IF Openings(s) = {} THEN {s[2]} ELSE UNION {Walk[Taken(s, id)] : id \in Openings(s)}
<1>1. WalkOf(Walk)[s] = WalkStep(Walk, s)
  <2> DEFINE w == Walk
  <2> HIDE DEF w
  <2>1. WalkOf(w)[s] = WalkStep(w, s)
    BY DEF WalkOf
  <2> QED BY <2>1 DEF w
<1> QED BY <1>1, WalkEquation, Zenon DEF WalkStep

LEMMA WalkGoesOn ==
    ASSUME NEW s \in PackageSets \X PackageSets, NEW set \in Walk[s], Openings(s) # {}
    PROVE  \E id \in Openings(s) : set \in Walk[Taken(s, id)]
<1>1. Walk[s] = UNION {Walk[Taken(s, id)] : id \in Openings(s)}
  BY WalkIs
<1>2. PICK u \in {Walk[Taken(s, id)] : id \in Openings(s)} : set \in u
  BY <1>1, Zenon
<1> QED BY <1>2, Zenon

\* What a walk from s may end with: it has what was done, a version of every name
\* that was pending, and of every name that what it took needs.
Covers(set, s) ==
    /\ s[2] \subseteq set /\ set \subseteq Names \X Versions
    /\ \A d \in s[1] : d[1] \in NamesOf(set)
    /\ \A id \in set \ s[2] : \A d \in Asked(Known(id)) : d[1] \in NamesOf(set)

LEMMA WalkIsBounded ==
    ASSUME NEW s \in PackageSets \X PackageSets
    PROVE  Untaken(s) \in Nat
<1>1. IsFiniteSet(Names \ NamesOf(s[2]))
  BY PubAssumption, FS_Subset
<1> QED BY <1>1, FS_CardinalityType DEF Untaken

LEMMA WalkCovers ==
    ASSUME NEW s \in PackageSets \X PackageSets, NEW set \in Walk[s]
    PROVE  Covers(set, s)
<1> DEFINE S2 == PackageSets \X PackageSets
           Good(n) == \A t \in S2 : Untaken(t) < n => \A all \in Walk[t] : Covers(all, t)
           G == {n \in Nat : Good(n)}
<1>1. 0 \in G
  <2>1. ASSUME NEW t \in S2 PROVE ~(Untaken(t) < 0)
    BY WalkIsBounded
  <2> QED BY <2>1
<1>2. ASSUME NEW n \in Nat, n \in G PROVE n + 1 \in G
  <2>1. ASSUME NEW t \in S2, Untaken(t) < n + 1, NEW all \in Walk[t] PROVE Covers(all, t)
    <3>1. t[1] \subseteq Names \X Versions /\ t[2] \subseteq Names \X Versions
      BY DEF PackageSets
    <3>2. CASE Openings(t) = {}
      <4>1. Walk[t] = {t[2]}
        BY <3>2, WalkIs
      <4> QED BY <3>1, <3>2, <4>1 DEF Covers, Openings
    <3>3. ASSUME NEW id \in Openings(t), all \in Walk[Taken(t, id)] PROVE Covers(all, t)
      <4>1. Taken(t, id) \in S2 /\ Untaken(Taken(t, id)) < n
        BY <2>1, WalkTakesNames
      <4>2. Covers(all, Taken(t, id))
        BY <1>2, <3>3, <4>1
      <4>3. /\ t[2] \union {id} \subseteq all /\ all \subseteq Names \X Versions
            /\ \A d \in Pending(Openings(t), t[2], id) : d[1] \in NamesOf(all)
            /\ \A i \in all \ (t[2] \union {id}) : \A d \in Asked(Known(i)) : d[1] \in NamesOf(all)
        BY <4>2 DEF Covers, Taken
      <4>4. \A d \in t[2] \union {id} : d[1] \in NamesOf(all)
        BY <4>3 DEF NamesOf
      <4>5. ASSUME NEW d \in t[1] PROVE d[1] \in NamesOf(all)
        BY <4>3, <4>4 DEF Openings, Pending, NamesOf
      <4>6. ASSUME NEW i \in all \ t[2], NEW d \in Asked(Known(i)) PROVE d[1] \in NamesOf(all)
        <5>1. CASE i # id
          BY <4>3, <5>1
        <5>2. CASE i = id
          BY <4>3, <4>4, <5>2 DEF Pending, NamesOf
        <5> QED BY <5>1, <5>2
      <4> QED BY <4>3, <4>5, <4>6 DEF Covers
    <3>4. Openings(t) = {} \/ \E id \in Openings(t) : all \in Walk[Taken(t, id)]
      BY <2>1, WalkGoesOn
    <3> QED BY <3>2, <3>3, <3>4
  <2> QED BY <2>1
<1> HIDE DEF G
<1>3. Nat \subseteq G
  BY <1>1, <1>2, NatSetInduction
<1>4. Untaken(s) + 1 \in Nat /\ Untaken(s) < Untaken(s) + 1
  BY WalkIsBounded
<1> QED BY <1>3, <1>4 DEF G

\* A walk stays in a set that has what its packages need.
LEMMA WalkStays ==
    ASSUME NEW all, \A id \in all : Asked(Known(id)) \subseteq all,
           NEW s \in PackageSets \X PackageSets, s[1] \subseteq all, s[2] \subseteq all,
           NEW set \in Walk[s]
    PROVE  set \subseteq all
<1> DEFINE S2 == PackageSets \X PackageSets
           Within(t) == t[1] \subseteq all /\ t[2] \subseteq all
           Good(n) == \A t \in S2 : Untaken(t) < n /\ Within(t) => \A u \in Walk[t] : u \subseteq all
           G == {n \in Nat : Good(n)}
<1>1. 0 \in G
  <2>1. ASSUME NEW t \in S2 PROVE ~(Untaken(t) < 0)
    BY WalkIsBounded
  <2> QED BY <2>1
<1>2. ASSUME NEW n \in Nat, n \in G PROVE n + 1 \in G
  <2>1. ASSUME NEW t \in S2, Untaken(t) < n + 1, Within(t), NEW u \in Walk[t] PROVE u \subseteq all
    <3>1. CASE Openings(t) = {}
      <4>1. Walk[t] = {t[2]}
        BY <3>1, WalkIs
      <4> QED BY <2>1, <4>1
    <3>2. ASSUME NEW id \in Openings(t), u \in Walk[Taken(t, id)] PROVE u \subseteq all
      <4>1. Taken(t, id) \in S2 /\ Untaken(Taken(t, id)) < n
        BY <2>1, WalkTakesNames
      <4>2. id \in all /\ Asked(Known(id)) \subseteq all
        BY <2>1 DEF Openings
      <4>3. Within(Taken(t, id))
        BY <2>1, <4>2 DEF Taken, Pending, Openings
      <4> QED BY <1>2, <3>2, <4>1, <4>3
    <3>3. Openings(t) = {} \/ \E id \in Openings(t) : u \in Walk[Taken(t, id)]
      BY <2>1, WalkGoesOn
    <3> QED BY <3>1, <3>2, <3>3
  <2> QED BY <2>1
<1> HIDE DEF G
<1>3. Nat \subseteq G
  BY <1>1, <1>2, NatSetInduction
<1>4. Untaken(s) + 1 \in Nat /\ Untaken(s) < Untaken(s) + 1 /\ Within(s)
  BY WalkIsBounded
<1> QED BY <1>3, <1>4 DEF G

--------------------------------------------------------------------------------
(* Packages: what a command that runs alone has read and found.             *)

\* The steps of a download, and those in which its caller waits for it.
Down == Fetching \union Extraction
Below == Down \union {"unlink"}
Fetcher(p) == proc[p].pc \in Down \/ (proc[p].pc = "unlink" /\ proc[p].op # "remove")

\* What a process may be doing for its command, with what it was told and read.
Work(w) ==
    /\ w.deps \in Dependencies /\ w.read.deps \in Dependencies
    /\ w.pc \in {"idle", "manifest"} => w.visited = {}
    /\ w.pc \in {"ask", "github"} => w.op = "add"
    /\ w.pc \in {"edit", "truncate", "write", "reread"} => w.op \in {"add", "remove"}
    /\ w.pc \in Deletion => w.op = "remove"
    /\ w.pc \in {"manifest", "roots", "queue", "needs"} => w.op \in {"install", "offline"}
    /\ w.pc \in Down => w.op = "add" \/ (w.op = "install" /\ w.back \in {"roots", "needs"})
    /\ w.pc = "unlink" => w.op \in {"add", "remove"} \/ (w.op = "install" /\ w.back \in {"roots", "needs"})
    /\ w.op \in {"add", "remove"} => w.id \in Names \X Versions

\* The loop of an install that a process is in, its downloads included.
Loop(w) == IF w.pc \in Below THEN w.back ELSE w.pc
Searches(w) == w.op \in {"install", "offline"} /\ w.pc # "manifest"
\* The package whose manifest is not read yet.
InHand(w) == IF Loop(w) = "needs" THEN {w.id} ELSE {}

\* An install that runs alone has everything that the manifest asks for before
\* it, visited or in its queue, and so for what the visited packages need.
Search(w) ==
    /\ Loop(w) = "roots" => w.visited = {} /\ w.queue = Asked(w.deps)
    /\ Loop(w) # "roots" =>
         /\ InHand(w) \subseteq w.visited /\ w.visited \subseteq Ids
         /\ Asked(w.deps) \subseteq w.visited \union w.queue
         /\ \A v \in w.visited \ InHand(w) :
              Readable(v) /\ Asked(Needs[v]) \subseteq w.visited \union w.queue
    /\ w.pc \in {"hash", "lock"} => w.queue = {}

\* What a process that runs alone has read is what is there.
Sure(w) ==
    /\ w.pc \in {"hash", "lock"} \/ Searches(w) => w.deps = manifest.deps
    /\ w.pc = "lock" => w.hash = manifest
    /\ Searches(w) => Search(w)

LockInv ==
    /\ manifest.deps \in Dependencies
    /\ left \in [commands : Nat, troubles : Nat]
    /\ \A p \in Procs : Work(proc[p])
    /\ \A p \in Procs : proc[p].alone /\ proc[p].pc # "idle" =>
         Sure(proc[p]) /\ \A q \in Procs : q # p => proc[q].pc = "idle"

LockFields == {"pc", "op", "alone", "id", "back", "queue", "visited", "deps", "read", "hash"}
\* The fields that the invariant is about are as they were.
SameState(q) == \A k \in LockFields : proc'[q][k] = proc[q][k]
\* The command of process p is over.
Ended(p) == \A k \in LockFields : proc'[p][k] = Idle[k]

LEMMA IdleFields ==
    /\ Idle.pc = "idle" /\ Idle.op = "none" /\ Idle.visited = {} /\ Idle.queue = {}
    /\ Idle.deps = NoDeps /\ Idle.read = NoFile
BY DEF Idle

LEMMA NoDepsAsked == NoDeps \in Dependencies /\ NoFile.deps = NoDeps /\ Blank.deps = NoDeps /\ \A d : Text(d).deps = d
BY DEF NoDeps, Dependencies, NoFile, Blank, Text

LEMMA SameWorkField ==
    ASSUME NEW v, NEW w, \A k \in LockFields : v[k] = w[k]
    PROVE  /\ Work(w) => Work(v)
           /\ v.pc = w.pc /\ v.alone = w.alone
BY DEF Work, LockFields

LEMMA IdleWork == Work(Idle)
BY IdleFields, NoDepsAsked DEF Work, Below, Down, Fetching, Extraction, Deletion

\* A request that fails or a process that is killed uses up some of a bound.
LEMMA LeftStep ==
    ASSUME left \in [commands : Nat, troubles : Nat], left' = left \/ Trouble
    PROVE  left' \in [commands : Nat, troubles : Nat]
BY DEF Trouble

\* A step of process p that leaves the others to themselves.
LEMMA LockStep ==
    ASSUME LockInv, NEW p \in Procs, proc[p].pc # "idle",
           \A q \in Procs : q # p => SameState(q),
           manifest'.deps \in Dependencies, left' = left \/ Trouble,
           Work(proc'[p]),
           proc'[p].pc # "idle" => proc'[p].alone = proc[p].alone,
           proc[p].alone /\ proc'[p].pc # "idle" => Sure(proc[p])'
    PROVE  LockInv'
<1>1. left' \in [commands : Nat, troubles : Nat]
  BY LeftStep DEF LockInv
<1>2. ASSUME NEW q \in Procs PROVE Work(proc'[q])
  <2>1. CASE q # p
    BY <2>1, SameWorkField DEF LockInv, SameState
  <2> QED BY <2>1
<1>3. ASSUME NEW q \in Procs, proc'[q].alone, proc'[q].pc # "idle"
      PROVE  Sure(proc[q])' /\ \A o \in Procs : o # q => proc'[o].pc = "idle"
  <2>1. CASE q # p
    <3>1. proc[q].alone /\ proc[q].pc # "idle"
      BY <1>3, <2>1 DEF SameState, LockFields
    <3> QED BY <2>1, <3>1 DEF LockInv
  <2>2. CASE q = p
    <3>1. proc[p].alone /\ Sure(proc[p])'
      BY <1>3, <2>2
    <3>2. \A o \in Procs : o # p => proc[o].pc = "idle"
      BY <3>1 DEF LockInv
    <3>3. \A o \in Procs : o # p => proc'[o].pc = "idle"
      BY <3>2 DEF SameState, LockFields
    <3> QED BY <2>2, <3>1, <3>3
  <2> QED BY <2>1, <2>2
<1> QED BY <1>1, <1>2, <1>3 DEF LockInv

LEMMA EndedKeeps ==
    ASSUME LockInv, NEW p \in Procs, proc[p].pc # "idle", Ended(p),
           \A q \in Procs : q # p => SameState(q),
           manifest' = manifest, left' = left \/ Trouble
    PROVE  LockInv'
<1>1. Work(proc'[p]) /\ proc'[p].pc = "idle"
  BY IdleWork, SameWorkField, IdleFields DEF Ended
<1>2. manifest'.deps \in Dependencies
  BY DEF LockInv
<1> QED BY <1>1, <1>2, LockStep

LEMMA EndsState ==
    ASSUME PubTypes, NEW p \in Procs, Ends(p)
    PROVE  Ended(p) /\ \A q \in Procs : q # p => SameState(q)
BY DEF Ends, PubTypes, Ended, SameState

LEMMA EndsKeeps ==
    ASSUME PubTypes, LockInv, NEW p \in Procs, proc[p].pc # "idle", Ends(p),
           manifest' = manifest, left' = left \/ Trouble
    PROVE  LockInv'
BY EndsState, EndedKeeps

LEMMA LockFieldsAre == LockFields \subseteq Fields
BY FieldsOfProcesses DEF LockFields

\* Process p goes on with the fields of r changed.
LEMMA GoesState ==
    ASSUME PubTypes, NEW p \in Procs, NEW r, Goes(p, r), DOMAIN r \subseteq Fields
    PROVE  /\ \A q \in Procs : q # p => SameState(q)
           /\ \A k \in LockFields : proc'[p][k] = FieldAfter(p, r, k)
<1>1. \A q \in Procs : q # p => proc'[q] = proc[q]
  BY Going
<1>2. \A k \in Fields : proc'[p][k] = FieldAfter(p, r, k)
  BY Going DEF FieldAfter
<1> QED BY <1>1, <1>2, LockFieldsAre DEF SameState

\* A step of the edit of the manifest, or of the removal before it.
Editing(w) ==
    \/ w.pc \in {"edit", "truncate", "write", "reread"}
    \/ w.op = "remove" /\ w.pc \in {"delete", "next", "unlink"}

LEMMA EditKeeps ==
    ASSUME LockInv, NEW p \in Procs, Editing(proc[p]),
           \A q \in Procs : q # p => SameState(q),
           \A k \in LockFields \ {"pc", "read", "deps", "id"} : proc'[p][k] = proc[p][k],
           Editing(proc'[p]) \/ proc'[p].pc = "hash", proc'[p].id \in Names \X Versions,
           proc'[p].read.deps \in Dependencies, proc'[p].deps \in Dependencies,
           manifest'.deps \in Dependencies, left' = left \/ Trouble,
           proc'[p].pc = "hash" => proc'[p].deps = manifest'.deps
    PROVE  LockInv'
<1>1. proc'[p].op = proc[p].op /\ proc'[p].alone = proc[p].alone
  BY DEF LockFields
<1>2. Work(proc[p]) /\ proc[p].pc # "idle"
  BY DEF LockInv, Editing
<1>3. proc[p].op \in {"add", "remove"}
  BY <1>2 DEF Work, Editing
<1>4. Work(proc'[p])
  BY <1>1, <1>3 DEF Work, Editing, Down, Fetching, Extraction, Deletion
<1>5. Sure(proc[p])'
  BY <1>1, <1>3 DEF Sure, Searches, Editing
<1> QED BY <1>1, <1>2, <1>4, <1>5, LockStep

\* The removal goes on to another plugin, or to nothing that the invariant is about.
LEMMA EditMoves ==
    ASSUME LockInv, NEW p \in Procs, Editing(proc[p]), Editing(proc'[p]),
           \A q \in Procs : q # p => SameState(q),
           \A k \in LockFields \ {"pc", "id"} : proc'[p][k] = proc[p][k],
           proc'[p].id \in Names \X Versions, manifest' = manifest, left' = left \/ Trouble
    PROVE  LockInv'
<1>1. Work(proc[p]) /\ manifest.deps \in Dependencies
  BY DEF LockInv
<1>2. proc'[p].read = proc[p].read /\ proc'[p].deps = proc[p].deps
  BY DEF LockFields
<1>3. proc'[p].read.deps \in Dependencies /\ proc'[p].deps \in Dependencies
  BY <1>1, <1>2 DEF Work
<1>4. proc'[p].pc # "hash"
  BY DEF Editing
<1> QED BY <1>1, <1>3, <1>4, EditKeeps

LEMMA EditStays ==
    ASSUME LockInv, NEW p \in Procs, proc[p].op = "remove", proc[p].pc \in {"next", "unlink", "delete"},
           \A q \in Procs : q # p => SameState(q),
           \A k \in LockFields \ {"pc"} : proc'[p][k] = proc[p][k],
           proc'[p]["pc"] \in {"next", "unlink", "edit"}, manifest' = manifest, left' = left \/ Trouble
    PROVE  LockInv'
<1>1. Work(proc[p]) /\ proc'[p].op = "remove" /\ proc'[p].id = proc[p].id
  BY DEF LockInv, LockFields
<1>2. Editing(proc[p]) /\ Editing(proc'[p]) /\ proc'[p].id \in Names \X Versions
  BY <1>1 DEF Editing, Work
<1> QED BY <1>2, EditMoves

--------------------------------------------------------------------------------
(* Downloads.                                                              *)

\* A step of a download of p: it ends the command, or goes on, or back to the loop
\* that asked for it; of the plugins it changes only its own.
Fetches(p) ==
    /\ \A q \in Procs : q # p => SameState(q)
    /\ manifest' = manifest
    /\ \A id \in Ids : id # proc[p].id => plugins'[id] = plugins[id]
    /\ \/ Ended(p)
       \/ /\ \A k \in LockFields \ {"pc", "id"} : proc'[p][k] = proc[p][k]
          /\ proc[p].op = "add" =>
               proc'[p].pc \in Below \union {"edit", "github"} /\ proc'[p].id \in Names \X Versions
          /\ proc[p].op # "add" =>
               proc'[p].pc \in Below \union {proc[p].back} /\ proc'[p].id = proc[p].id

LEMMA FetchesKeeps ==
    ASSUME LockInv, NEW p \in Procs, Fetcher(p) \/ proc[p].pc \in {"ask", "github"},
           Fetches(p), left' = left \/ Trouble
    PROVE  LockInv'
<1> DEFINE w == proc[p]
           v == proc'[p]
<1>1. w.pc # "idle"
  BY DEF Fetcher, Below, Down, Fetching, Extraction
<1>2. CASE Ended(p)
  BY <1>1, <1>2, EndedKeeps DEF Fetches
<1>3. CASE ~Ended(p)
  <2>1. /\ v.op = w.op /\ v.back = w.back /\ v.alone = w.alone /\ v.queue = w.queue
        /\ v.visited = w.visited /\ v.deps = w.deps /\ v.read = w.read /\ v.hash = w.hash
    BY <1>3 DEF Fetches, LockFields
  <2>2. manifest' = manifest /\ manifest'.deps \in Dependencies /\ Work(w)
    BY DEF Fetches, LockInv
  <2>3. CASE w.op = "add"
    <3>1. v.pc \in Below \union {"edit", "github"} /\ v.id \in Names \X Versions
      BY <1>3, <2>3 DEF Fetches
    <3>2. Work(v)
      BY <2>1, <2>2, <2>3, <3>1 DEF Work, Below, Down, Fetching, Extraction, Deletion
    <3>3. Sure(proc[p])'
      BY <2>1, <2>3, <3>1 DEF Sure, Searches, Below, Down, Fetching, Extraction
    <3> QED BY <1>1, <2>1, <2>2, <3>2, <3>3, LockStep DEF Fetches
  <2>4. CASE w.op # "add"
    <3>1. w.pc \in Below /\ w.op = "install" /\ w.back \in {"roots", "needs"}
      BY <2>2, <2>4 DEF Work, Fetcher, Below, Down, Fetching, Extraction, Deletion
    <3>2. v.pc \in Below \union {w.back} /\ v.id = w.id
      BY <1>3, <2>4 DEF Fetches
    <3>3. Work(v)
      BY <2>1, <2>2, <2>4, <3>1, <3>2 DEF Work, Below, Down, Fetching, Extraction, Deletion
    <3>4. Loop(w) = w.back /\ Loop(v) = w.back
      BY <2>1, <3>1, <3>2 DEF Loop
    <3>5. ASSUME w.alone PROVE Sure(proc[p])'
      <4>1. Sure(w) /\ Searches(w)
        BY <1>1, <3>1, <3>5 DEF LockInv, Searches, Below, Down, Fetching, Extraction
      <4>2. w.deps = manifest.deps /\ Search(w)
        BY <4>1 DEF Sure
      <4>3. InHand(v) = InHand(w)
        BY <3>2, <3>4 DEF InHand
      <4>4. ASSUME NEW i \in w.visited \ InHand(w), w.back = "needs" PROVE Readable(i)'
        <5>1. Readable(i) /\ i # w.id
          BY <4>2, <4>4, <3>4 DEF Search, InHand
        <5> QED BY <5>1 DEF Readable, Installed, Fetches, Ids
      <4>5. Search(proc[p])'
        BY <2>1, <3>1, <3>2, <3>4, <4>2, <4>3, <4>4 DEF Search, Below, Down, Fetching, Extraction, Ids, Asked
      <4> QED BY <2>1, <2>2, <3>1, <3>2, <4>2, <4>5 DEF Sure, Below, Down, Fetching, Extraction
    <3> QED BY <1>1, <2>1, <2>2, <3>3, <3>5, LockStep DEF Fetches
  <2> QED BY <2>3, <2>4
<1> QED BY <1>2, <1>3

\* What a step of a download does to the plugins and the manifest.
OwnPlugin(p) == manifest' = manifest /\ \A id \in Ids : id # proc[p].id => plugins'[id] = plugins[id]

LEMMA FetchGoes ==
    ASSUME PubTypes, LockInv, NEW p \in Procs, Fetcher(p) \/ proc[p].pc = "ask",
           \A q \in Procs : q # p => SameState(q), OwnPlugin(p), left' = left \/ Trouble,
           \A k \in LockFields \ {"pc"} : proc'[p][k] = proc[p][k], proc'[p].pc \in Below
    PROVE  LockInv'
<1>1. Work(proc[p]) /\ proc'[p].id = proc[p].id
  BY DEF LockInv, LockFields
<1>2. proc[p].op = "add" => proc[p].id \in Names \X Versions
  BY <1>1 DEF Work
<1>3. Fetches(p)
  BY <1>1, <1>2 DEF Fetches, OwnPlugin
<1> QED BY <1>3, FetchesKeeps

LEMMA FetchGoesKeeps ==
    ASSUME PubTypes, LockInv, NEW p \in Procs, Fetcher(p) \/ proc[p].pc = "ask",
           NEW r, Goes(p, r), DOMAIN r \subseteq (Fields \ LockFields) \union {"pc"},
           "pc" \in DOMAIN r, r["pc"] \in Below, OwnPlugin(p), left' = left \/ Trouble
    PROVE  LockInv'
<1>1. /\ \A q \in Procs : q # p => SameState(q)
      /\ \A k \in LockFields : proc'[p][k] = FieldAfter(p, r, k)
  BY GoesState, FieldsOfProcesses
<1>2. /\ \A k \in LockFields \ {"pc"} : proc'[p][k] = proc[p][k]
      /\ proc'[p]["pc"] \in Below
  BY <1>1 DEF FieldAfter, LockFields
<1> QED BY <1>1, <1>2, FetchGoes

\* A download that is over, or given up.
LEMMA ReturnsKeeps ==
    ASSUME LockInv, NEW p \in Procs, Fetcher(p), NEW ok \in BOOLEAN, NEW r, r = Returns(p, ok),
           \A q \in Procs : q # p => SameState(q), OwnPlugin(p), left' = left \/ Trouble,
           \A k \in LockFields : proc'[p][k] = FieldAfter(p, r, k)
    PROVE  LockInv'
<1>1. Work(proc[p])
  BY DEF LockInv
<1>2. proc[p].op = "add" => proc[p].id \in Names \X Versions
  BY <1>1 DEF Work
<1>3. CASE r = Idle
  <2>1. Ended(p)
    BY <1>3, LockFieldsAre DEF Ended, FieldAfter, Fields
  <2> QED BY <2>1, FetchesKeeps DEF Fetcher, Fetches, OwnPlugin
<1>4. ASSUME NEW at, r = [pc |-> at],
             proc[p].op = "add" => at \in {"edit", "github"}, proc[p].op # "add" => at = proc[p].back
      PROVE  LockInv'
  <2>1. DOMAIN r = {"pc"} /\ r["pc"] = at
    BY <1>4
  <2>2. /\ \A k \in LockFields \ {"pc"} : proc'[p][k] = proc[p][k]
        /\ proc'[p]["pc"] = at
    BY <2>1 DEF FieldAfter, LockFields
  <2>3. proc'[p].id = proc[p].id
    BY <2>2 DEF LockFields
  <2>4. \A k \in LockFields \ {"pc", "id"} : proc'[p][k] = proc[p][k]
    BY <2>2
  <2>5. Fetches(p)
    BY <1>2, <1>4, <2>2, <2>3, <2>4 DEF Fetches, OwnPlugin
  <2> QED BY <2>5, FetchesKeeps
<1>5. CASE ok
  <2>1. r = [pc |-> IF proc[p].op = "add" THEN "edit" ELSE proc[p].back]
    BY <1>5 DEF Returns
  <2> QED BY <1>4, <2>1
<1>6. CASE ~ok
  <2>1. r = Idle \/ (r = [pc |-> "github"] /\ proc[p].op = "add")
    BY <1>6 DEF Returns
  <2> QED BY <1>3, <1>4, <2>1
<1> QED BY <1>5, <1>6

LEMMA GoesBack ==
    ASSUME PubTypes, LockInv, NEW p \in Procs, Fetcher(p), NEW ok \in BOOLEAN,
           Goes(p, Returns(p, ok)), OwnPlugin(p), left' = left \/ Trouble
    PROVE  LockInv'
<1>1. PICK r : r = Returns(p, ok)
  OBVIOUS
<1>2. DOMAIN r \subseteq Fields
  BY <1>1, FieldsOfProcesses DEF Returns, Fields
<1>3. /\ \A q \in Procs : q # p => SameState(q)
      /\ \A k \in LockFields : proc'[p][k] = FieldAfter(p, r, k)
  BY <1>1, <1>2, GoesState
<1> QED BY <1>1, <1>3, ReturnsKeeps

LEMMA AskLock ==
    ASSUME PubTypes, LockInv, NEW p \in Procs, Ask(p)
    PROVE  LockInv'
<1>1. proc[p].pc = "ask" /\ OwnPlugin(p) /\ (left' = left \/ Trouble)
  BY DEF Ask, OwnPlugin
<1>2. CASE Goes(p, [pc |-> "lookup", sum |-> proc[p].id \in Sealed])
  <2>1. PICK r : r = [pc |-> "lookup", sum |-> proc[p].id \in Sealed]
    OBVIOUS
  <2>2. DOMAIN r = {"pc", "sum"} /\ r["pc"] = "lookup" /\ Goes(p, r)
    BY <1>2, <2>1
  <2> QED BY <1>1, <2>2, FetchGoesKeeps, FieldsOfProcesses DEF Fetcher, LockFields, Below, Down, Fetching, Extraction
<1>3. CASE Goes(p, [pc |-> "github"])
  <2>1. PICK r : r = [pc |-> "github"]
    OBVIOUS
  <2>2. DOMAIN r = {"pc"} /\ r["pc"] = "github" /\ Goes(p, r)
    BY <1>3, <2>1
  <2>3. /\ \A q \in Procs : q # p => SameState(q)
        /\ \A k \in LockFields : proc'[p][k] = FieldAfter(p, r, k)
    BY <2>2, GoesState, FieldsOfProcesses
  <2>4. /\ \A k \in LockFields \ {"pc"} : proc'[p][k] = proc[p][k]
        /\ proc'[p]["pc"] = "github"
    BY <2>2, <2>3 DEF FieldAfter, LockFields
  <2>5. Work(proc[p]) /\ proc'[p].id = proc[p].id
    BY <2>4 DEF LockInv, LockFields
  <2>6. proc[p].op = "add" /\ proc[p].id \in Names \X Versions
    BY <1>1, <2>5 DEF Work
  <2>7. Fetches(p)
    BY <1>1, <2>3, <2>4, <2>5, <2>6 DEF Fetches, OwnPlugin
  <2> QED BY <1>1, <2>7, FetchesKeeps
<1> QED BY <1>2, <1>3 DEF Ask

LEMMA GitHubLock ==
    ASSUME PubTypes, LockInv, NEW p \in Procs, GitHub(p)
    PROVE  LockInv'
<1>1. proc[p].pc = "github" /\ OwnPlugin(p) /\ left' = left /\ manifest' = manifest
  BY DEF GitHub, OwnPlugin
<1>2. CASE Ends(p)
  BY <1>1, <1>2, EndsKeeps
<1>3. ASSUME NEW id, id = <<proc[p].id[1], Latest>>, Goes(p, [pc |-> "lookup", id |-> id, sum |-> FALSE])
      PROVE  LockInv'
  <2>1. PICK r : r = [pc |-> "lookup", id |-> id, sum |-> FALSE]
    OBVIOUS
  <2>2. DOMAIN r = {"pc", "id", "sum"} /\ r["pc"] = "lookup" /\ r["id"] = id /\ Goes(p, r)
    BY <1>3, <2>1
  <2>3. /\ \A q \in Procs : q # p => SameState(q)
        /\ \A k \in LockFields : proc'[p][k] = FieldAfter(p, r, k)
    BY <2>2, GoesState, FieldsOfProcesses
  <2>4. /\ \A k \in LockFields \ {"pc", "id"} : proc'[p][k] = proc[p][k]
        /\ proc'[p]["pc"] = "lookup" /\ proc'[p]["id"] = id
    BY <2>2, <2>3 DEF FieldAfter, LockFields
  <2>5. Work(proc[p])
    BY DEF LockInv
  <2>6. proc[p].op = "add" /\ proc[p].id \in Names \X Versions
    BY <1>1, <2>5 DEF Work
  <2>7. id \in Names \X Versions
    BY <1>3, <2>6, PubAssumption
  <2>8. Fetches(p)
    BY <1>1, <2>3, <2>4, <2>6, <2>7 DEF Fetches, OwnPlugin, Below, Down, Fetching, Extraction
  <2> QED BY <1>1, <2>8, FetchesKeeps
<1> QED BY <1>2, <1>3 DEF GitHub

LEMMA OtherLockField ==
    ASSUME NEW f, NEW k \in {"fd", "staged"}, NEW v, LockFields \subseteq DOMAIN f
    PROVE  \A i \in LockFields : [f EXCEPT ![k] = v][i] = f[i]
BY DEF LockFields

LEMMA MovedState ==
    ASSUME PubTypes, NEW id, NEW from, NEW to, NEW q \in Procs, NEW k \in LockFields
    PROVE  Moved(id, from, to)[q][k] = proc[q][k]
<1>1. Moved(id, from, to)[q] = proc[q] \/ Moved(id, from, to)[q] = [proc[q] EXCEPT !.fd = to]
  BY DEF Moved
<1>2. LockFields \subseteq DOMAIN proc[q]
  BY LockFieldsAre DEF PubTypes
<1> QED BY <1>1, <1>2, OtherLockField

LEMMA DropsLock ==
    ASSUME PubTypes, LockInv, NEW p \in Procs, Fetcher(p), Drops(p),
           OwnPlugin(p), left' = left \/ Trouble
    PROVE  LockInv'
<1>1. PICK r : r = Returns(p, FALSE)
  OBVIOUS
<1>2. PICK moved : moved = Moved(proc[p].id, "tmp", "gone")
  OBVIOUS
<1>3. PICK closed : closed = [proc[p] EXCEPT !.fd = "closed"]
  OBVIOUS
<1>4. DOMAIN moved = Procs /\ \A q \in Procs : \A k \in LockFields : moved[q][k] = proc[q][k]
  BY <1>2, MovedState, MovedKeeps
<1>5. LockFields \subseteq DOMAIN proc[p] /\ DOMAIN closed = DOMAIN proc[p]
  BY <1>3, LockFieldsAre DEF PubTypes
<1>6. \A k \in LockFields : closed[k] = proc[p][k]
  BY <1>3, <1>5, OtherLockField
<1>7. proc' = [moved EXCEPT ![p] = Merged(r, closed)]
  BY <1>1, <1>2, <1>3 DEF Drops
<1>8. proc'[p] = Merged(r, closed) /\ \A q \in Procs : q # p => proc'[q] = moved[q]
  BY <1>4, <1>7
<1>9. \A k \in LockFields : Merged(r, closed)[k] = FieldAfter(p, r, k)
  BY <1>5, <1>6 DEF Merged, FieldAfter
<1>10. \A q \in Procs : q # p => SameState(q)
  BY <1>4, <1>8 DEF SameState
<1> QED BY <1>1, <1>8, <1>9, <1>10, ReturnsKeeps

LEMMA BrokenLock ==
    ASSUME PubTypes, LockInv, NEW p \in Procs, Broken(p)
    PROVE  LockInv'
BY DropsLock DEF Fetcher, Broken, Below, Down, Fetching, Extraction, OwnPlugin

LEMMA GetLock ==
    ASSUME PubTypes, LockInv, NEW p \in Procs, Get(p)
    PROVE  LockInv'
<1>1. proc[p].pc = "get" /\ OwnPlugin(p) /\ (left' = left \/ Trouble)
  BY DEF Get, OwnPlugin
<1>2. CASE Goes(p, [pc |-> "copy", got |-> 0, fd |-> "tmp"])
  <2>1. PICK r : r = [pc |-> "copy", got |-> 0, fd |-> "tmp"]
    OBVIOUS
  <2>2. DOMAIN r = {"pc", "got", "fd"} /\ r["pc"] = "copy" /\ Goes(p, r)
    BY <1>2, <2>1
  <2> QED BY <1>1, <2>2, FetchGoesKeeps, FieldsOfProcesses DEF Fetcher, LockFields, Below, Down, Fetching, Extraction
<1>3. CASE Goes(p, Returns(p, FALSE))
  BY <1>1, <1>3, GoesBack DEF Fetcher, Below, Down, Fetching, Extraction
<1> QED BY <1>2, <1>3 DEF Get

LEMMA CopyLock ==
    ASSUME PubTypes, LockInv, NEW p \in Procs, Copy(p)
    PROVE  LockInv'
<1>1. proc[p].pc = "copy" /\ OwnPlugin(p) /\ left' = left
  BY DEF Copy, OwnPlugin
<1>2. PICK r : r = [got |-> proc[p].got + 1, pc |-> IF proc[p].got + 1 + 1 \in Blocks THEN "copy" ELSE "verify"]
  OBVIOUS
<1>3. DOMAIN r = {"got", "pc"} /\ r["pc"] \in {"copy", "verify"} /\ Goes(p, r)
  BY <1>2 DEF Copy
<1> QED BY <1>1, <1>3, FetchGoesKeeps, FieldsOfProcesses DEF Fetcher, LockFields, Below, Down, Fetching, Extraction

LEMMA VerifyLock ==
    ASSUME PubTypes, LockInv, NEW p \in Procs, Verify(p)
    PROVE  LockInv'
<1>1. proc[p].pc = "verify" /\ OwnPlugin(p) /\ left' = left
  BY DEF Verify, OwnPlugin
<1>2. CASE Drops(p)
  BY <1>1, <1>2, DropsLock DEF Fetcher, Below, Down, Fetching, Extraction
<1>3. CASE Goes(p, [pc |-> "rename", fd |-> "closed"])
  <2>1. PICK r : r = [pc |-> "rename", fd |-> "closed"]
    OBVIOUS
  <2>2. DOMAIN r = {"pc", "fd"} /\ r["pc"] = "rename" /\ Goes(p, r)
    BY <1>3, <2>1
  <2> QED BY <1>1, <2>2, FetchGoesKeeps, FieldsOfProcesses DEF Fetcher, LockFields, Below, Down, Fetching, Extraction
<1> QED BY <1>2, <1>3 DEF Verify

\* Process p goes on to another step of its download, and nothing else.
LEMMA NextOfFetch ==
    ASSUME PubTypes, LockInv, NEW p \in Procs, Fetcher(p), NEW at \in Below, Goes(p, [pc |-> at]),
           OwnPlugin(p), left' = left
    PROVE  LockInv'
<1>1. PICK r : r = [pc |-> at]
  OBVIOUS
<1>2. DOMAIN r = {"pc"} /\ r["pc"] = at /\ Goes(p, r)
  BY <1>1
<1> QED BY <1>2, FetchGoesKeeps, FieldsOfProcesses DEF Fetcher, LockFields

\* The open files of the others move, and p goes on with its download.
LEMMA MovesKeep ==
    ASSUME PubTypes, LockInv, NEW p \in Procs, Fetcher(p), NEW at \in Below,
           NEW moved, DOMAIN moved = Procs, \A q \in Procs : LockFields \subseteq DOMAIN moved[q],
           \A q \in Procs : \A k \in LockFields : moved[q][k] = proc[q][k],
           proc'[p] = [moved[p] EXCEPT !.pc = at], \A q \in Procs : q # p => proc'[q] = moved[q],
           OwnPlugin(p), left' = left
    PROVE  LockInv'
<1>1. proc'[p] = [moved[p] EXCEPT !.pc = at] /\ \A q \in Procs : q # p => proc'[q] = moved[q]
  OBVIOUS
<1>2. \A q \in Procs : q # p => SameState(q)
  BY <1>1 DEF SameState
<1>3. LockFields \subseteq DOMAIN moved[p] /\ "pc" \in LockFields
  BY DEF LockFields
<1>4. proc'[p]["pc"] = at /\ \A k \in LockFields \ {"pc"} : proc'[p][k] = proc[p][k]
  BY <1>1, <1>3
<1> QED BY <1>2, <1>4, FetchGoes

LEMMA LookupLock ==
    ASSUME PubTypes, LockInv, NEW p \in Procs, Lookup(p)
    PROVE  LockInv'
<1>1. proc[p].pc = "lookup" /\ OwnPlugin(p) /\ left' = left
  BY DEF Lookup, OwnPlugin
<1>2. ASSUME NEW at \in {"get", "unpack"}, Goes(p, [pc |-> at]) PROVE LockInv'
  BY <1>1, <1>2, NextOfFetch DEF Fetcher, Below, Down, Fetching, Extraction
<1>3. CASE proc' = [Moved(proc[p].id, "cache", "gone") EXCEPT ![p].pc = "get"]
  <2>1. PICK moved : moved = Moved(proc[p].id, "cache", "gone")
    OBVIOUS
  <2>2. DOMAIN moved = Procs /\ (\A q \in Procs : DOMAIN moved[q] = Fields)
        /\ \A q \in Procs : \A k \in LockFields : moved[q][k] = proc[q][k]
    BY <2>1, MovedKeeps, MovedState
  <2>3. proc'[p] = [moved[p] EXCEPT !.pc = "get"] /\ \A q \in Procs : q # p => proc'[q] = moved[q]
    BY <1>3, <2>1, <2>2
  <2>4. Fetcher(p) /\ "get" \in Below
    BY <1>1 DEF Fetcher, Below, Down, Fetching, Extraction
  <2>5. \A q \in Procs : LockFields \subseteq DOMAIN moved[q]
    BY <2>2, LockFieldsAre
  <2> QED BY <1>1, <2>2, <2>3, <2>4, <2>5, MovesKeep
<1> QED BY <1>2, <1>3 DEF Lookup

LEMMA RenameLock ==
    ASSUME PubTypes, LockInv, NEW p \in Procs, Rename(p)
    PROVE  LockInv'
<1> DEFINE id    == proc[p].id
           away  == Moved(id, "cache", "gone")
           there == [q \in Procs |-> IF proc[q].id = id /\ proc[q].fd = "tmp"
                                     THEN [proc[q] EXCEPT !.fd = "cache"] ELSE away[q]]
<1>1. proc[p].pc = "rename" /\ OwnPlugin(p) /\ left' = left
  BY DEF Rename, OwnPlugin
<1>2. CASE Goes(p, [pc |-> "unpack"])
  BY <1>1, <1>2, NextOfFetch DEF Fetcher, Below, Down, Fetching, Extraction
<1>3. CASE proc' = [there EXCEPT ![p].pc = "unpack"]
  <2>1. /\ \A q \in Procs : DOMAIN away[q] = Fields
        /\ \A q \in Procs : \A k \in LockFields : away[q][k] = proc[q][k]
    BY MovedKeeps, MovedState
  <2>2. \A q \in Procs : there[q] = away[q] \/ there[q] = [proc[q] EXCEPT !.fd = "cache"]
    OBVIOUS
  <2>3. \A q \in Procs : DOMAIN proc[q] = Fields
    BY DEF PubTypes
  <2>4. DOMAIN there = Procs
    OBVIOUS
  <2> HIDE DEF away, there
  <2>5. \A q \in Procs : LockFields \subseteq DOMAIN there[q]
    BY <2>1, <2>2, <2>3, LockFieldsAre
  <2>6. ASSUME NEW q \in Procs, NEW k \in LockFields PROVE there[q][k] = proc[q][k]
    <3>1. CASE there[q] = away[q]
      BY <2>1, <3>1
    <3>2. CASE there[q] = [proc[q] EXCEPT !.fd = "cache"]
      BY <2>3, <3>2, OtherLockField, LockFieldsAre
    <3> QED BY <2>2, <3>1, <3>2
  <2>7. proc'[p] = [there[p] EXCEPT !.pc = "unpack"] /\ \A q \in Procs : q # p => proc'[q] = there[q]
    BY <1>3, <2>4
  <2>8. Fetcher(p) /\ "unpack" \in Below
    BY <1>1 DEF Fetcher, Below, Down, Fetching, Extraction
  <2> QED BY <1>1, <2>4, <2>5, <2>6, <2>7, <2>8, MovesKeep
<1> QED BY <1>2, <1>3 DEF Rename

LEMMA UnpackLock ==
    ASSUME PubTypes, LockInv, NEW p \in Procs, Unpack(p)
    PROVE  LockInv'
<1>1. proc[p].pc = "unpack" /\ OwnPlugin(p) /\ (left' = left \/ Trouble)
  BY DEF Unpack, OwnPlugin, PubTypes
<1>2. CASE Goes(p, Returns(p, FALSE))
  BY <1>1, <1>2, GoesBack DEF Fetcher, Below, Down, Fetching
<1>3. ASSUME NEW staged, Goes(p, [pc |-> "replace", staged |-> staged]) PROVE LockInv'
  <2>1. PICK r : r = [pc |-> "replace", staged |-> staged]
    OBVIOUS
  <2>2. DOMAIN r = {"pc", "staged"} /\ r["pc"] = "replace" /\ Goes(p, r)
    BY <1>3, <2>1
  <2> QED BY <1>1, <2>2, FetchGoesKeeps, FieldsOfProcesses DEF Fetcher, LockFields, Below, Down, Fetching
<1>4. ASSUME NEW damaged, Goes(p, [pc |-> "open", todo |-> Parts, damaged |-> damaged]) PROVE LockInv'
  <2>1. PICK r : r = [pc |-> "open", todo |-> Parts, damaged |-> damaged]
    OBVIOUS
  <2>2. DOMAIN r = {"pc", "todo", "damaged"} /\ r["pc"] = "open" /\ Goes(p, r)
    BY <1>4, <2>1
  <2> QED BY <1>1, <2>2, FetchGoesKeeps, FieldsOfProcesses
          DEF Fetcher, LockFields, Below, Down, Fetching, Extraction
<1> QED BY <1>2, <1>3, <1>4, Zenon DEF Unpack

LEMMA ReplaceLock ==
    ASSUME PubTypes, LockInv, NEW p \in Procs, Replace(p)
    PROVE  LockInv'
<1>1. proc[p].pc = "replace" /\ OwnPlugin(p) /\ left' = left
  BY DEF Replace, OwnPlugin
<1>2. PICK r : r = [pc |-> "unlink", todo |-> Entries(proc[p].id)]
  OBVIOUS
<1>3. DOMAIN r = {"pc", "todo"} /\ r["pc"] = "unlink" /\ Goes(p, r)
  BY <1>2 DEF Replace
<1> QED BY <1>1, <1>3, FetchGoesKeeps, FieldsOfProcesses DEF Fetcher, LockFields, Below, Down, Fetching

\* A download is over, and so is what it had prepared.
LEMMA UnstagedBack ==
    ASSUME PubTypes, LockInv, NEW p \in Procs, Fetcher(p), NEW ok \in BOOLEAN,
           Goes(p, Merged([staged |-> "no"], Returns(p, ok))), OwnPlugin(p), left' = left \/ Trouble
    PROVE  LockInv'
<1>1. PICK r : r = Returns(p, ok)
  OBVIOUS
<1>2. PICK s : s = [staged |-> "no"]
  OBVIOUS
<1>3. PICK t : t = Merged(s, r)
  OBVIOUS
<1>4. DOMAIN r \subseteq Fields /\ DOMAIN s = {"staged"}
  BY <1>1, <1>2, FieldsOfProcesses DEF Returns, Fields
<1>5. DOMAIN t = DOMAIN r \union {"staged"} /\ \A k \in LockFields : FieldAfter(p, t, k) = FieldAfter(p, r, k)
  BY <1>3, <1>4 DEF Merged, FieldAfter, LockFields
<1>6. Goes(p, t) /\ DOMAIN t \subseteq Fields
  BY <1>1, <1>2, <1>3, <1>4, <1>5, FieldsOfProcesses
<1>7. /\ \A q \in Procs : q # p => SameState(q)
      /\ \A k \in LockFields : proc'[p][k] = FieldAfter(p, r, k)
  BY <1>5, <1>6, GoesState
<1> QED BY <1>1, <1>7, ReturnsKeeps

LEMMA PlaceLock ==
    ASSUME PubTypes, LockInv, NEW p \in Procs, Place(p)
    PROVE  LockInv'
<1>1. proc[p].pc = "place" /\ OwnPlugin(p) /\ (left' = left \/ Trouble)
  BY DEF Place, OwnPlugin, PubTypes
<1>2. \E ok \in BOOLEAN : Goes(p, Merged([staged |-> "no"], Returns(p, ok)))
  BY DEF Place
<1> QED BY <1>1, <1>2, UnstagedBack DEF Fetcher, Down, Fetching

\* An entry of a plugin is removed, for a download or for the command itself.
LEMMA UnlinkEntryLock ==
    ASSUME PubTypes, LockInv, NEW p \in Procs, NEW unlinked, UnlinkEntry(p, unlinked)
    PROVE  LockInv'
<1>1. proc[p].pc = "unlink" /\ OwnPlugin(p) /\ (left' = left \/ Trouble) /\ manifest' = manifest
  BY DEF UnlinkEntry, OwnPlugin, PubTypes
<1>2. PICK r : r = [todo |-> proc[p].todo \ EntryOf(proc[p].id, unlinked)]
  OBVIOUS
<1>3. DOMAIN r = {"todo"} /\ Goes(p, r)
  BY <1>2 DEF UnlinkEntry
<1>4. /\ \A q \in Procs : q # p => SameState(q)
      /\ \A k \in LockFields : proc'[p][k] = proc[p][k]
  BY <1>3, GoesState, FieldsOfProcesses DEF FieldAfter, LockFields
<1>5. CASE proc[p].op # "remove"
  <2>1. proc'[p]["pc"] = "unlink"
    BY <1>1, <1>4 DEF LockFields
  <2> QED BY <1>1, <1>4, <1>5, <2>1, FetchGoes DEF Fetcher, Below
<1>6. CASE proc[p].op = "remove"
  <2>1. proc'[p]["pc"] = "unlink"
    BY <1>1, <1>4 DEF LockFields
  <2>2. \A k \in LockFields \ {"pc"} : proc'[p][k] = proc[p][k]
    BY <1>4
  <2> QED BY <1>1, <1>4, <1>6, <2>1, <2>2, EditStays
<1> QED BY <1>5, <1>6

LEMMA RemoveDirLock ==
    ASSUME PubTypes, LockInv, NEW p \in Procs, RemoveDir(p)
    PROVE  LockInv'
<1>1. proc[p].pc = "unlink" /\ OwnPlugin(p) /\ (left' = left \/ Trouble) /\ manifest' = manifest
  BY DEF RemoveDir, OwnPlugin, PubTypes
<1>2. PICK ok \in BOOLEAN : Goes(p, AfterRemoval(p, ok))
  BY DEF RemoveDir
<1>3. CASE proc[p].op # "remove" /\ ok
  <2>1. Goes(p, [pc |-> "place"])
    BY <1>2, <1>3 DEF AfterRemoval
  <2>2. PICK r : r = [pc |-> "place"]
    OBVIOUS
  <2>3. DOMAIN r = {"pc"} /\ r["pc"] = "place" /\ Goes(p, r)
    BY <2>1, <2>2
  <2> QED BY <1>1, <1>3, <2>3, FetchGoesKeeps, FieldsOfProcesses DEF Fetcher, LockFields, Below, Down, Fetching
<1>4. CASE proc[p].op # "remove" /\ ~ok
  BY <1>1, <1>2, <1>4, UnstagedBack DEF Fetcher, AfterRemoval
<1>5. CASE proc[p].op = "remove"
  <2>1. PICK r : r = [pc |-> "next"]
    OBVIOUS
  <2>2. DOMAIN r = {"pc"} /\ r["pc"] = "next" /\ Goes(p, r)
    BY <1>2, <1>5, <2>1 DEF AfterRemoval
  <2>3. /\ \A q \in Procs : q # p => SameState(q)
        /\ \A k \in LockFields : proc'[p][k] = FieldAfter(p, r, k)
    BY <2>2, GoesState, FieldsOfProcesses
  <2>4. proc'[p]["pc"] = "next" /\ \A k \in LockFields \ {"pc"} : proc'[p][k] = proc[p][k]
    BY <2>2, <2>3 DEF FieldAfter, LockFields
  <2> QED BY <1>1, <1>5, <2>3, <2>4, EditStays
<1> QED BY <1>3, <1>4, <1>5

LEMMA OpenLock ==
    ASSUME PubTypes, LockInv, NEW p \in Procs, NEW opened, Open(p, opened)
    PROVE  LockInv'
<1>1. proc[p].pc = "open" /\ OwnPlugin(p) /\ left' = left
  BY DEF Open, OwnPlugin, PubTypes
<1>2. PICK r : r = [pc |-> "fill", todo |-> proc[p].todo \ {opened}, part |-> opened]
  OBVIOUS
<1>3. DOMAIN r = {"pc", "todo", "part"} /\ r["pc"] = "fill" /\ Goes(p, r)
  BY <1>2 DEF Open
<1> QED BY <1>1, <1>3, FetchGoesKeeps, FieldsOfProcesses DEF Fetcher, LockFields, Below, Down, Fetching, Extraction

LEMMA FillLock ==
    ASSUME PubTypes, LockInv, NEW p \in Procs, Fill(p)
    PROVE  LockInv'
<1>1. proc[p].pc = "fill" /\ left' = left /\ manifest' = manifest
  BY DEF Fill
<1>2. OwnPlugin(p)
  <2>1. \/ plugins' = [plugins EXCEPT ![proc[p].id] =
                         IF @ = None THEN None ELSE @ \union {proc[p].part}]
        \/ plugins' = plugins
    BY DEF Fill
  <2> QED BY <1>1, <2>1 DEF OwnPlugin, PubTypes
<1>3. CASE Goes(p, Returns(p, TRUE))
  BY <1>1, <1>2, <1>3, GoesBack DEF Fetcher, Down, Extraction
<1>4. CASE Goes(p, [pc |-> "open"])
  BY <1>1, <1>2, <1>4, NextOfFetch DEF Fetcher, Below, Down, Extraction
<1> QED BY <1>3, <1>4 DEF Fill

LEMMA ExtractionFailsLock ==
    ASSUME PubTypes, LockInv, NEW p \in Procs, ExtractionFails(p)
    PROVE  LockInv'
<1>1. Fetcher(p) /\ OwnPlugin(p) /\ (left' = left \/ Trouble) /\ Goes(p, Returns(p, FALSE))
  BY DEF ExtractionFails, Extracting, OwnPlugin, Fetcher, Down, Extraction
<1> QED BY <1>1, GoesBack

--------------------------------------------------------------------------------
(* The loops of an install.                                                *)

\* What the steps that are no download leave to the process that takes them.
LEMMA GoesKeeps ==
    ASSUME PubTypes, LockInv, NEW p \in Procs, proc[p].pc # "idle",
           NEW r, Goes(p, r), DOMAIN r \subseteq Fields, "alone" \notin DOMAIN r,
           manifest'.deps \in Dependencies, left' = left \/ Trouble,
           Work(proc'[p]), proc[p].alone => Sure(proc[p])'
    PROVE  LockInv'
<1>1. /\ \A q \in Procs : q # p => SameState(q)
      /\ \A k \in LockFields : proc'[p][k] = FieldAfter(p, r, k)
  BY GoesState
<1>2. proc'[p].alone = proc[p].alone
  BY <1>1 DEF FieldAfter, LockFields
<1> QED BY <1>1, <1>2, LockStep

\* The fields of process p after Goes(p, r).
LEMMA AfterGoing ==
    ASSUME PubTypes, NEW p \in Procs, NEW r, Goes(p, r), DOMAIN r \subseteq Fields, NEW k \in LockFields
    PROVE  proc'[p][k] = IF k \in DOMAIN r THEN r[k] ELSE proc[p][k]
BY GoesState DEF FieldAfter

\* An install that is alone, in one of its loops.
LEMMA SearchingAlone ==
    ASSUME LockInv, NEW p \in Procs, proc[p].pc \in {"roots", "queue", "needs"}
    PROVE  /\ Work(proc[p]) /\ proc[p].op \in {"install", "offline"} /\ proc[p].deps \in Dependencies
           /\ proc[p].read.deps \in Dependencies /\ manifest.deps \in Dependencies
           /\ Loop(proc[p]) = proc[p].pc
           /\ proc[p].alone => proc[p].deps = manifest.deps /\ Search(proc[p])
<1>1. Work(proc[p]) /\ manifest.deps \in Dependencies
  BY DEF LockInv
<1>2. Loop(proc[p]) = proc[p].pc
  BY DEF Loop, Below, Down, Fetching, Extraction
<1>3. proc[p].alone => Sure(proc[p])
  BY DEF LockInv
<1> QED BY <1>1, <1>2, <1>3 DEF Work, Sure, Searches

LEMMA ReadManifestLock ==
    ASSUME PubTypes, LockInv, NEW p \in Procs, ReadManifest(p)
    PROVE  LockInv'
<1>1. proc[p].pc = "manifest" /\ manifest' = manifest /\ left' = left /\ manifest.deps \in Dependencies
  BY DEF ReadManifest, LockInv
<1>2. CASE Ends(p)
  BY <1>1, <1>2, EndsKeeps
<1>3. CASE Goes(p, [pc |-> "roots", deps |-> manifest.deps,
                    roots |-> Asked(manifest.deps), queue |-> Asked(manifest.deps)])
  <2>1. PICK r : r = [pc |-> "roots", deps |-> manifest.deps,
                      roots |-> Asked(manifest.deps), queue |-> Asked(manifest.deps)]
    OBVIOUS
  <2>2. /\ DOMAIN r = {"pc", "deps", "roots", "queue"} /\ r["pc"] = "roots"
        /\ r["deps"] = manifest.deps /\ r["queue"] = Asked(manifest.deps) /\ Goes(p, r)
    BY <1>3, <2>1
  <2>3. \A k \in LockFields : proc'[p][k] = IF k \in DOMAIN r THEN r[k] ELSE proc[p][k]
    BY <2>2, AfterGoing, FieldsOfProcesses
  <2>4. /\ proc'[p].pc = "roots" /\ proc'[p].deps = manifest.deps /\ proc'[p].queue = Asked(manifest.deps)
        /\ proc'[p].op = proc[p].op /\ proc'[p].id = proc[p].id /\ proc'[p].visited = proc[p].visited
        /\ proc'[p].read = proc[p].read
    BY <2>2, <2>3 DEF LockFields
  <2>5. Work(proc[p])
    BY DEF LockInv
  <2>6. proc[p].visited = {} /\ proc[p].op \in {"install", "offline"} /\ proc[p].read.deps \in Dependencies
    BY <1>1, <2>5 DEF Work
  <2>7. Work(proc'[p])
    BY <1>1, <2>4, <2>6 DEF Work, Below, Down, Fetching, Extraction, Deletion
  <2>8. Loop(proc'[p]) = "roots"
    BY <2>4 DEF Loop, Below, Down, Fetching, Extraction
  <2>9. Search(proc[p])'
    BY <2>4, <2>6, <2>8 DEF Search, Asked
  <2>10. Sure(proc[p])'
    BY <1>1, <2>4, <2>9 DEF Sure
  <2> QED BY <1>1, <2>2, <2>7, <2>10, GoesKeeps, FieldsOfProcesses
<1> QED BY <1>2, <1>3 DEF ReadManifest

LEMMA RootsDoneLock ==
    ASSUME PubTypes, LockInv, NEW p \in Procs, RootsDone(p)
    PROVE  LockInv'
<1>1. proc[p].pc = "roots" /\ manifest' = manifest /\ left' = left
  BY DEF RootsDone
<1>2. PICK r : r = [pc |-> "queue"]
  OBVIOUS
<1>3. DOMAIN r = {"pc"} /\ r["pc"] = "queue" /\ Goes(p, r)
  BY <1>2 DEF RootsDone
<1>4. \A k \in LockFields : proc'[p][k] = IF k \in DOMAIN r THEN r[k] ELSE proc[p][k]
  BY <1>3, AfterGoing, FieldsOfProcesses
<1>5. /\ proc'[p].pc = "queue" /\ proc'[p].deps = proc[p].deps /\ proc'[p].queue = proc[p].queue
      /\ proc'[p].op = proc[p].op /\ proc'[p].id = proc[p].id /\ proc'[p].visited = proc[p].visited
      /\ proc'[p].read = proc[p].read
  BY <1>3, <1>4 DEF LockFields
<1>6. /\ proc[p].op \in {"install", "offline"} /\ proc[p].deps \in Dependencies
      /\ proc[p].read.deps \in Dependencies /\ manifest.deps \in Dependencies /\ Loop(proc[p]) = "roots"
      /\ proc[p].alone => proc[p].deps = manifest.deps /\ Search(proc[p])
  BY <1>1, SearchingAlone
<1>7. Work(proc'[p])
  BY <1>5, <1>6 DEF Work, Below, Down, Fetching, Extraction, Deletion
<1>8. Loop(proc'[p]) = "queue"
  BY <1>5 DEF Loop, Below, Down, Fetching, Extraction
<1>9. ASSUME proc[p].alone PROVE Sure(proc[p])'
  <2>1. proc'[p].visited = {} /\ proc'[p].queue = Asked(proc'[p].deps)
    BY <1>5, <1>6, <1>9 DEF Search
  <2>2. Search(proc[p])'
    BY <1>5, <1>8, <2>1 DEF Search, InHand
  <2> QED BY <1>1, <1>5, <1>6, <1>9, <2>2 DEF Sure
<1> QED BY <1>1, <1>3, <1>6, <1>7, <1>9, GoesKeeps, FieldsOfProcesses

\* A loop of an install goes on with the fields of r, which it takes from its own,
\* and asks for package id.
LEMMA ResolveLock ==
    ASSUME PubTypes, LockInv, NEW p \in Procs, proc[p].pc \in {"roots", "queue"}, NEW id, NEW r,
           DOMAIN r \subseteq {"roots", "queue", "visited"},
           NEW back, back = (IF proc[p].pc = "roots" THEN "roots" ELSE "needs"), Resolve(p, id, back, r),
           proc[p].pc = "roots" => DOMAIN r = {"roots"},
           proc[p].pc = "queue" =>
              /\ DOMAIN r = {"queue", "visited"} /\ id \in proc[p].queue
              /\ r["queue"] = proc[p].queue \ {id} /\ r["visited"] = proc[p].visited \union {id},
           manifest' = manifest, plugins' = plugins
    PROVE  LockInv'
<1>1. left' = left \/ Trouble
  BY DEF Resolve
<1>2. CASE Ends(p)
  BY <1>1, <1>2, EndsKeeps
<1>3. CASE /\ proc[p].op = "install" /\ id \in Ids
           /\ Goes(p, Merged(r, [pc |-> "lookup", id |-> id, sum |-> id \in Sealed, back |-> back]))
  <2>1. PICK s : s = [pc |-> "lookup", id |-> id, sum |-> id \in Sealed, back |-> back]
    OBVIOUS
  <2>2. DOMAIN s = {"pc", "id", "sum", "back"} /\ s["pc"] = "lookup" /\ s["id"] = id /\ s["back"] = back
    BY <2>1
  <2>3. PICK t : t = Merged(r, s)
    OBVIOUS
  <2>4. DOMAIN t = DOMAIN r \union DOMAIN s /\ \A k \in DOMAIN t : t[k] = IF k \in DOMAIN r THEN r[k] ELSE s[k]
    BY <2>3 DEF Merged
  <2>5. Goes(p, t) /\ DOMAIN t \subseteq Fields /\ "alone" \notin DOMAIN t
    BY <1>3, <2>1, <2>2, <2>3, <2>4, FieldsOfProcesses
  <2>6. \A k \in LockFields : proc'[p][k] = IF k \in DOMAIN t THEN t[k] ELSE proc[p][k]
    BY <2>5, AfterGoing
  <2>7. /\ proc'[p].pc = "lookup" /\ proc'[p].id = id /\ proc'[p].back = back
        /\ proc'[p].op = proc[p].op /\ proc'[p].deps = proc[p].deps /\ proc'[p].read = proc[p].read
        /\ proc[p].pc = "roots" => proc'[p].queue = proc[p].queue /\ proc'[p].visited = proc[p].visited
        /\ proc[p].pc = "queue" => /\ proc'[p].queue = proc[p].queue \ {id}
                                   /\ proc'[p].visited = proc[p].visited \union {id}
    BY <2>2, <2>4, <2>6 DEF LockFields
  <2>8. /\ proc[p].deps \in Dependencies /\ proc[p].read.deps \in Dependencies
        /\ manifest.deps \in Dependencies /\ Loop(proc[p]) = proc[p].pc
        /\ proc[p].alone => proc[p].deps = manifest.deps /\ Search(proc[p])
    BY SearchingAlone
  <2>9. Work(proc'[p])
    BY <1>3, <2>7, <2>8 DEF Work, Below, Down, Fetching, Extraction, Deletion
  <2>10. Loop(proc'[p]) = back
    BY <2>7 DEF Loop, Below, Down, Fetching, Extraction
  <2>11. ASSUME proc[p].alone PROVE Search(proc[p])'
    <3>1. CASE proc[p].pc = "roots"
      BY <2>7, <2>8, <2>10, <2>11, <3>1 DEF Search
    <3>2. CASE proc[p].pc = "queue"
      <4>1. InHand(proc[p]) = {} /\ InHand(proc'[p]) = {id}
        BY <2>7, <2>8, <2>10, <3>2 DEF InHand
      <4>2. /\ proc[p].visited \subseteq Ids /\ Asked(proc[p].deps) \subseteq proc[p].visited \union proc[p].queue
            /\ \A v \in proc[p].visited :
                 Readable(v) /\ Asked(Needs[v]) \subseteq proc[p].visited \union proc[p].queue
        BY <2>8, <2>11, <3>2, <4>1 DEF Search
      <4>3. \A v \in proc'[p].visited \ {id} :
                 Readable(v)' /\ Asked(Needs[v]) \subseteq proc'[p].visited \union proc'[p].queue
        BY <2>7, <3>2, <4>2 DEF Readable, Installed, Ids
      <4>4. Asked(proc'[p].deps) \subseteq proc'[p].visited \union proc'[p].queue
        BY <2>7, <3>2, <4>2
      <4>5. {id} \subseteq proc'[p].visited /\ proc'[p].visited \subseteq Ids
        BY <1>3, <2>7, <3>2, <4>2
      <4>6. back = "needs"
        BY <3>2
      <4> QED BY <2>7, <2>10, <4>1, <4>3, <4>4, <4>5, <4>6 DEF Search, Ids, Asked
    <3> QED BY <3>1, <3>2
  <2>12. ASSUME proc[p].alone PROVE Sure(proc[p])'
    BY <2>7, <2>8, <2>11, <2>12 DEF Sure
  <2> QED BY <1>1, <2>5, <2>8, <2>9, <2>12, GoesKeeps
<1> QED BY <1>2, <1>3 DEF Resolve

LEMMA RootLock ==
    ASSUME PubTypes, LockInv, NEW p \in Procs, NEW id, Root(p, id)
    PROVE  LockInv'
<1>1. proc[p].pc = "roots" /\ manifest' = manifest /\ plugins' = plugins
  BY DEF Root
<1>2. PICK r : r = [roots |-> proc[p].roots \ {id}]
  OBVIOUS
<1>3. DOMAIN r = {"roots"}
  BY <1>2
<1>4. CASE Goes(p, r) /\ left' = left
  <2>1. \A k \in LockFields : proc'[p][k] = proc[p][k]
    BY <1>3, <1>4, AfterGoing, FieldsOfProcesses DEF LockFields
  <2>2. Work(proc'[p])
    BY <2>1, SameWorkField DEF LockInv
  <2>3. /\ proc'[p].pc = "roots" /\ proc'[p].deps = proc[p].deps /\ proc'[p].queue = proc[p].queue
        /\ proc'[p].visited = proc[p].visited
    BY <1>1, <2>1 DEF LockFields
  <2>4. /\ manifest.deps \in Dependencies /\ Loop(proc[p]) = "roots"
        /\ proc[p].alone => proc[p].deps = manifest.deps /\ Search(proc[p])
    BY <1>1, SearchingAlone
  <2>5. Loop(proc'[p]) = "roots"
    BY <2>3 DEF Loop, Below, Down, Fetching, Extraction
  <2>6. ASSUME proc[p].alone PROVE Sure(proc[p])'
    BY <1>1, <2>3, <2>4, <2>5, <2>6 DEF Sure, Search
  <2> QED BY <1>1, <1>3, <1>4, <2>2, <2>4, <2>6, GoesKeeps, FieldsOfProcesses
<1>5. CASE Resolve(p, id, "roots", r)
  BY <1>1, <1>3, <1>5, ResolveLock
<1> QED BY <1>2, <1>4, <1>5 DEF Root

LEMMA VisitLock ==
    ASSUME PubTypes, LockInv, NEW p \in Procs, NEW id, Visit(p, id)
    PROVE  LockInv'
<1>1. proc[p].pc = "queue" /\ manifest' = manifest /\ plugins' = plugins /\ id \in proc[p].queue
  BY DEF Visit
<1>2. PICK r : r = [queue |-> proc[p].queue \ {id}, visited |-> proc[p].visited \union {id}]
  OBVIOUS
<1>3. /\ DOMAIN r = {"queue", "visited"} /\ r["queue"] = proc[p].queue \ {id}
      /\ r["visited"] = proc[p].visited \union {id}
  BY <1>2
<1>4. /\ Work(proc[p]) /\ manifest.deps \in Dependencies /\ Loop(proc[p]) = "queue"
      /\ proc[p].op \in {"install", "offline"} /\ proc[p].deps \in Dependencies
      /\ proc[p].read.deps \in Dependencies
      /\ proc[p].alone => proc[p].deps = manifest.deps /\ Search(proc[p])
  BY <1>1, SearchingAlone
<1>5. InHand(proc[p]) = {}
  BY <1>4 DEF InHand
<1>6. CASE id \in proc[p].visited /\ Goes(p, r) /\ left' = left
  <2>1. \A k \in LockFields : proc'[p][k] = IF k \in DOMAIN r THEN r[k] ELSE proc[p][k]
    BY <1>3, <1>6, AfterGoing, FieldsOfProcesses
  <2>2. /\ proc'[p].pc = "queue" /\ proc'[p].deps = proc[p].deps /\ proc'[p].queue = proc[p].queue \ {id}
        /\ proc'[p].visited = proc[p].visited \union {id} /\ proc'[p].op = proc[p].op
        /\ proc'[p].read = proc[p].read
    BY <1>1, <1>3, <2>1 DEF LockFields
  <2>3. Work(proc'[p])
    BY <1>4, <2>2 DEF Work, Below, Down, Fetching, Extraction, Deletion
  <2>4. Loop(proc'[p]) = "queue" /\ InHand(proc'[p]) = {}
    BY <2>2 DEF Loop, InHand, Below, Down, Fetching, Extraction
  <2>5. ASSUME proc[p].alone PROVE Search(proc[p])'
    <3>1. /\ proc[p].visited \subseteq Ids /\ Asked(proc[p].deps) \subseteq proc[p].visited \union proc[p].queue
          /\ \A v \in proc[p].visited :
               Readable(v) /\ Asked(Needs[v]) \subseteq proc[p].visited \union proc[p].queue
      BY <1>4, <1>5, <2>5 DEF Search
    <3>2. \A v \in proc'[p].visited :
               Readable(v)' /\ Asked(Needs[v]) \subseteq proc'[p].visited \union proc'[p].queue
      BY <1>1, <1>6, <2>2, <3>1 DEF Readable, Installed, Ids
    <3>3. Asked(proc'[p].deps) \subseteq proc'[p].visited \union proc'[p].queue /\ proc'[p].visited \subseteq Ids
      BY <1>6, <2>2, <3>1
    <3> QED BY <2>2, <2>4, <3>2, <3>3 DEF Search, Ids, Asked
  <2>6. ASSUME proc[p].alone PROVE Sure(proc[p])'
    BY <1>1, <1>4, <2>2, <2>5, <2>6 DEF Sure
  <2> QED BY <1>1, <1>3, <1>4, <1>6, <2>3, <2>6, GoesKeeps, FieldsOfProcesses
<1>7. CASE Installed(id) /\ Goes(p, Merged(r, [pc |-> "needs", id |-> id])) /\ left' = left
  <2>1. PICK s : s = [pc |-> "needs", id |-> id]
    OBVIOUS
  <2>2. DOMAIN s = {"pc", "id"} /\ s["pc"] = "needs" /\ s["id"] = id
    BY <2>1
  <2>3. PICK t : t = Merged(r, s)
    OBVIOUS
  <2>4. /\ DOMAIN t = {"queue", "visited", "pc", "id"} /\ t["pc"] = "needs" /\ t["id"] = id
        /\ t["queue"] = r["queue"] /\ t["visited"] = r["visited"]
    BY <1>3, <2>2, <2>3 DEF Merged
  <2>5. Goes(p, t) /\ DOMAIN t \subseteq Fields /\ "alone" \notin DOMAIN t
    BY <1>7, <2>1, <2>3, <2>4, FieldsOfProcesses
  <2>6. \A k \in LockFields : proc'[p][k] = IF k \in DOMAIN t THEN t[k] ELSE proc[p][k]
    BY <2>5, AfterGoing
  <2>7. /\ proc'[p].pc = "needs" /\ proc'[p].deps = proc[p].deps /\ proc'[p].queue = proc[p].queue \ {id}
        /\ proc'[p].visited = proc[p].visited \union {id} /\ proc'[p].op = proc[p].op
        /\ proc'[p].read = proc[p].read /\ proc'[p].id = id
    BY <1>3, <2>4, <2>6 DEF LockFields
  <2>8. Work(proc'[p])
    BY <1>4, <2>7 DEF Work, Below, Down, Fetching, Extraction, Deletion
  <2>9. Loop(proc'[p]) = "needs" /\ InHand(proc'[p]) = {id}
    BY <2>7 DEF Loop, InHand, Below, Down, Fetching, Extraction
  <2>10. ASSUME proc[p].alone PROVE Search(proc[p])'
    <3>1. /\ proc[p].visited \subseteq Ids /\ Asked(proc[p].deps) \subseteq proc[p].visited \union proc[p].queue
          /\ \A v \in proc[p].visited :
               Readable(v) /\ Asked(Needs[v]) \subseteq proc[p].visited \union proc[p].queue
      BY <1>4, <1>5, <2>10 DEF Search
    <3>2. \A v \in proc'[p].visited \ {id} :
               Readable(v)' /\ Asked(Needs[v]) \subseteq proc'[p].visited \union proc'[p].queue
      BY <1>1, <2>7, <3>1 DEF Readable, Installed, Ids
    <3>3. /\ Asked(proc'[p].deps) \subseteq proc'[p].visited \union proc'[p].queue
          /\ {id} \subseteq proc'[p].visited /\ proc'[p].visited \subseteq Ids
      BY <1>7, <2>7, <3>1 DEF Installed
    <3> QED BY <2>7, <2>9, <3>2, <3>3 DEF Search, Ids, Asked
  <2>11. ASSUME proc[p].alone PROVE Sure(proc[p])'
    BY <1>1, <1>4, <2>7, <2>10, <2>11 DEF Sure
  <2> QED BY <1>1, <1>4, <1>7, <2>5, <2>8, <2>11, GoesKeeps
<1>8. CASE Resolve(p, id, "needs", r)
  BY <1>1, <1>3, <1>8, ResolveLock
<1>9. \/ id \in proc[p].visited /\ Goes(p, r) /\ left' = left
      \/ Installed(id) /\ Goes(p, Merged(r, [pc |-> "needs", id |-> id])) /\ left' = left
      \/ Resolve(p, id, "needs", r)
  BY <1>2 DEF Visit
<1> QED BY <1>6, <1>7, <1>8, <1>9

LEMMA ReadNeedsLock ==
    ASSUME PubTypes, LockInv, NEW p \in Procs, ReadNeeds(p)
    PROVE  LockInv'
<1> DEFINE id == proc[p].id
<1>1. proc[p].pc = "needs" /\ manifest' = manifest /\ plugins' = plugins /\ left' = left
  BY DEF ReadNeeds
<1>2. CASE Ends(p)
  BY <1>1, <1>2, EndsKeeps
<1>3. CASE Readable(id) /\ Goes(p, [pc |-> "queue", queue |-> proc[p].queue \union Asked(Needs[id])])
  <2>1. PICK r : r = [pc |-> "queue", queue |-> proc[p].queue \union Asked(Needs[id])]
    OBVIOUS
  <2>2. /\ DOMAIN r = {"pc", "queue"} /\ r["pc"] = "queue" /\ Goes(p, r)
        /\ r["queue"] = proc[p].queue \union Asked(Needs[id])
    BY <1>3, <2>1
  <2>3. \A k \in LockFields : proc'[p][k] = IF k \in DOMAIN r THEN r[k] ELSE proc[p][k]
    BY <2>2, AfterGoing, FieldsOfProcesses
  <2>4. /\ proc'[p].pc = "queue" /\ proc'[p].deps = proc[p].deps
        /\ proc'[p].queue = proc[p].queue \union Asked(Needs[id])
        /\ proc'[p].op = proc[p].op /\ proc'[p].id = id /\ proc'[p].visited = proc[p].visited
        /\ proc'[p].read = proc[p].read
    BY <2>2, <2>3 DEF LockFields
  <2>5. /\ proc[p].op \in {"install", "offline"} /\ proc[p].deps \in Dependencies
        /\ proc[p].read.deps \in Dependencies /\ manifest.deps \in Dependencies /\ Loop(proc[p]) = "needs"
        /\ proc[p].alone => proc[p].deps = manifest.deps /\ Search(proc[p])
    BY <1>1, SearchingAlone
  <2>6. Work(proc'[p])
    BY <2>4, <2>5 DEF Work, Below, Down, Fetching, Extraction, Deletion
  <2>7. Loop(proc'[p]) = "queue" /\ InHand(proc'[p]) = {} /\ InHand(proc[p]) = {id}
    BY <2>4, <2>5 DEF Loop, InHand, Below, Down, Fetching, Extraction
  <2>8. ASSUME proc[p].alone PROVE Search(proc[p])'
    <3>1. /\ proc[p].visited \subseteq Ids /\ Asked(proc[p].deps) \subseteq proc[p].visited \union proc[p].queue
          /\ \A v \in proc[p].visited \ {id} :
               Readable(v) /\ Asked(Needs[v]) \subseteq proc[p].visited \union proc[p].queue
      BY <2>5, <2>7, <2>8 DEF Search
    <3>2. \A v \in proc'[p].visited :
               Readable(v)' /\ Asked(Needs[v]) \subseteq proc'[p].visited \union proc'[p].queue
      BY <1>1, <1>3, <2>4, <3>1 DEF Readable, Installed, Ids
    <3>3. Asked(proc'[p].deps) \subseteq proc'[p].visited \union proc'[p].queue /\ proc'[p].visited \subseteq Ids
      BY <2>4, <3>1
    <3> QED BY <2>4, <2>7, <3>2, <3>3 DEF Search, Ids, Asked
  <2>9. ASSUME proc[p].alone PROVE Sure(proc[p])'
    BY <1>1, <2>4, <2>5, <2>8, <2>9 DEF Sure
  <2> QED BY <1>1, <2>2, <2>5, <2>6, <2>9, GoesKeeps, FieldsOfProcesses
<1> QED BY <1>2, <1>3 DEF ReadNeeds

LEMMA QueueDoneLock ==
    ASSUME PubTypes, LockInv, NEW p \in Procs, QueueDone(p)
    PROVE  LockInv'
<1>1. proc[p].pc = "queue" /\ manifest' = manifest /\ plugins' = plugins /\ left' = left /\ proc[p].queue = {}
  BY DEF QueueDone
<1>2. PICK r : r = [pc |-> "hash"]
  OBVIOUS
<1>3. DOMAIN r = {"pc"} /\ r["pc"] = "hash" /\ Goes(p, r)
  BY <1>2 DEF QueueDone
<1>4. \A k \in LockFields : proc'[p][k] = IF k \in DOMAIN r THEN r[k] ELSE proc[p][k]
  BY <1>3, AfterGoing, FieldsOfProcesses
<1>5. /\ proc'[p].pc = "hash" /\ proc'[p].deps = proc[p].deps /\ proc'[p].queue = proc[p].queue
      /\ proc'[p].op = proc[p].op /\ proc'[p].id = proc[p].id /\ proc'[p].visited = proc[p].visited
      /\ proc'[p].read = proc[p].read
  BY <1>3, <1>4 DEF LockFields
<1>6. /\ proc[p].op \in {"install", "offline"} /\ proc[p].deps \in Dependencies
      /\ proc[p].read.deps \in Dependencies /\ manifest.deps \in Dependencies /\ Loop(proc[p]) = "queue"
      /\ proc[p].alone => proc[p].deps = manifest.deps /\ Search(proc[p])
  BY <1>1, SearchingAlone
<1>7. Work(proc'[p])
  BY <1>5, <1>6 DEF Work, Below, Down, Fetching, Extraction, Deletion
<1>8. Loop(proc'[p]) = "hash" /\ InHand(proc'[p]) = {} /\ InHand(proc[p]) = {}
  BY <1>5, <1>6 DEF Loop, InHand, Below, Down, Fetching, Extraction
<1>9. ASSUME proc[p].alone PROVE Search(proc[p])'
  <2>1. /\ proc[p].visited \subseteq Ids /\ Asked(proc[p].deps) \subseteq proc[p].visited \union proc[p].queue
        /\ \A v \in proc[p].visited :
             Readable(v) /\ Asked(Needs[v]) \subseteq proc[p].visited \union proc[p].queue
    BY <1>6, <1>8, <1>9 DEF Search
  <2>2. \A v \in proc'[p].visited :
             Readable(v)' /\ Asked(Needs[v]) \subseteq proc'[p].visited \union proc'[p].queue
    BY <1>1, <1>5, <2>1 DEF Readable, Installed, Ids
  <2> QED BY <1>1, <1>5, <1>8, <2>1, <2>2 DEF Search, Ids, Asked
<1>10. ASSUME proc[p].alone PROVE Sure(proc[p])'
  BY <1>1, <1>5, <1>6, <1>9, <1>10 DEF Sure
<1> QED BY <1>1, <1>3, <1>6, <1>7, <1>10, GoesKeeps, FieldsOfProcesses

--------------------------------------------------------------------------------
(* The edit of the manifest, the lock file, and the commands themselves.   *)

LEMMA DeleteLock ==
    ASSUME PubTypes, LockInv, NEW p \in Procs, Delete(p)
    PROVE  LockInv'
<1>1. proc[p].pc = "delete" /\ manifest' = manifest /\ left' = left
  BY DEF Delete
<1>2. PICK dirs : Goes(p, [pc |-> "next", dirs |-> dirs])
  BY DEF Delete
<1>3. PICK r : r = [pc |-> "next", dirs |-> dirs]
  OBVIOUS
<1>4. DOMAIN r = {"pc", "dirs"} /\ r["pc"] = "next" /\ Goes(p, r)
  BY <1>2, <1>3
<1>5. /\ \A q \in Procs : q # p => SameState(q)
      /\ \A k \in LockFields : proc'[p][k] = FieldAfter(p, r, k)
  BY <1>4, GoesState, FieldsOfProcesses
<1>6. proc'[p]["pc"] = "next" /\ \A k \in LockFields \ {"pc"} : proc'[p][k] = proc[p][k]
  BY <1>4, <1>5 DEF FieldAfter, LockFields
<1>7. proc[p].op = "remove"
  BY <1>1 DEF LockInv, Work, Deletion
<1> QED BY <1>1, <1>5, <1>6, <1>7, EditStays

LEMMA NextDirLock ==
    ASSUME PubInv, LockInv, NEW p \in Procs, NextDir(p)
    PROVE  LockInv'
<1>1. proc[p].pc = "next" /\ manifest' = manifest /\ left' = left /\ PubTypes
  BY DEF NextDir, PubInv
<1>2. proc[p].op = "remove" /\ proc[p].dirs \subseteq Ids
  BY <1>1 DEF LockInv, Work, Deletion, PubInv, HasPackage
<1>3. CASE Goes(p, [pc |-> "edit"])
  <2>1. PICK r : r = [pc |-> "edit"]
    OBVIOUS
  <2>2. DOMAIN r = {"pc"} /\ r["pc"] = "edit" /\ Goes(p, r)
    BY <1>3, <2>1
  <2>3. /\ \A q \in Procs : q # p => SameState(q)
        /\ \A k \in LockFields : proc'[p][k] = FieldAfter(p, r, k)
    BY <1>1, <2>2, GoesState, FieldsOfProcesses
  <2>4. proc'[p]["pc"] = "edit" /\ \A k \in LockFields \ {"pc"} : proc'[p][k] = proc[p][k]
    BY <2>2, <2>3 DEF FieldAfter, LockFields
  <2> QED BY <1>1, <1>2, <2>3, <2>4, EditStays
<1>4. ASSUME NEW id \in proc[p].dirs, NEW dirs, NEW todo,
             Goes(p, [pc |-> "unlink", id |-> id, dirs |-> dirs, todo |-> todo])
      PROVE  LockInv'
  <2>1. PICK r : r = [pc |-> "unlink", id |-> id, dirs |-> dirs, todo |-> todo]
    OBVIOUS
  <2>2. DOMAIN r = {"pc", "id", "dirs", "todo"} /\ r["pc"] = "unlink" /\ r["id"] = id /\ Goes(p, r)
    BY <1>4, <2>1
  <2>3. /\ \A q \in Procs : q # p => SameState(q)
        /\ \A k \in LockFields : proc'[p][k] = FieldAfter(p, r, k)
    BY <1>1, <2>2, GoesState, FieldsOfProcesses
  <2>4. /\ proc'[p]["pc"] = "unlink" /\ proc'[p]["id"] = id
        /\ \A k \in LockFields \ {"pc", "id"} : proc'[p][k] = proc[p][k]
    BY <2>2, <2>3 DEF FieldAfter, LockFields
  <2>5. proc'[p].op = "remove" /\ id \in Names \X Versions
    BY <1>2, <2>4, PubAssumption DEF LockFields
  <2>6. Editing(proc[p]) /\ Editing(proc'[p])
    BY <1>1, <1>2, <2>4, <2>5 DEF Editing
  <2> QED BY <1>1, <2>3, <2>4, <2>5, <2>6, EditMoves
<1> QED BY <1>3, <1>4 DEF NextDir

\* A step that changes nothing of what the invariant is about.
LEMMA AllStays ==
    ASSUME LockInv, \A q \in Procs : SameState(q), manifest' = manifest, plugins' = plugins,
           left' = left
    PROVE  LockInv'
<1>1. \A q \in Procs : Work(proc'[q])
  BY SameWorkField DEF LockInv, SameState
<1>2. ASSUME NEW q \in Procs, Sure(proc[q]) PROVE Sure(proc[q])'
  <2>1. /\ proc'[q].pc = proc[q].pc /\ proc'[q].op = proc[q].op /\ proc'[q].id = proc[q].id
        /\ proc'[q].back = proc[q].back /\ proc'[q].queue = proc[q].queue
        /\ proc'[q].visited = proc[q].visited /\ proc'[q].deps = proc[q].deps
        /\ proc'[q].hash = proc[q].hash
    BY DEF SameState, LockFields
  <2> QED BY <1>2, <2>1 DEF Sure, Search, Readable, Installed, Loop, InHand, Searches, Ids, Asked
<1>3. \A q \in Procs : proc'[q].pc = proc[q].pc /\ proc'[q].alone = proc[q].alone
  BY DEF SameState, LockFields
<1> QED BY <1>1, <1>2, <1>3 DEF LockInv

LEMMA UnstageLock ==
    ASSUME PubTypes, LockInv, NEW p \in Procs, NEW q \in Procs, Unstage(p, q)
    PROVE  LockInv'
<1>1. manifest' = manifest /\ plugins' = plugins /\ left' = left
  BY DEF Unstage
<1>2. PICK v : proc' = [proc EXCEPT ![q] = [proc[q] EXCEPT !.staged = v]]
  BY DEF Unstage
<1>3. DOMAIN proc = Procs /\ \A a \in Procs : LockFields \subseteq DOMAIN proc[a]
  BY LockFieldsAre DEF PubTypes
<1>4. ASSUME NEW a \in Procs PROVE SameState(a)
  <2>1. CASE a # q
    BY <1>2, <1>3, <2>1 DEF SameState
  <2>2. CASE a = q
    <3>1. proc'[a] = [proc[a] EXCEPT !.staged = v]
      BY <1>2, <1>3, <2>2
    <3> QED BY <1>3, <3>1, OtherLockField DEF SameState
  <2> QED BY <2>1, <2>2
<1> QED BY <1>1, <1>4, AllStays

\* A step of the edit that goes on with the fields of r.
LEMMA EditGoes ==
    ASSUME PubTypes, LockInv, NEW p \in Procs, proc[p].pc \in {"edit", "truncate", "write", "reread"},
           NEW r, Goes(p, r), DOMAIN r \subseteq {"pc", "read", "deps"}, "pc" \in DOMAIN r,
           r["pc"] \in {"truncate", "write", "reread", "hash"},
           "read" \in DOMAIN r => r["read"].deps \in Dependencies,
           "deps" \in DOMAIN r => r["deps"] = manifest'.deps,
           r["pc"] = "hash" => "deps" \in DOMAIN r,
           manifest'.deps \in Dependencies, left' = left
    PROVE  LockInv'
<1>1. DOMAIN r \subseteq Fields
  BY FieldsOfProcesses
<1>2. \A k \in LockFields : proc'[p][k] = IF k \in DOMAIN r THEN r[k] ELSE proc[p][k]
  BY <1>1, AfterGoing
<1>3. \A q \in Procs : q # p => SameState(q)
  BY <1>1, GoesState
<1>4. \A k \in LockFields \ {"pc", "read", "deps"} : proc'[p][k] = proc[p][k]
  BY <1>2
<1>5. Work(proc[p])
  BY DEF LockInv
<1>6. \/ proc'[p]["read"] = r["read"] /\ "read" \in DOMAIN r
      \/ proc'[p]["read"] = proc[p]["read"]
  BY <1>2 DEF LockFields
<1>7. \/ proc'[p]["deps"] = r["deps"] /\ "deps" \in DOMAIN r
      \/ proc'[p]["deps"] = proc[p]["deps"] /\ "deps" \notin DOMAIN r
  BY <1>2 DEF LockFields
<1>8. proc'[p]["pc"] = r["pc"]
  BY <1>2 DEF LockFields
<1>9. proc'[p].read.deps \in Dependencies
  BY <1>5, <1>6 DEF Work
<1>10. proc'[p].deps \in Dependencies /\ (proc'[p].pc = "hash" => proc'[p].deps = manifest'.deps)
  BY <1>5, <1>7, <1>8 DEF Work
<1>11. Editing(proc[p]) /\ (Editing(proc'[p]) \/ proc'[p].pc = "hash")
  BY <1>8 DEF Editing
<1>12. proc'[p].id \in Names \X Versions
  BY <1>4, <1>5 DEF Work, LockFields
<1> QED BY <1>3, <1>4, <1>9, <1>10, <1>11, <1>12, EditKeeps

LEMMA EditReadLock ==
    ASSUME PubTypes, LockInv, NEW p \in Procs, EditRead(p)
    PROVE  LockInv'
<1>1. proc[p].pc = "edit" /\ left' = left /\ manifest.deps \in Dependencies
  BY DEF EditRead, LockInv
<1>2. ASSUME NEW read, read.deps \in Dependencies, Goes(p, [pc |-> "truncate", read |-> read]),
             manifest'.deps \in Dependencies
      PROVE  LockInv'
  <2>1. PICK r : r = [pc |-> "truncate", read |-> read]
    OBVIOUS
  <2>2. DOMAIN r = {"pc", "read"} /\ r["pc"] = "truncate" /\ r["read"] = read /\ Goes(p, r)
    BY <1>2, <2>1
  <2> QED BY <1>1, <1>2, <2>2, EditGoes
<1>3. CASE Goes(p, [pc |-> "truncate", read |-> manifest]) /\ manifest' = manifest
  BY <1>1, <1>2, <1>3
<1>4. CASE Goes(p, [pc |-> "truncate", read |-> Text(NoDeps)]) /\ manifest' = Text(NoDeps)
  BY <1>2, <1>4, NoDepsAsked
<1>5. CASE Goes(p, [pc |-> "reread"]) /\ manifest' = manifest
  <2>1. PICK r : r = [pc |-> "reread"]
    OBVIOUS
  <2>2. DOMAIN r = {"pc"} /\ r["pc"] = "reread" /\ Goes(p, r)
    BY <1>5, <2>1
  <2> QED BY <1>1, <1>5, <2>2, EditGoes
<1> QED BY <1>3, <1>4, <1>5, Zenon DEF EditRead

LEMMA TruncateLock ==
    ASSUME PubTypes, LockInv, NEW p \in Procs, Truncate(p)
    PROVE  LockInv'
<1>1. proc[p].pc = "truncate" /\ left' = left /\ manifest'.deps \in Dependencies
  BY NoDepsAsked DEF Truncate
<1>2. PICK r : r = [pc |-> "write"]
  OBVIOUS
<1>3. DOMAIN r = {"pc"} /\ r["pc"] = "write" /\ Goes(p, r)
  BY <1>2 DEF Truncate
<1> QED BY <1>1, <1>3, EditGoes

LEMMA ManifestWritten ==
    ASSUME PubTypes, LockInv, NEW p \in Procs, Write(p)
    PROVE  LockInv'
<1> DEFINE v == IF proc[p].op = "add" THEN proc[p].id[2] ELSE No
<1>1. proc[p].pc = "write" /\ left' = left
      /\ manifest' = Text([proc[p].read.deps EXCEPT ![proc[p].id[1]] = v])
  BY DEF Write
<1>2. Work(proc[p])
  BY DEF LockInv
<1>3. proc[p].id \in Names \X Versions /\ proc[p].read.deps \in Dependencies
  BY <1>1, <1>2 DEF Work
<1>4. manifest'.deps \in Dependencies
  <2>1. v \in Versions \union {No}
    BY <1>3
  <2> HIDE DEF v
  <2> QED BY <1>1, <1>3, <2>1, NoDepsAsked DEF Dependencies
<1>5. PICK r : r = [pc |-> "reread", read |-> NoFile]
  OBVIOUS
<1>6. DOMAIN r = {"pc", "read"} /\ r["pc"] = "reread" /\ r["read"] = NoFile /\ Goes(p, r)
  BY <1>5 DEF Write
<1> QED BY <1>1, <1>4, <1>6, EditGoes, NoDepsAsked

LEMMA RereadLock ==
    ASSUME PubTypes, LockInv, NEW p \in Procs, Reread(p)
    PROVE  LockInv'
<1>1. proc[p].pc = "reread" /\ left' = left /\ manifest' = manifest /\ manifest.deps \in Dependencies
  BY DEF Reread, LockInv
<1>2. CASE Ends(p)
  BY <1>1, <1>2, EndsKeeps
<1>3. CASE Goes(p, [pc |-> "hash", deps |-> manifest.deps])
  <2>1. PICK r : r = [pc |-> "hash", deps |-> manifest.deps]
    OBVIOUS
  <2>2. DOMAIN r = {"pc", "deps"} /\ r["pc"] = "hash" /\ r["deps"] = manifest.deps /\ Goes(p, r)
    BY <1>3, <2>1
  <2> QED BY <1>1, <2>2, EditGoes
<1> QED BY <1>2, <1>3 DEF Reread

LEMMA HashLock ==
    ASSUME PubTypes, LockInv, NEW p \in Procs, Hash(p)
    PROVE  LockInv'
<1>1. proc[p].pc = "hash" /\ left' = left /\ manifest' = manifest /\ plugins' = plugins
      /\ manifest.deps \in Dependencies /\ Work(proc[p])
  BY DEF Hash, LockInv
<1>2. PICK r : r = [pc |-> "lock", hash |-> manifest]
  OBVIOUS
<1>3. DOMAIN r = {"pc", "hash"} /\ r["pc"] = "lock" /\ r["hash"] = manifest /\ Goes(p, r)
  BY <1>2 DEF Hash
<1>4. \A k \in LockFields : proc'[p][k] = IF k \in DOMAIN r THEN r[k] ELSE proc[p][k]
  BY <1>3, AfterGoing, FieldsOfProcesses
<1>5. /\ proc'[p].pc = "lock" /\ proc'[p].hash = manifest /\ proc'[p].deps = proc[p].deps
      /\ proc'[p].queue = proc[p].queue /\ proc'[p].op = proc[p].op /\ proc'[p].id = proc[p].id
      /\ proc'[p].visited = proc[p].visited /\ proc'[p].read = proc[p].read
  BY <1>3, <1>4 DEF LockFields
<1>6. Work(proc'[p])
  BY <1>1, <1>5 DEF Work, Below, Down, Fetching, Extraction, Deletion
<1>7. /\ Loop(proc[p]) = "hash" /\ InHand(proc[p]) = {}
      /\ Loop(proc'[p]) = "lock" /\ InHand(proc'[p]) = {}
  BY <1>1, <1>5 DEF Loop, InHand, Below, Down, Fetching, Extraction
<1>8. ASSUME proc[p].alone PROVE Sure(proc[p])'
  <2>1. Sure(proc[p])
    BY <1>1, <1>8 DEF LockInv
  <2>2. ASSUME Searches(proc[p]) PROVE Search(proc[p])'
    <3>1. /\ proc[p].visited \subseteq Ids /\ proc[p].queue = {}
          /\ Asked(proc[p].deps) \subseteq proc[p].visited \union proc[p].queue
          /\ \A v \in proc[p].visited :
               Readable(v) /\ Asked(Needs[v]) \subseteq proc[p].visited \union proc[p].queue
      BY <1>1, <1>7, <2>1, <2>2 DEF Sure, Search
    <3>2. \A v \in proc'[p].visited :
               Readable(v)' /\ Asked(Needs[v]) \subseteq proc'[p].visited \union proc'[p].queue
      BY <1>1, <1>5, <3>1 DEF Readable, Installed, Ids
    <3> QED BY <1>5, <1>7, <3>1, <3>2 DEF Search, Ids, Asked
  <2>3. Searches(proc'[p]) <=> Searches(proc[p])
    BY <1>1, <1>5 DEF Searches
  <2>4. proc[p].deps = manifest.deps
    BY <1>1, <2>1 DEF Sure
  <2> QED BY <1>1, <1>5, <2>2, <2>3, <2>4 DEF Sure, Searches
<1> QED BY <1>1, <1>3, <1>6, <1>8, GoesKeeps, FieldsOfProcesses

LEMMA CleanFileLock ==
    ASSUME PubTypes, LockInv, NEW p \in Procs, NEW id \in Ids, CleanFile(p, id)
    PROVE  LockInv'
<1>1. manifest' = manifest /\ plugins' = plugins /\ left' = left
  BY DEF CleanFile
<1>2. PICK from : proc' = Moved(id, from, "gone")
  BY DEF CleanFile
<1>3. \A q \in Procs : SameState(q)
  BY <1>2, MovedState DEF SameState
<1> QED BY <1>1, <1>3, AllStays

LEMMA CleanLock ==
    ASSUME PubTypes, LockInv, NEW p \in Procs, Clean(p)
    PROVE  LockInv'
BY EndsKeeps DEF Clean

LEMMA CrashLock ==
    ASSUME PubTypes, LockInv, NEW p \in Procs, Crash(p)
    PROVE  LockInv'
BY EndsKeeps DEF Crash

LEMMA LockWritten ==
    ASSUME PubTypes, LockInv, NEW p \in Procs, WriteLock(p)
    PROVE  LockInv'
BY EndsKeeps DEF WriteLock

\* A command starts: those under way are not alone any more.
LEMMA BeginLock ==
    ASSUME PubTypes, LockInv, NEW p \in Procs, NEW c \in Commands, Begin(p, c)
    PROVE  LockInv'
<1>1. proc[p].pc = "idle" /\ manifest' = manifest /\ left.commands > 0
      /\ left' = [left EXCEPT !.commands = @ - 1]
  BY DEF Begin
<1>2. PICK first : /\ first = CASE c.op = "add"    -> [pc |-> "ask", id |-> c.id]
                                [] c.op = "remove" -> [pc |-> "delete", id |-> c.id]
                                [] c.op = "clean"  -> [pc |-> "clean"]
                                [] OTHER           -> [pc |-> "manifest"]
                   /\ proc' = [Accompanied EXCEPT ![p] =
                         Merged(Merged(first, [op |-> c.op, alone |-> Active = {}]), @)]
  BY DEF Begin
<1>3. c.op \in {"add", "remove", "install", "offline", "clean"}
      /\ (c.op \in {"add", "remove"} => c.id \in Names \X Versions)
  BY PubAssumption
<1>4. /\ "pc" \in DOMAIN first /\ DOMAIN first \subseteq {"pc", "id"}
      /\ c.op = "add" => first["pc"] = "ask"
      /\ c.op = "remove" => first["pc"] = "delete"
      /\ c.op = "clean" => first["pc"] = "clean"
      /\ c.op \in {"install", "offline"} => first["pc"] = "manifest"
      /\ c.op \in {"add", "remove"} => "id" \in DOMAIN first /\ first["id"] = c.id
  <2>1. CASE c.op = "add"
    BY <1>2, <2>1
  <2>2. CASE c.op = "remove"
    BY <1>2, <2>2
  <2>3. CASE c.op = "clean"
    BY <1>2, <2>3
  <2>4. CASE c.op \in {"install", "offline"}
    BY <1>2, <2>4
  <2> QED BY <1>3, <2>1, <2>2, <2>3, <2>4
<1>5. PICK s : s = [op |-> c.op, alone |-> Active = {}]
  OBVIOUS
<1>6. DOMAIN s = {"op", "alone"} /\ s["op"] = c.op /\ (s["alone"] <=> Active = {})
  BY <1>5
<1>7. PICK t : t = Merged(first, s)
  OBVIOUS
<1>8. /\ DOMAIN t = DOMAIN first \union {"op", "alone"} /\ t["op"] = c.op /\ (t["alone"] <=> Active = {})
      /\ \A k \in DOMAIN first : t[k] = first[k]
  BY <1>4, <1>6, <1>7 DEF Merged
<1>9. DOMAIN Accompanied = Procs
  BY DEF Accompanied
<1>10. proc'[p] = Merged(t, Accompanied[p]) /\ \A q \in Procs : q # p => proc'[q] = Accompanied[q]
  BY <1>2, <1>5, <1>7, <1>9
<1>11. Accompanied[p] = proc[p]
  BY <1>1 DEF Accompanied, Active
<1>12. \A k \in Fields : proc'[p][k] = IF k \in DOMAIN t THEN t[k] ELSE proc[p][k]
  BY <1>10, <1>11 DEF Merged, PubTypes
<1>13. Work(proc[p]) /\ manifest.deps \in Dependencies /\ left \in [commands : Nat, troubles : Nat]
  BY DEF LockInv
<1>14. /\ proc'[p].pc = first["pc"] /\ proc'[p].op = c.op /\ (proc'[p].alone <=> Active = {})
       /\ proc'[p].deps = proc[p].deps /\ proc'[p].read = proc[p].read /\ proc'[p].visited = proc[p].visited
       /\ c.op \in {"add", "remove"} => proc'[p].id = c.id
  BY <1>4, <1>8, <1>12, FieldsOfProcesses
<1>15. Work(proc'[p])
  BY <1>1, <1>3, <1>4, <1>13, <1>14 DEF Work, Below, Down, Fetching, Extraction, Deletion
<1>16. Sure(proc[p])'
  BY <1>3, <1>4, <1>14 DEF Sure, Searches
<1>17. ASSUME NEW q \in Procs, q # p
       PROVE  /\ proc'[q].pc = proc[q].pc /\ Work(proc'[q])
              /\ proc'[q].pc # "idle" => ~proc'[q].alone
  <2>1. CASE q \in Active
    <3>1. proc'[q] = [proc[q] EXCEPT !.alone = FALSE]
      BY <1>10, <1>17, <2>1 DEF Accompanied
    <3>2. "alone" \in DOMAIN proc[q]
      BY FieldsOfProcesses DEF PubTypes
    <3>3. /\ proc'[q].pc = proc[q].pc /\ proc'[q].op = proc[q].op /\ proc'[q].id = proc[q].id
          /\ proc'[q].back = proc[q].back /\ proc'[q].visited = proc[q].visited
          /\ proc'[q].deps = proc[q].deps /\ proc'[q].read = proc[q].read /\ proc'[q].alone = FALSE
      BY <3>1, <3>2
    <3>4. Work(proc[q])
      BY DEF LockInv
    <3> QED BY <3>3, <3>4 DEF Work
  <2>2. CASE q \notin Active
    <3>1. proc'[q] = proc[q] /\ proc[q].pc = "idle"
      BY <1>10, <1>17, <2>2 DEF Accompanied, Active
    <3> QED BY <3>1 DEF LockInv
  <2> QED BY <2>1, <2>2
<1>18. ASSUME NEW q \in Procs, proc'[q].alone, proc'[q].pc # "idle"
       PROVE  Sure(proc[q])' /\ \A o \in Procs : o # q => proc'[o].pc = "idle"
  <2>1. q = p
    BY <1>17, <1>18
  <2>2. Active = {}
    BY <1>14, <1>18, <2>1
  <2> QED BY <1>16, <1>17, <2>1, <2>2 DEF Active
<1>19. left' \in [commands : Nat, troubles : Nat]
  BY <1>1, <1>13
<1>20. \A q \in Procs : Work(proc'[q])
  BY <1>15, <1>17
<1> QED BY <1>1, <1>13, <1>18, <1>19, <1>20 DEF LockInv

LEMMA LockStepsKeep ==
    ASSUME PubInv, LockInv, PubNext
    PROVE  LockInv'
<1>1. PubTypes
  BY DEF PubInv
<1>2. ASSUME NEW p \in Procs, Steps(p) PROVE LockInv'
  BY <1>1, <1>2, AskLock, GitHubLock, LookupLock, GetLock, CopyLock, BrokenLock, VerifyLock, RenameLock,
     UnpackLock, ReplaceLock, UnlinkEntryLock, RemoveDirLock, PlaceLock, OpenLock, FillLock,
     ExtractionFailsLock, ReadManifestLock, RootLock, RootsDoneLock, VisitLock, ReadNeedsLock,
     QueueDoneLock, DeleteLock, NextDirLock, UnstageLock, EditReadLock, TruncateLock, ManifestWritten,
     RereadLock, HashLock, LockWritten, CleanFileLock, CleanLock DEF Steps
<1> QED BY <1>1, <1>2, CrashLock, BeginLock DEF PubNext

LEMMA LockStart == PubInit => LockInv
<1> SUFFICES ASSUME PubInit PROVE LockInv
  OBVIOUS
<1>1. manifest.deps \in Dependencies
  BY NoDepsAsked, PubAssumption DEF PubInit
<1>2. left \in [commands : Nat, troubles : Nat]
  BY PubAssumption DEF PubInit
<1>3. \A p \in Procs : proc[p] = Idle
  BY DEF PubInit
<1> QED BY <1>1, <1>2, <1>3, IdleWork, IdleFields DEF LockInv

\* Every state of the package manager has both invariants.
THEOREM LockInductive == PubSpec => []LockInv
<1>1. PubInv /\ LockInv /\ [PubNext]_pubVars => LockInv'
  <2>1. ASSUME PubInv, LockInv, PubNext PROVE LockInv'
    BY <2>1, LockStepsKeep
  <2>2. ASSUME LockInv, UNCHANGED pubVars PROVE LockInv'
    <3>1. manifest' = manifest /\ proc' = proc /\ left' = left /\ plugins' = plugins
      BY <2>2 DEF pubVars
    <3>2. ASSUME NEW w, Sure(w) PROVE Sure(w)'
      BY <3>1, <3>2 DEF Sure, Search, Readable, Installed, Loop, InHand, Searches, Ids, Asked
    <3> QED BY <2>2, <3>1, <3>2 DEF LockInv
  <2> QED BY <2>1, <2>2
<1> QED BY <1>1, LockStart, PubInductive, PTL DEF PubSpec

--------------------------------------------------------------------------------
(* What a command that runs alone leaves in the lock file.                 *)

LEMMA IdleWaits ==
    ASSUME NEW p \in Procs, Steps(p)
    PROVE  proc[p].pc # "idle" /\ (proc[p].pc = "lock" => WriteLock(p))
BY DEF Steps, Ask, GitHub, Lookup, Get, Copy, Broken, Verify, Rename, Unpack, Replace, UnlinkEntry,
   RemoveDir, Place, Open, Fill, ExtractionFails, Extracting, ReadManifest, Root, RootsDone, Visit,
   ReadNeeds, QueueDone, Delete, NextDir, Unstage, EditRead, Truncate, Write, Reread, Hash, WriteLock,
   CleanFile, Clean

\* Only a process that writes its lock file goes from "lock" to "idle" when nothing fails.
LEMMA AloneWrites ==
    ASSUME PubTypes, LockInv, [PubNext]_pubVars, NEW p \in Procs, proc[p].alone, proc[p].pc = "lock",
           proc'[p].pc = "idle", left' = left
    PROVE  WriteLock(p)
<1>1. left \in [commands : Nat, troubles : Nat]
  BY DEF LockInv
<1>2. \A q \in Procs : q # p => proc[q].pc = "idle"
  BY DEF LockInv
<1>3. PubNext
  BY DEF pubVars
<1>4. ASSUME NEW q \in Procs, Steps(q) PROVE WriteLock(p)
  BY <1>2, <1>4, IdleWaits
<1>5. ASSUME NEW q \in Procs, Crash(q) PROVE FALSE
  <2>1. left'.troubles = left.troubles - 1 /\ left.troubles \in Nat
    BY <1>1, <1>5 DEF Crash, Trouble
  <2>2. left.troubles = left.troubles - 1
    BY <2>1
  <2> QED BY <2>1, <2>2
<1>6. ASSUME NEW q \in Procs, NEW c \in Commands, Begin(q, c) PROVE FALSE
  <2>1. left' = [left EXCEPT !.commands = @ - 1]
    BY <1>6 DEF Begin
  <2>2. left'.commands = left.commands - 1 /\ left.commands \in Nat
    BY <1>1, <2>1
  <2>3. left.commands = left.commands - 1
    BY <2>2
  <2> QED BY <2>2, <2>3
<1> QED BY <1>3, <1>4, <1>5, <1>6 DEF PubNext

\* What the packages of the lock file are.
LEMMA CollectedPackages ==
    ASSUME NEW deps \in Dependencies, NEW set \in Collected(deps)
    PROVE  /\ \A d \in Asked(deps) : d[1] \in NamesOf(set)
           /\ \A id \in set : \A d \in Asked(Known(id)) : d[1] \in NamesOf(set)
           /\ set \subseteq Names \X Versions
<1> DEFINE s == <<Asked(deps), {}>>
<1>1. s \in PackageSets \X PackageSets /\ s[1] = Asked(deps) /\ s[2] = {}
  BY AskedPackages DEF PackageSets
<1>2. set \in Walk[s]
  BY DEF Collected
<1> HIDE DEF s
<1>3. Covers(set, s)
  BY <1>1, <1>2, WalkCovers
<1> QED BY <1>1, <1>3 DEF Covers

\* A lock file that a command wrote alone is that of the manifest as it is then,
\* and names every package that one of its entries needs, for any packages,
\* versions and dependencies among them (pubAdd, pubRemove, pubInstall,
\* generateLockFile).
THEOREM LockFilesAreClosed == PubSpec => LockIsClosed
<1>1. ASSUME PubTypes, LockInv, [PubNext]_pubVars, NEW p \in Procs, proc[p].alone, proc[p].pc = "lock",
             left' = left, proc'[p].pc = "idle"
      PROVE  /\ lock'.hash = manifest'
             /\ \A d \in Asked(manifest'.deps) \union UNION {Asked(e.deps) : e \in lock'.packages} :
                  \E e \in lock'.packages : e.id[1] = d[1]
  <2>1. WriteLock(p)
    BY <1>1, AloneWrites
  <2>2. Sure(proc[p]) /\ Work(proc[p])
    BY <1>1 DEF LockInv
  <2>3. proc[p].deps = manifest.deps /\ proc[p].hash = manifest /\ proc[p].deps \in Dependencies
    BY <1>1, <2>2 DEF Sure, Work
  <2>4. PICK set \in Collected(proc[p].deps) :
          lock' = [hash |-> proc[p].hash,
                   packages |-> {[id |-> id, sum |-> Sum(id), deps |-> Known(id)] : id \in set}]
    BY <2>1 DEF WriteLock
  <2>5. manifest' = manifest
    BY <2>1 DEF WriteLock
  <2>6. lock'.hash = manifest'
    BY <2>3, <2>4, <2>5
  <2>7. lock'.packages = {[id |-> id, sum |-> Sum(id), deps |-> Known(id)] : id \in set}
    BY <2>4
  <2>8. ASSUME NEW n \in NamesOf(set) PROVE \E e \in lock'.packages : e.id[1] = n
    <3>1. PICK id \in set : id[1] = n
      BY DEF NamesOf
    <3>2. [id |-> id, sum |-> Sum(id), deps |-> Known(id)] \in lock'.packages
      BY <2>7
    <3> QED BY <3>1, <3>2
  <2>9. /\ \A d \in Asked(manifest'.deps) : d[1] \in NamesOf(set)
        /\ \A id \in set : \A d \in Asked(Known(id)) : d[1] \in NamesOf(set)
    BY <2>3, <2>4, <2>5, CollectedPackages
  <2>10. ASSUME NEW e \in lock'.packages, NEW d \in Asked(e.deps) PROVE d[1] \in NamesOf(set)
    <3>1. PICK id \in set : e = [id |-> id, sum |-> Sum(id), deps |-> Known(id)]
      BY <2>7
    <3> QED BY <2>9, <3>1
  <2> QED BY <2>6, <2>8, <2>9, <2>10
<1>2. PubInv /\ LockInv /\ [PubNext]_pubVars =>
        \A p \in Procs :
          /\ proc[p].alone /\ proc[p].pc = "lock" /\ left' = left /\ proc'[p].pc = "idle"
          => /\ lock'.hash = manifest'
             /\ \A d \in Asked(manifest'.deps) \union UNION {Asked(e.deps) : e \in lock'.packages} :
                  \E e \in lock'.packages : e.id[1] = d[1]
  BY <1>1 DEF PubInv
<1> QED BY <1>2, PubInductive, LockInductive, PTL DEF PubSpec, LockIsClosed

\* What the packages that are needed, directly or not, need is needed too.
LEMMA ReachIsClosed ==
    ASSUME NEW ids, ids \subseteq Names \X Versions
    PROVE  ids \subseteq Reach(ids) /\ \A id \in Reach(ids) : Asked(Known(id)) \subseteq Reach(ids)
<1>1. ids \subseteq Reach(ids)
  BY DEF Reach
<1>2. ASSUME NEW id \in Reach(ids), NEW d \in Asked(Known(id)) PROVE d \in Reach(ids)
  <2>1. d \in Names \X Versions
    BY KnownPackages
  <2>2. id \in Ids /\ d \in Asked(Needs[id])
    BY DEF Known, Readable, Installed, Asked, NoDeps
  <2>3. ASSUME NEW set \in SUBSET (Names \X Versions), ids \subseteq set, Closed(set) PROVE d \in set
    BY <2>2, <2>3 DEF Reach, Closed
  <2> QED BY <2>1, <2>3 DEF Reach
<1> QED BY <1>1, <1>2

LEMMA ReachIsLeast ==
    ASSUME NEW ids, NEW set, set \subseteq Names \X Versions, ids \subseteq set, Closed(set)
    PROVE  Reach(ids) \subseteq set
BY DEF Reach

\* An install that ran alone leaves everything that the manifest needs, directly
\* or not, in plugins/, and a lock file of packages that it needs, each .jp with
\* the checksum of the whole one, for any packages and dependencies among them,
\* cycles included (pubInstall, installTransitiveDependencies, generateLockFile).
THEOREM InstallsAreComplete == PubSpec => InstallIsComplete
<1>1. ASSUME PubInv, LockInv, [PubNext]_pubVars, NEW p \in Procs, proc[p].alone,
             proc[p].op \in {"install", "offline"}, proc[p].pc = "lock",
             proc'[p].pc = "idle", left' = left
      PROVE  LET all == Reach(Asked(manifest.deps)) IN
               /\ \A id \in all : Installed(id)
               /\ {e.id : e \in lock'.packages} \subseteq all
               /\ \A e \in lock'.packages : e.id \in Jps => e.sum = Parts
  <2> DEFINE all == Reach(Asked(manifest.deps))
             visited == proc[p].visited
  <2>1. WriteLock(p)
    BY <1>1, AloneWrites DEF PubInv
  <2>2. Sure(proc[p]) /\ Work(proc[p])
    BY <1>1 DEF LockInv
  <2>3. proc[p].deps = manifest.deps /\ proc[p].deps \in Dependencies /\ Search(proc[p])
    BY <1>1, <2>2 DEF Sure, Work, Searches
  <2>4. Loop(proc[p]) = "lock" /\ InHand(proc[p]) = {}
    BY <1>1 DEF Loop, InHand, Below, Down, Fetching, Extraction
  <2>5. /\ visited \subseteq Ids /\ Asked(manifest.deps) \subseteq visited
        /\ \A v \in visited : Readable(v) /\ Asked(Needs[v]) \subseteq visited
    BY <1>1, <2>3, <2>4 DEF Search
  <2>6. Asked(manifest.deps) \subseteq Names \X Versions /\ visited \subseteq Names \X Versions
    BY <2>3, <2>5, AskedPackages, PubAssumption
  <2>7. Closed(visited)
    BY <2>5 DEF Closed
  <2>8. all \subseteq visited
    BY <2>5, <2>6, <2>7, ReachIsLeast
  <2>9. PICK set \in Collected(proc[p].deps) :
          lock' = [hash |-> proc[p].hash,
                   packages |-> {[id |-> id, sum |-> Sum(id), deps |-> Known(id)] : id \in set}]
    BY <2>1 DEF WriteLock
  <2>10. set \subseteq all
    <3> DEFINE s == <<Asked(proc[p].deps), {}>>
    <3>1. s \in PackageSets \X PackageSets /\ s[1] = Asked(manifest.deps) /\ s[2] = {}
      BY <2>3, <2>6 DEF PackageSets
    <3>2. set \in Walk[s]
      BY <2>9 DEF Collected
    <3> HIDE DEF s
    <3>3. s[1] \subseteq all /\ s[2] \subseteq all /\ \A id \in all : Asked(Known(id)) \subseteq all
      BY <2>6, <3>1, ReachIsClosed
    <3> HIDE DEF all
    <3> QED BY <3>1, <3>2, <3>3, WalkStays
  <2>11. ASSUME NEW e \in lock'.packages PROVE e.id \in all /\ (e.id \in Jps => e.sum = Parts)
    <3>1. PICK id \in set : e = [id |-> id, sum |-> Sum(id), deps |-> Known(id)]
      BY <2>9
    <3>2. e.id = id /\ e.sum = Sum(id) /\ id \in all
      BY <2>10, <3>1
    <3>3. Readable(id)
      BY <2>5, <2>8, <3>2
    <3>4. Installed(id) /\ (id \in Jps => plugins[id] = Parts)
      BY <3>3 DEF Readable
    <3> QED BY <3>2, <3>4 DEF Sum, Parts
  <2>12. \A id \in all : Installed(id)
    BY <2>5, <2>8 DEF Readable
  <2> HIDE DEF all
  <2>13. {e.id : e \in lock'.packages} \subseteq all
    BY <2>11
  <2> QED BY <2>11, <2>12, <2>13 DEF all
<1>2. PubInv /\ LockInv /\ [PubNext]_pubVars =>
        \A p \in Procs :
          /\ proc[p].alone /\ proc[p].op \in {"install", "offline"} /\ proc[p].pc = "lock"
          /\ proc'[p].pc = "idle" /\ left' = left
          => LET all == Reach(Asked(manifest.deps)) IN
             /\ \A id \in all : Installed(id)
             /\ {e.id : e \in lock'.packages} \subseteq all
             /\ \A e \in lock'.packages : e.id \in Jps => e.sum = Parts
  BY <1>1
<1> QED BY <1>2, PubInductive, LockInductive, PTL DEF PubSpec, InstallIsComplete

-----------------------------------------------------------------------------
(* Migrations.                                                             *)

\* The tables after the first i calls of the migration m begun on d, the table
\* its call i is about and whether one of the first i drops or names t.
Stmt(m, i) == Ups[m][i][1]
DropsIn(m, i, t) == \E j \in 1 .. i : Stmt(m, j).k = "drop" /\ Stmt(m, j).t = t
Mentions(m, i, t) == \E j \in 1 .. i : Stmt(m, j).t = t

\* y may be what i calls of m leave, begun on d and killed and begun again any
\* number of times.
Between(m, d, y, i) ==
    LET n == Len(Ups[m]) IN
    \A t \in Tables :
      /\ DropsIn(m, i, t) \/ (Mentions(m, i, t) /\ ~DropsIn(m, n, t)) => y[t] = UpRun(d, m)[i][t]
      /\ ~DropsIn(m, n, t) => y[t] \in {d[t], UpRun(d, m)[n][t]}

\* The tables when the first k migrations are done, and the next may have been
\* begun.
AppliedTo(d, k) ==
    IF k < Len(Ups) /\ Repeatable(k + 1)
    THEN Between(k + 1, Wanted(1 .. k), d, 0)
    ELSE d = Wanted(1 .. k)

\* What is left for the command c after k migrations.
Left(c, k) == {m \in Migrations : m \notin c.done /\ m > c.m} = (k + 1) .. Len(Ups)

\* The migration m is under way, on the tables d, begun on w.
UnderWay(c, d, w) ==
    /\ c.call \in 1 .. Len(Ups[c.m])
    /\ c.stmt \in 1 .. Len(Ups[c.m][c.call])
    /\ IF Repeatable(c.m) THEN Between(c.m, w, d, c.call - 1)
       ELSE CallRun(UpRun(w, c.m)[c.call - 1], Ups[c.m][c.call])[c.stmt - 1] = [db |-> d, on |-> TRUE]

\* The command, the log and the tables when k migrations are logged.
Logged(k) ==
    /\ cmd.pc # "erase" => logged = 1 .. k
    /\ cmd.pc \in {"quiet", "list", "ensure", "read", "pick"} => AppliedTo(schema, k)
    /\ cmd.pc = "pick" => Left(cmd, k)
    /\ cmd.pc \in {"up", "log"} => k < Len(Ups) /\ cmd.m = k + 1 /\ Left(cmd, k + 1)
    /\ cmd.pc = "log" => schema = Wanted(1 .. (k + 1))
    /\ cmd.pc = "up" => UnderWay(cmd, schema, Wanted(1 .. k))

IsSchema(d) == d = [t \in Tables |-> d[t]]

CommandShape ==
    /\ cmd = [pc |-> cmd.pc, done |-> cmd.done, m |-> cmd.m, call |-> cmd.call, stmt |-> cmd.stmt]
    /\ cmd.pc \in {"quiet", "list", "erase", "ensure", "read", "pick", "up", "log"}
    /\ cmd.pc \in {"list", "erase", "ensure", "read"} => cmd.m = 0

MigrationsInv ==
    /\ CommandShape
    /\ ~torn => IsSchema(schema)
    /\ ~torn => \E k \in 0 .. Len(Ups) : Logged(k)

\* The same up to N.
LEMMA IntervalInduction ==
    ASSUME NEW N \in Nat, NEW G, 0 \in G, \A n \in 0 .. (N - 1) : n \in G => n + 1 \in G
    PROVE  0 .. N \subseteq G
<1> DEFINE H == {n \in Nat : n \in 0 .. N => n \in G}
<1>1. 0 \in H
  OBVIOUS
<1>2. ASSUME NEW n \in Nat, n \in H PROVE n + 1 \in H
  BY <1>2
<1> HIDE DEF H
<1>3. Nat \subseteq H
  BY <1>1, <1>2, NatSetInduction
<1> QED BY <1>3 DEF H

(* The recursive functions conform to their equations. *)
LEMMA CallRunSteps ==
    ASSUME NEW d, NEW call, Len(call) \in Nat
    PROVE  /\ CallRun(d, call)[0] = [db |-> d, on |-> TRUE]
           /\ \A j \in 1 .. Len(call) :
                CallRun(d, call)[j] = Ran(CallRun(d, call)[j - 1], call[j])
<1> DEFINE Nx(x, j) == Ran(x, call[j])
           Conforms(f, n) == f = [j \in 0 .. n |-> IF j = 0 THEN [db |-> d, on |-> TRUE] ELSE Nx(f[j - 1], j)]
           G == {n \in Nat : \E f : Conforms(f, n)}
<1>0. CallRun(d, call) = CHOOSE f : Conforms(f, Len(call))
  BY Zenon DEF CallRun
<1> HIDE DEF Nx
<1>1. 0 \in G
  <2> DEFINE f == [j \in 0 .. 0 |-> [db |-> d, on |-> TRUE]]
  <2>1. Conforms(f, 0)
    OBVIOUS
  <2> QED BY <2>1
<1>2. ASSUME NEW n \in Nat, n \in G PROVE n + 1 \in G
  <2>1. PICK f : Conforms(f, n)
    BY <1>2
  <2> DEFINE g == [j \in 0 .. (n + 1) |-> IF j = n + 1 THEN Nx(f[n], n + 1) ELSE f[j]]
  <2>2. Conforms(g, n + 1)
    <3>1. ASSUME NEW j \in 0 .. (n + 1) PROVE g[j] = IF j = 0 THEN [db |-> d, on |-> TRUE] ELSE Nx(g[j - 1], j)
      <4>1. CASE j = n + 1
        BY <4>1
      <4>2. CASE j \in 0 .. n
        <5>1. f[j] = IF j = 0 THEN [db |-> d, on |-> TRUE] ELSE Nx(f[j - 1], j)
          BY <2>1, <4>2
        <5>2. j # 0 => g[j - 1] = f[j - 1]
          BY <4>2
        <5> QED BY <4>2, <5>1, <5>2
      <4> QED BY <4>1, <4>2
    <3> HIDE DEF g
    <3>2. g = [j \in 0 .. (n + 1) |-> g[j]]
      BY DEF g
    <3> QED BY <3>1, <3>2
  <2> HIDE DEF g
  <2> QED BY <2>2
<1> HIDE DEF G
<1>3. Len(call) \in G
  BY <1>1, <1>2, NatSetInduction
<1>4. Conforms(CallRun(d, call), Len(call))
  BY <1>0, <1>3, Zenon DEF G
<1>5. CallRun(d, call)[0] = [db |-> d, on |-> TRUE]
  BY <1>4
<1>6. ASSUME NEW j \in 1 .. Len(call) PROVE CallRun(d, call)[j] = Nx(CallRun(d, call)[j - 1], j)
  <2>1. j \in 0 .. Len(call) /\ j # 0
    OBVIOUS
  <2> QED BY <1>4, <2>1
<1> QED BY <1>5, <1>6, Zenon DEF Nx

\* A migration, call by call.
LEMMA UpRunSteps ==
    ASSUME NEW d, NEW m, Len(Ups[m]) \in Nat
    PROVE  /\ UpRun(d, m)[0] = d
           /\ \A i \in 1 .. Len(Ups[m]) :
                UpRun(d, m)[i] = CallRun(UpRun(d, m)[i - 1], Ups[m][i])[Len(Ups[m][i])].db
<1> DEFINE Nx(x, i) == CallRun(x, Ups[m][i])[Len(Ups[m][i])].db
           Conforms(f, n) == f = [i \in 0 .. n |-> IF i = 0 THEN d ELSE Nx(f[i - 1], i)]
           G == {n \in Nat : \E f : Conforms(f, n)}
<1>0. UpRun(d, m) = CHOOSE f : Conforms(f, Len(Ups[m]))
  BY Zenon DEF UpRun
<1> HIDE DEF Nx
<1>1. 0 \in G
  <2> DEFINE f == [i \in 0 .. 0 |-> d]
  <2>1. Conforms(f, 0)
    OBVIOUS
  <2> QED BY <2>1
<1>2. ASSUME NEW n \in Nat, n \in G PROVE n + 1 \in G
  <2>1. PICK f : Conforms(f, n)
    BY <1>2
  <2> DEFINE g == [i \in 0 .. (n + 1) |-> IF i = n + 1 THEN Nx(f[n], n + 1) ELSE f[i]]
  <2>2. Conforms(g, n + 1)
    <3>1. ASSUME NEW i \in 0 .. (n + 1) PROVE g[i] = IF i = 0 THEN d ELSE Nx(g[i - 1], i)
      <4>1. CASE i = n + 1
        BY <4>1
      <4>2. CASE i \in 0 .. n
        <5>1. f[i] = IF i = 0 THEN d ELSE Nx(f[i - 1], i)
          BY <2>1, <4>2
        <5>2. i # 0 => g[i - 1] = f[i - 1]
          BY <4>2
        <5> QED BY <4>2, <5>1, <5>2
      <4> QED BY <4>1, <4>2
    <3> HIDE DEF g
    <3>2. g = [i \in 0 .. (n + 1) |-> g[i]]
      BY DEF g
    <3> QED BY <3>1, <3>2
  <2> HIDE DEF g
  <2> QED BY <2>2
<1> HIDE DEF G
<1>3. Len(Ups[m]) \in G
  BY <1>1, <1>2, NatSetInduction
<1>4. Conforms(UpRun(d, m), Len(Ups[m]))
  BY <1>0, <1>3, Zenon DEF G
<1>5. UpRun(d, m)[0] = d
  BY <1>4
<1>6. ASSUME NEW i \in 1 .. Len(Ups[m]) PROVE UpRun(d, m)[i] = Nx(UpRun(d, m)[i - 1], i)
  <2>1. i \in 0 .. Len(Ups[m]) /\ i # 0
    OBVIOUS
  <2> QED BY <1>4, <2>1
<1> QED BY <1>5, <1>6, Zenon DEF Nx

\* The migrations of a set, one by one.
LEMMA WantedRunDef ==
    ASSUME NEW ms
    PROVE  LET run == WantedRun(ms) IN
           run = [i \in 0 .. Len(Ups) |->
                    IF i = 0 THEN NoTables
                    ELSE IF i \in ms THEN Migrated(run[i - 1], i) ELSE run[i - 1]]
<1> DEFINE Nx(x, i) == IF i \in ms THEN Migrated(x, i) ELSE x
           Conforms(f, n) == f = [i \in 0 .. n |-> IF i = 0 THEN NoTables ELSE Nx(f[i - 1], i)]
           G == {n \in Nat : \E f : Conforms(f, n)}
<1>0. WantedRun(ms) = CHOOSE f : Conforms(f, Len(Ups))
  BY Zenon DEF WantedRun
<1> HIDE DEF Nx
<1>1. 0 \in G
  <2> DEFINE f == [i \in 0 .. 0 |-> NoTables]
  <2>1. Conforms(f, 0)
    OBVIOUS
  <2> QED BY <2>1
<1>2. ASSUME NEW n \in Nat, n \in G PROVE n + 1 \in G
  <2>1. PICK f : Conforms(f, n)
    BY <1>2
  <2> DEFINE g == [i \in 0 .. (n + 1) |-> IF i = n + 1 THEN Nx(f[n], n + 1) ELSE f[i]]
  <2>2. Conforms(g, n + 1)
    <3>1. ASSUME NEW i \in 0 .. (n + 1) PROVE g[i] = IF i = 0 THEN NoTables ELSE Nx(g[i - 1], i)
      <4>1. CASE i = n + 1
        BY <4>1
      <4>2. CASE i \in 0 .. n
        <5>1. f[i] = IF i = 0 THEN NoTables ELSE Nx(f[i - 1], i)
          BY <2>1, <4>2
        <5>2. i # 0 => g[i - 1] = f[i - 1]
          BY <4>2
        <5> QED BY <4>2, <5>1, <5>2
      <4> QED BY <4>1, <4>2
    <3> HIDE DEF g
    <3>2. g = [i \in 0 .. (n + 1) |-> g[i]]
      BY DEF g
    <3> QED BY <3>1, <3>2
  <2> HIDE DEF g
  <2> QED BY <2>2
<1> HIDE DEF G
<1>3. Len(Ups) \in G
  BY <1>1, <1>2, NatSetInduction, MigrationsAssumption
<1>4. Conforms(WantedRun(ms), Len(Ups))
  BY <1>0, <1>3, Zenon DEF G
<1> QED BY <1>4, Zenon DEF Nx

\* What the first k migrations leave, and with the next one.
LEMMA WantedGrows ==
    ASSUME NEW k \in Nat, k < Len(Ups)
    PROVE  Wanted(1 .. (k + 1)) = Migrated(Wanted(1 .. k), k + 1)
<1>0. Len(Ups) \in Nat
  BY MigrationsAssumption
<1>a. DEFINE L == Len(Ups)
             A == WantedRun(1 .. k)
             B == WantedRun(1 .. (k + 1))
<1>1. A[0] = NoTables /\ B[0] = NoTables
  BY <1>0, WantedRunDef
<1>2. ASSUME NEW i \in 1 .. L
      PROVE  /\ A[i] = IF i <= k THEN Migrated(A[i - 1], i) ELSE A[i - 1]
             /\ B[i] = IF i <= k + 1 THEN Migrated(B[i - 1], i) ELSE B[i - 1]
  <2>1. i \in 0 .. L /\ i # 0 /\ (i \in 1 .. k <=> i <= k) /\ (i \in 1 .. (k + 1) <=> i <= k + 1)
    BY <1>0
  <2>2. A[i] = IF i \in 1 .. k THEN Migrated(A[i - 1], i) ELSE A[i - 1]
    BY <2>1, WantedRunDef
  <2>3. B[i] = IF i \in 1 .. (k + 1) THEN Migrated(B[i - 1], i) ELSE B[i - 1]
    BY <2>1, WantedRunDef
  <2> QED BY <2>1, <2>2, <2>3
<1> HIDE DEF A, B
<1>3. \A i \in 0 .. k : A[i] = B[i]
  <2> DEFINE G == {i \in 0 .. k : A[i] = B[i]}
  <2>1. 0 \in G
    BY <1>1
  <2>2. ASSUME NEW i \in 0 .. (k - 1), i \in G PROVE i + 1 \in G
    <3>1. i + 1 \in 1 .. L /\ (i + 1) - 1 = i /\ i + 1 <= k /\ i + 1 <= k + 1
      BY <1>0
    <3> QED BY <1>2, <2>2, <3>1
  <2> HIDE DEF G
  <2>3. 0 .. k \subseteq G
    BY <2>1, <2>2, IntervalInduction
  <2> QED BY <2>3 DEF G
<1>4. \A i \in 0 .. (L - k) : A[k + i] = A[k]
  <2> DEFINE G == {i \in 0 .. (L - k) : A[k + i] = A[k]}
  <2>1. 0 \in G
    BY <1>0
  <2>2. ASSUME NEW i \in 0 .. (L - k - 1), i \in G PROVE i + 1 \in G
    <3>1. k + (i + 1) \in 1 .. L /\ (k + (i + 1)) - 1 = k + i /\ ~(k + (i + 1) <= k) /\ i + 1 \in 0 .. (L - k)
      BY <1>0
    <3> QED BY <1>2, <2>2, <3>1
  <2> HIDE DEF G
  <2>3. 0 .. (L - k) \subseteq G
    BY <1>0, <2>1, <2>2, IntervalInduction
  <2> QED BY <2>3 DEF G
<1>5. \A i \in 0 .. (L - k - 1) : B[k + 1 + i] = B[k + 1]
  <2> DEFINE G == {i \in 0 .. (L - k - 1) : B[k + 1 + i] = B[k + 1]}
  <2>1. 0 \in G
    BY <1>0
  <2>2. ASSUME NEW i \in 0 .. (L - k - 1 - 1), i \in G PROVE i + 1 \in G
    <3>1. /\ k + 1 + (i + 1) \in 1 .. L /\ (k + 1 + (i + 1)) - 1 = k + 1 + i
          /\ ~(k + 1 + (i + 1) <= k + 1) /\ i + 1 \in 0 .. (L - k - 1)
      BY <1>0
    <3> QED BY <1>2, <2>2, <3>1
  <2> HIDE DEF G
  <2>3. 0 .. (L - k - 1) \subseteq G
    <3>1. L - k - 1 \in Nat
      BY <1>0
    <3> DEFINE N == L - k - 1
    <3>2. N \in Nat /\ \A n \in 0 .. (N - 1) : n \in G => n + 1 \in G
      BY <2>2, <3>1
    <3> HIDE DEF N
    <3>3. 0 .. N \subseteq G
      BY <2>1, <3>2, IntervalInduction
    <3> QED BY <3>3 DEF N
  <2> QED BY <2>3 DEF G
<1>6. A[L] = A[k] /\ B[L] = B[k + 1]
  <2>1. L - k \in 0 .. (L - k) /\ k + (L - k) = L /\ L - k - 1 \in 0 .. (L - k - 1) /\ k + 1 + (L - k - 1) = L
    BY <1>0
  <2>2. A[k + (L - k)] = A[k]
    BY ONLY <1>4, <2>1
  <2>3. B[k + 1 + (L - k - 1)] = B[k + 1]
    BY ONLY <1>5, <2>1
  <2>4. A[L] = A[k]
    BY ONLY <2>1, <2>2
  <2>5. B[L] = B[k + 1]
    BY ONLY <2>1, <2>3
  <2> QED BY <2>4, <2>5
<1>7. B[k + 1] = Migrated(B[k], k + 1)
  <2>1. k + 1 \in 1 .. L /\ (k + 1) - 1 = k /\ k + 1 <= k + 1
    BY <1>0
  <2> QED BY <1>2, <2>1
<1>8. A[k] = B[k]
  BY <1>3
<1> QED BY <1>6, <1>7, <1>8 DEF Wanted, A, B

\* Without migrations there are no tables.
LEMMA WantedStarts == Wanted({}) = NoTables
<1>0. Len(Ups) \in Nat
  BY MigrationsAssumption
<1> DEFINE A == WantedRun({})
           G == {i \in 0 .. Len(Ups) : A[i] = NoTables}
<1>1. 0 \in G
  BY <1>0, WantedRunDef
<1>2. ASSUME NEW i \in 0 .. (Len(Ups) - 1), i \in G PROVE i + 1 \in G
  <2>1. i + 1 \in 0 .. Len(Ups) /\ i + 1 # 0 /\ (i + 1) - 1 = i
    BY <1>0
  <2>2. A[i + 1] = A[(i + 1) - 1]
    BY <2>1, WantedRunDef
  <2> QED BY <1>2, <2>1, <2>2
<1> HIDE DEF G
<1>3. 0 .. Len(Ups) \subseteq G
  BY <1>0, <1>1, <1>2, IntervalInduction
<1> QED BY <1>0, <1>3 DEF G, Wanted

\* What the assumption says of a migration and of a statement.
LEMMA MigrationFacts ==
    ASSUME NEW m \in Migrations
    PROVE  /\ Len(Ups) \in Nat /\ Len(Ups[m]) \in Nat /\ m \in 1 .. Len(Ups)
           /\ \A i \in 1 .. Len(Ups[m]) : Len(Ups[m][i]) \in Nat \ {0}
BY MigrationsAssumption DEF Migrations

\* What the assumption says of a statement.
LEMMA StatementFacts ==
    ASSUME NEW m \in Migrations, NEW i \in 1 .. Len(Ups[m]), NEW j \in 1 .. Len(Ups[m][i])
    PROVE  LET s == Ups[m][i][j] IN
           /\ s.k \in {"create", "drop", "add", "remove", "rename"} /\ s.t \in Tables
           /\ s.k = "create" => s.cols # NoTable
           /\ s.k = "rename" => s.to \in Tables
BY MigrationsAssumption, Zenon DEF Migrations

\* A statement leaves tables.
LEMMA ExecutedSchema ==
    ASSUME NEW m \in Migrations, NEW i \in 1 .. Len(Ups[m]), NEW j \in 1 .. Len(Ups[m][i]),
           NEW d, IsSchema(d)
    PROVE  IsSchema(Executed(d, Ups[m][i][j]))
<1> DEFINE s == Ups[m][i][j]
<1>1. /\ s.k \in {"create", "drop", "add", "remove", "rename"} /\ s.t \in Tables
  BY StatementFacts
<1> HIDE DEF s
<1>2. IsSchema(Executed(d, s))
  BY <1>1 DEF IsSchema, Executed
<1> QED BY <1>2 DEF s

\* A call that has given up changes nothing more.
LEMMA CallGivesUp ==
    ASSUME NEW d, NEW call, Len(call) \in Nat, NEW j \in 0 .. Len(call), ~CallRun(d, call)[j].on
    PROVE  CallRun(d, call)[Len(call)].db = CallRun(d, call)[j].db
<1> DEFINE L == Len(call)
           run == CallRun(d, call)
           G == {i \in 0 .. (L - j) : ~run[j + i].on /\ run[j + i].db = run[j].db}
<1>0. L \in Nat /\ j \in Nat /\ L - j \in Nat /\ j + 0 = j
  OBVIOUS
<1>1. 0 \in G
  BY <1>0
<1>2. ASSUME NEW i \in 0 .. ((L - j) - 1), i \in G PROVE i + 1 \in G
  <2>1. j + (i + 1) \in 1 .. L /\ (j + (i + 1)) - 1 = j + i /\ i + 1 \in 0 .. (L - j)
    BY <1>0
  <2>2. ~run[j + i].on /\ run[j + i].db = run[j].db
    BY <1>2
  <2>3. run[j + (i + 1)] = [db |-> run[j + i].db, on |-> FALSE]
    <3>1. run[j + (i + 1)] = Ran(run[j + i], call[j + (i + 1)])
      BY <2>1, CallRunSteps
    <3> QED BY <2>2, <3>1 DEF Ran
  <2> QED BY <2>1, <2>2, <2>3
<1> HIDE DEF L, run, G
<1>3. 0 .. (L - j) \subseteq G
  BY <1>0, <1>1, <1>2, IntervalInduction
<1>4. L - j \in 0 .. (L - j) /\ j + (L - j) = L
  BY <1>0
<1>5. run[j + (L - j)].db = run[j].db
  BY <1>3, <1>4 DEF G
<1> QED BY <1>4, <1>5 DEF run, L

\* The next statement of a call.
LEMMA CallRunNext ==
    ASSUME NEW d, NEW call, Len(call) \in Nat, NEW j \in 0 .. (Len(call) - 1)
    PROVE  CallRun(d, call)[j + 1] = Ran(CallRun(d, call)[j], call[j + 1])
<1>1. \A i \in 1 .. Len(call) : CallRun(d, call)[i] = Ran(CallRun(d, call)[i - 1], call[i])
  BY CallRunSteps
<1>2. j + 1 \in 1 .. Len(call) /\ (j + 1) - 1 = j
  OBVIOUS
<1>3. CallRun(d, call)[j + 1] = Ran(CallRun(d, call)[(j + 1) - 1], call[j + 1])
  BY <1>1, <1>2, Zenon
<1> QED BY <1>2, <1>3

\* The next call of a migration.
LEMMA UpRunNext ==
    ASSUME NEW d, NEW m \in Migrations, NEW i \in 0 .. (Len(Ups[m]) - 1)
    PROVE  UpRun(d, m)[i + 1] = CallRun(UpRun(d, m)[i], Ups[m][i + 1])[Len(Ups[m][i + 1])].db
<1>0. Len(Ups[m]) \in Nat
  BY MigrationFacts
<1>1. \A j \in 1 .. Len(Ups[m]) : UpRun(d, m)[j] = CallRun(UpRun(d, m)[j - 1], Ups[m][j])[Len(Ups[m][j])].db
  <2>1. SUFFICES ASSUME NEW j \in 1 .. Len(Ups[m])
                 PROVE  UpRun(d, m)[j] = CallRun(UpRun(d, m)[j - 1], Ups[m][j])[Len(Ups[m][j])].db
    OBVIOUS
  <2> QED BY MigrationFacts, UpRunSteps
<1>2. i + 1 \in 1 .. Len(Ups[m]) /\ (i + 1) - 1 = i
  BY <1>0
<1>3. UpRun(d, m)[i + 1] = CallRun(UpRun(d, m)[(i + 1) - 1], Ups[m][i + 1])[Len(Ups[m][i + 1])].db
  BY <1>1, <1>2, Zenon
<1> QED BY <1>2, <1>3

\* Each call of a repeatable migration is one statement, executed.
LEMMA RepeatableSteps ==
    ASSUME NEW m \in Migrations, Repeatable(m)
    PROVE  \A i \in 1 .. Len(Ups[m]) :
             /\ Len(Ups[m][i]) = 1 /\ Stmt(m, i).k \in {"create", "drop"} /\ Stmt(m, i).t \in Tables
             /\ Stmt(m, i).k = "create" => Stmt(m, i).cols # NoTable
             /\ \A d : UpRun(d, m)[i] = Executed(UpRun(d, m)[i - 1], Stmt(m, i))
<1> SUFFICES ASSUME NEW i \in 1 .. Len(Ups[m])
             PROVE  /\ Len(Ups[m][i]) = 1 /\ Stmt(m, i).k \in {"create", "drop"} /\ Stmt(m, i).t \in Tables
                    /\ Stmt(m, i).k = "create" => Stmt(m, i).cols # NoTable
                    /\ \A d : UpRun(d, m)[i] = Executed(UpRun(d, m)[i - 1], Stmt(m, i))
  BY Zenon
<1>1. Len(Ups[m][i]) = 1 /\ Stmt(m, i).k \in {"create", "drop"}
  BY DEF Repeatable, Stmt
<1>2. 1 \in 1 .. Len(Ups[m][i])
  BY <1>1
<1>3. /\ Stmt(m, i).t \in Tables
      /\ Stmt(m, i).k = "create" => Stmt(m, i).cols # NoTable
  BY <1>2, StatementFacts DEF Stmt
<1>4. ASSUME NEW d PROVE UpRun(d, m)[i] = Executed(UpRun(d, m)[i - 1], Stmt(m, i))
  <2> DEFINE x == UpRun(d, m)[i - 1]
  <2>1. UpRun(d, m)[i] = CallRun(x, Ups[m][i])[1].db
    <3>1. UpRun(d, m)[i] = CallRun(UpRun(d, m)[i - 1], Ups[m][i])[Len(Ups[m][i])].db
      <4>1. i - 1 \in 0 .. (Len(Ups[m]) - 1) /\ (i - 1) + 1 = i
        BY MigrationFacts
      <4>2. UpRun(d, m)[(i - 1) + 1] = CallRun(UpRun(d, m)[i - 1], Ups[m][(i - 1) + 1])[Len(Ups[m][(i - 1) + 1])].db
        BY <4>1, UpRunNext
      <4> QED BY <4>1, <4>2
    <3> QED BY <1>1, <3>1
  <2> HIDE DEF x
  <2>2. Accepts(x, Stmt(m, i))
    BY <1>1 DEF Accepts
  <2>3. CallRun(x, Ups[m][i])[0] = [db |-> x, on |-> TRUE]
    BY <1>1, CallRunSteps
  <2>4. Len(Ups[m][i]) \in Nat /\ 1 - 1 = 0
    BY <1>1
  <2>5. CallRun(x, Ups[m][i])[1] = Ran(CallRun(x, Ups[m][i])[0], Ups[m][i][1])
    <3> DEFINE call == Ups[m][i]
    <3>1. Len(call) \in Nat /\ 1 \in 1 .. Len(call)
      BY <1>2, <2>4
    <3> HIDE DEF call
    <3>2. \A j \in 1 .. Len(call) : CallRun(x, call)[j] = Ran(CallRun(x, call)[j - 1], call[j])
      BY <3>1, CallRunSteps
    <3>3. CallRun(x, call)[1] = Ran(CallRun(x, call)[1 - 1], call[1])
      BY <3>1, <3>2
    <3> QED BY <2>4, <3>3 DEF call
  <2>6. CallRun(x, Ups[m][i])[1] = [db |-> Executed(x, Stmt(m, i)), on |-> TRUE]
    BY <2>2, <2>3, <2>5 DEF Stmt, Ran
  <2> QED BY <2>1, <2>6 DEF x
<1> QED BY <1>1, <1>3, <1>4, Zenon

\* The tables stay tables.
LEMMA CallSchema ==
    ASSUME NEW m \in Migrations, NEW i \in 1 .. Len(Ups[m]), NEW d, IsSchema(d)
    PROVE  \A j \in 0 .. Len(Ups[m][i]) : IsSchema(CallRun(d, Ups[m][i])[j].db)
<1> DEFINE call == Ups[m][i]
           G == {j \in 0 .. Len(call) : IsSchema(CallRun(d, call)[j].db)}
<1>0. Len(call) \in Nat
  BY MigrationFacts
<1>1. 0 \in G
  <2>1. CallRun(d, call)[0] = [db |-> d, on |-> TRUE]
    BY <1>0, CallRunSteps
  <2> QED BY <1>0, <2>1
<1>2. ASSUME NEW j \in 0 .. (Len(call) - 1), j \in G PROVE j + 1 \in G
  <2>1. j + 1 \in 1 .. Len(call) /\ (j + 1) - 1 = j /\ j + 1 \in 0 .. Len(call)
    BY <1>0
  <2> DEFINE x == CallRun(d, call)[j]
  <2>2. CallRun(d, call)[j + 1] = Ran(x, call[j + 1])
    BY <1>0, CallRunNext
  <2>3. IsSchema(x.db)
    BY <1>2
  <2> HIDE DEF x
  <2>4. IsSchema(Executed(x.db, call[j + 1]))
    BY <2>1, <2>3, ExecutedSchema
  <2>5. CallRun(d, call)[j + 1].db \in {x.db, Executed(x.db, call[j + 1])}
    BY <2>2 DEF Ran
  <2> QED BY <2>1, <2>3, <2>4, <2>5
<1> HIDE DEF G
<1>3. 0 .. Len(call) \subseteq G
  BY <1>0, <1>1, <1>2, IntervalInduction
<1> QED BY <1>3 DEF G

\* A migration leaves tables.
LEMMA UpSchema ==
    ASSUME NEW m \in Migrations, NEW d, IsSchema(d)
    PROVE  \A i \in 0 .. Len(Ups[m]) : IsSchema(UpRun(d, m)[i])
<1> DEFINE G == {i \in 0 .. Len(Ups[m]) : IsSchema(UpRun(d, m)[i])}
<1>0. Len(Ups[m]) \in Nat
  BY MigrationFacts
<1>1. 0 \in G
  <2>1. UpRun(d, m)[0] = d
    BY <1>0, UpRunSteps
  <2> QED BY <1>0, <2>1
<1>2. ASSUME NEW i \in 0 .. (Len(Ups[m]) - 1), i \in G PROVE i + 1 \in G
  <2>1. i + 1 \in 1 .. Len(Ups[m]) /\ (i + 1) - 1 = i /\ i + 1 \in 0 .. Len(Ups[m])
    BY <1>0
  <2> DEFINE x == UpRun(d, m)[i]
             l == Len(Ups[m][i + 1])
  <2>2. UpRun(d, m)[i + 1] = CallRun(x, Ups[m][i + 1])[l].db
    BY UpRunNext
  <2>3. IsSchema(x) /\ l \in 0 .. l
    BY <1>2, <2>1, MigrationFacts
  <2> HIDE DEF x
  <2>4. IsSchema(CallRun(x, Ups[m][i + 1])[l].db)
    BY <2>1, <2>3, CallSchema
  <2> QED BY <2>1, <2>2, <2>4
<1> HIDE DEF G
<1>3. 0 .. Len(Ups[m]) \subseteq G
  BY <1>0, <1>1, <1>2, IntervalInduction
<1> QED BY <1>3 DEF G

\* The first migrations leave tables.
LEMMA WantedSchema == \A k \in 0 .. Len(Ups) : IsSchema(Wanted(1 .. k))
<1> DEFINE G == {k \in 0 .. Len(Ups) : IsSchema(Wanted(1 .. k))}
<1>0. Len(Ups) \in Nat
  BY MigrationsAssumption
<1>1. 0 \in G
  <2>1. 1 .. 0 = {}
    OBVIOUS
  <2> QED BY <1>0, <2>1, WantedStarts DEF IsSchema, NoTables
<1>2. ASSUME NEW k \in 0 .. (Len(Ups) - 1), k \in G PROVE k + 1 \in G
  <2>1. k \in Nat /\ k < Len(Ups) /\ k + 1 \in 0 .. Len(Ups) /\ k + 1 \in Migrations
    BY <1>0 DEF Migrations
  <2> DEFINE w == Wanted(1 .. k)
             l == Len(Ups[k + 1])
  <2>2. Wanted(1 .. (k + 1)) = UpRun(w, k + 1)[l]
    BY <2>1, WantedGrows DEF Migrated
  <2>3. IsSchema(w) /\ l \in 0 .. l
    BY <1>2, <2>1, MigrationFacts
  <2> HIDE DEF w
  <2>4. IsSchema(UpRun(w, k + 1)[l])
    BY <2>1, <2>3, UpSchema
  <2> QED BY <2>1, <2>2, <2>4
<1> HIDE DEF G
<1>3. 0 .. Len(Ups) \subseteq G
  BY <1>0, <1>1, <1>2, IntervalInduction
<1> QED BY <1>3 DEF G

\* What a create or a drop makes of each table.
LEMMA ExecutedAt ==
    ASSUME NEW d, IsSchema(d), NEW s, s.k \in {"create", "drop"}, s.t \in Tables, NEW t \in Tables
    PROVE  Executed(d, s)[t] =
             IF t # s.t THEN d[t]
             ELSE IF s.k = "drop" THEN NoTable ELSE IF d[t] = NoTable THEN s.cols ELSE d[t]
<1>1. CASE s.k = "create"
  BY <1>1 DEF IsSchema, Executed
<1>2. CASE s.k = "drop"
  BY <1>2 DEF IsSchema, Executed
<1> QED BY <1>1, <1>2

\* A repeatable migration, call by call, for one of the tables.
LEMMA RepeatableAt ==
    ASSUME NEW m \in Migrations, Repeatable(m), NEW d, IsSchema(d), NEW t \in Tables,
           NEW i \in 1 .. Len(Ups[m])
    PROVE  UpRun(d, m)[i][t] =
             IF t # Stmt(m, i).t THEN UpRun(d, m)[i - 1][t]
             ELSE IF Stmt(m, i).k = "drop" THEN NoTable
             ELSE IF UpRun(d, m)[i - 1][t] = NoTable THEN Stmt(m, i).cols ELSE UpRun(d, m)[i - 1][t]
<1>0. Len(Ups[m]) \in Nat
  BY MigrationFacts
<1>1. i - 1 \in 0 .. Len(Ups[m])
  BY <1>0
<1> DEFINE x == UpRun(d, m)[i - 1]
<1>2. IsSchema(x)
  BY <1>1, UpSchema
<1>3. UpRun(d, m)[i] = Executed(x, Stmt(m, i))
  BY RepeatableSteps
<1>4. Stmt(m, i).k \in {"create", "drop"} /\ Stmt(m, i).t \in Tables
  BY RepeatableSteps
<1> HIDE DEF x
<1>5. Executed(x, Stmt(m, i))[t] =
             IF t # Stmt(m, i).t THEN x[t]
             ELSE IF Stmt(m, i).k = "drop" THEN NoTable ELSE IF x[t] = NoTable THEN Stmt(m, i).cols ELSE x[t]
  BY <1>2, <1>4, ExecutedAt
<1> QED BY <1>3, <1>5 DEF x

\* A table that no call so far is about.
LEMMA Untouched ==
    ASSUME NEW m \in Migrations, Repeatable(m), NEW d, IsSchema(d), NEW t \in Tables,
           NEW i \in 0 .. Len(Ups[m]), ~Mentions(m, i, t)
    PROVE  UpRun(d, m)[i][t] = d[t]
<1>0. Len(Ups[m]) \in Nat /\ i \in Nat
  BY MigrationFacts
<1> DEFINE G == {j \in 0 .. i : UpRun(d, m)[j][t] = d[t]}
<1>1. 0 \in G
  BY <1>0, UpRunSteps
<1>2. ASSUME NEW j \in 0 .. (i - 1), j \in G PROVE j + 1 \in G
  <2>1. j + 1 \in 1 .. Len(Ups[m]) /\ (j + 1) - 1 = j /\ j + 1 \in 1 .. i /\ j + 1 \in 0 .. i
    BY <1>0
  <2>2. Stmt(m, j + 1).t # t
    BY <2>1 DEF Mentions
  <2>3. UpRun(d, m)[j + 1][t] = UpRun(d, m)[(j + 1) - 1][t]
    BY <2>1, <2>2, RepeatableAt
  <2> QED BY <1>2, <2>1, <2>3
<1> HIDE DEF G
<1>3. 0 .. i \subseteq G
  BY <1>0, <1>1, <1>2, IntervalInduction
<1>4. i \in 0 .. i
  BY <1>0
<1> QED BY <1>3, <1>4 DEF G

\* A table that is there stays as it is when the migration never drops it.
LEMMA KeptTable ==
    ASSUME NEW m \in Migrations, Repeatable(m), NEW d, IsSchema(d), NEW t \in Tables,
           ~DropsIn(m, Len(Ups[m]), t),
           NEW i \in 0 .. Len(Ups[m]), UpRun(d, m)[i][t] # NoTable, NEW j \in i .. Len(Ups[m])
    PROVE  UpRun(d, m)[j][t] = UpRun(d, m)[i][t]
<1>0. Len(Ups[m]) \in Nat /\ i \in Nat /\ j - i \in Nat
  BY MigrationFacts
<1> DEFINE G == {k \in 0 .. (j - i) : UpRun(d, m)[i + k][t] = UpRun(d, m)[i][t]}
<1>1. 0 \in G
  <2>1. i + 0 = i /\ 0 \in 0 .. (j - i)
    BY <1>0
  <2> QED BY <2>1
<1>2. ASSUME NEW k \in 0 .. ((j - i) - 1), k \in G PROVE k + 1 \in G
  <2>1. i + (k + 1) \in 1 .. Len(Ups[m]) /\ (i + (k + 1)) - 1 = i + k /\ k + 1 \in 0 .. (j - i)
    BY <1>0
  <2>2. ~(Stmt(m, i + (k + 1)).k = "drop" /\ Stmt(m, i + (k + 1)).t = t)
    BY <2>1 DEF DropsIn
  <2>3. UpRun(d, m)[i + k][t] # NoTable
    BY <1>2
  <2>4. UpRun(d, m)[i + (k + 1)][t] = UpRun(d, m)[(i + (k + 1)) - 1][t]
    <3> DEFINE j1 == i + (k + 1)
    <3>1. j1 \in 1 .. Len(Ups[m]) /\ ~(Stmt(m, j1).k = "drop" /\ Stmt(m, j1).t = t) /\ UpRun(d, m)[j1 - 1][t] # NoTable
      BY <2>1, <2>2, <2>3
    <3> HIDE DEF j1
    <3>2. UpRun(d, m)[j1][t] = UpRun(d, m)[j1 - 1][t]
      BY <3>1, RepeatableAt
    <3> QED BY <3>2 DEF j1
  <2> QED BY <1>2, <2>1, <2>4
<1> HIDE DEF G
<1>3. 0 .. (j - i) \subseteq G
  BY <1>0, <1>1, <1>2, IntervalInduction
<1>4. j - i \in 0 .. (j - i) /\ i + (j - i) = j
  BY <1>0
<1>5. UpRun(d, m)[i + (j - i)][t] = UpRun(d, m)[i][t]
  BY <1>3, <1>4 DEF G
<1> QED BY <1>4, <1>5

\* A table that a call made, of a migration that never drops it, is there.
LEMMA Made ==
    ASSUME NEW m \in Migrations, Repeatable(m), NEW d, IsSchema(d), NEW t \in Tables,
           ~DropsIn(m, Len(Ups[m]), t), NEW i \in 0 .. Len(Ups[m]), Mentions(m, i, t)
    PROVE  UpRun(d, m)[i][t] # NoTable
<1>0. Len(Ups[m]) \in Nat /\ i \in Nat
  BY MigrationFacts
<1>1. PICK j \in 1 .. i : Stmt(m, j).t = t
  BY DEF Mentions
<1>2. j \in 1 .. Len(Ups[m]) /\ j \in 0 .. Len(Ups[m]) /\ i \in j .. Len(Ups[m])
  BY <1>0
<1>3. Stmt(m, j).k = "create" /\ Stmt(m, j).cols # NoTable
  <2>1. Stmt(m, j).k # "drop"
    BY <1>1, <1>2 DEF DropsIn
  <2>2. Stmt(m, j).k \in {"create", "drop"}
    BY <1>2, RepeatableSteps
  <2>3. Stmt(m, j).k = "create" => Stmt(m, j).cols # NoTable
    BY <1>2, RepeatableSteps
  <2> QED BY <2>1, <2>2, <2>3
<1>4. UpRun(d, m)[j][t] # NoTable
  BY <1>1, <1>2, <1>3, RepeatableAt
<1>5. UpRun(d, m)[i][t] = UpRun(d, m)[j][t]
  BY <1>2, <1>4, KeptTable
<1> QED BY <1>4, <1>5

\* The tables between two kills of a repeatable migration.
LEMMA BetweenBegins ==
    ASSUME NEW m \in Migrations, NEW d, NEW y, NEW i \in 0 .. Len(Ups[m]), Between(m, d, y, i)
    PROVE  Between(m, d, y, 0)
<1>1. SUFFICES ASSUME NEW t \in Tables
               PROVE  /\ ~DropsIn(m, 0, t) /\ ~Mentions(m, 0, t)
                      /\ ~DropsIn(m, Len(Ups[m]), t) => y[t] \in {d[t], UpRun(d, m)[Len(Ups[m])][t]}
  BY Zenon DEF Between
<1>2. ~DropsIn(m, 0, t) /\ ~Mentions(m, 0, t)
  BY DEF DropsIn, Mentions
<1>3. ~DropsIn(m, Len(Ups[m]), t) => y[t] \in {d[t], UpRun(d, m)[Len(Ups[m])][t]}
  BY Zenon DEF Between
<1> QED BY <1>2, <1>3

\* Nothing done yet, or all done and not logged.
LEMMA BetweenItself ==
    ASSUME NEW m \in Migrations, NEW d
    PROVE  Between(m, d, d, 0) /\ Between(m, d, UpRun(d, m)[Len(Ups[m])], 0)
<1>1. ASSUME NEW t PROVE ~DropsIn(m, 0, t) /\ ~Mentions(m, 0, t)
  BY DEF DropsIn, Mentions
<1> QED BY <1>1, Zenon DEF Between

\* The next call.
LEMMA BetweenStep ==
    ASSUME NEW m \in Migrations, Repeatable(m), NEW d, IsSchema(d), NEW y, IsSchema(y),
           NEW i \in 1 .. Len(Ups[m]), Between(m, d, y, i - 1)
    PROVE  Between(m, d, Executed(y, Stmt(m, i)), i)
<1> DEFINE n == Len(Ups[m])
           s == Stmt(m, i)
           F(j) == UpRun(d, m)[j]
           z == Executed(y, s)
<1>0. n \in Nat /\ i \in 0 .. n /\ i - 1 \in 0 .. n /\ n \in i .. n /\ n \in 0 .. n
  BY MigrationFacts
<1>1. s.k \in {"create", "drop"} /\ s.t \in Tables /\ (s.k = "create" => s.cols # NoTable)
  BY RepeatableSteps
<1> SUFFICES ASSUME NEW t \in Tables
             PROVE  /\ DropsIn(m, i, t) \/ (Mentions(m, i, t) /\ ~DropsIn(m, n, t)) => z[t] = F(i)[t]
                    /\ ~DropsIn(m, n, t) => z[t] \in {d[t], F(n)[t]}
  BY Zenon DEF Between
<1>2. /\ DropsIn(m, i - 1, t) \/ (Mentions(m, i - 1, t) /\ ~DropsIn(m, n, t)) => y[t] = F(i - 1)[t]
      /\ ~DropsIn(m, n, t) => y[t] \in {d[t], F(n)[t]}
  BY Zenon DEF Between
<1>3. /\ DropsIn(m, i, t) <=> DropsIn(m, i - 1, t) \/ (s.k = "drop" /\ s.t = t)
      /\ Mentions(m, i, t) <=> Mentions(m, i - 1, t) \/ s.t = t
  <2>1. \A j : j \in 1 .. i <=> (j \in 1 .. (i - 1) \/ j = i)
    BY <1>0
  <2> QED BY <2>1, Zenon DEF DropsIn, Mentions
<1>4. z[t] = IF t # s.t THEN y[t] ELSE IF s.k = "drop" THEN NoTable ELSE IF y[t] = NoTable THEN s.cols ELSE y[t]
  BY <1>1, ExecutedAt
<1>5. F(i)[t] = IF t # s.t THEN F(i - 1)[t] ELSE IF s.k = "drop" THEN NoTable
                ELSE IF F(i - 1)[t] = NoTable THEN s.cols ELSE F(i - 1)[t]
  BY RepeatableAt
<1>6. DropsIn(m, i, t) => DropsIn(m, n, t)
  <2>1. 1 .. i \subseteq 1 .. n
    BY <1>0
  <2> QED BY <2>1 DEF DropsIn
<1>7. ~Mentions(m, i - 1, t) => F(i - 1)[t] = d[t]
  BY <1>0, Untouched
<1>8. ~DropsIn(m, n, t) /\ F(i)[t] # NoTable => F(n)[t] = F(i)[t]
  BY <1>0, KeptTable
<1>9. ~DropsIn(m, n, t) /\ d[t] # NoTable => F(n)[t] = d[t]
  <2>1. UpRun(d, m)[0] = d
    BY <1>0, UpRunSteps
  <2>2. 0 \in 0 .. n /\ n \in 0 .. n
    BY <1>0
  <2> QED BY <2>1, <2>2, KeptTable
<1> HIDE DEF n, s, F, z
<1>10. CASE t # s.t
  BY <1>2, <1>3, <1>4, <1>5, <1>10
<1>11. CASE t = s.t /\ s.k = "drop"
  BY <1>3, <1>4, <1>5, <1>6, <1>11
<1>12. CASE t = s.t /\ s.k = "create" /\ DropsIn(m, i - 1, t)
  BY <1>2, <1>3, <1>4, <1>5, <1>6, <1>12
<1>13. CASE t = s.t /\ s.k = "create" /\ ~DropsIn(m, i - 1, t)
  <2>1. CASE DropsIn(m, n, t)
    BY <1>3, <1>13, <2>1
  <2>2. CASE ~DropsIn(m, n, t) /\ Mentions(m, i - 1, t)
    <3>1. z[t] = F(i)[t]
      BY <1>2, <1>4, <1>5, <1>13, <2>2
    <3>2. F(i)[t] # NoTable
      BY <1>1, <1>5, <1>13
    <3> QED BY <1>8, <2>2, <3>1, <3>2
  <2>3. CASE ~DropsIn(m, n, t) /\ ~Mentions(m, i - 1, t)
    <3>1. F(i)[t] = (IF d[t] = NoTable THEN s.cols ELSE d[t]) /\ F(i)[t] # NoTable
      BY <1>1, <1>5, <1>7, <1>13, <2>3
    <3>2. F(n)[t] = F(i)[t]
      BY <1>8, <2>3, <3>1
    <3>3. y[t] \in {d[t], F(i)[t]}
      BY <1>2, <2>3, <3>2
    <3>4. z[t] = F(i)[t]
      BY <1>4, <1>13, <3>1, <3>3
    <3> QED BY <3>2, <3>4
  <2> QED BY <2>1, <2>2, <2>3
<1> QED BY <1>1, <1>10, <1>11, <1>12, <1>13

\* After the last call nothing tells how often it was begun.
LEMMA BetweenEnds ==
    ASSUME NEW m \in Migrations, Repeatable(m), NEW d, IsSchema(d), NEW y, IsSchema(y),
           Between(m, d, y, Len(Ups[m]))
    PROVE  y = UpRun(d, m)[Len(Ups[m])]
<1> DEFINE n == Len(Ups[m])
           F == UpRun(d, m)[n]
<1>0. n \in Nat /\ n \in 0 .. n
  BY MigrationFacts
<1>1. IsSchema(F)
  BY <1>0, UpSchema
<1>2. ASSUME NEW t \in Tables PROVE y[t] = F[t]
  <2>1. /\ DropsIn(m, n, t) \/ (Mentions(m, n, t) /\ ~DropsIn(m, n, t)) => y[t] = F[t]
        /\ ~DropsIn(m, n, t) => y[t] \in {d[t], F[t]}
    BY Zenon DEF Between
  <2>2. ~Mentions(m, n, t) => F[t] = d[t]
    BY <1>0, Untouched
  <2> HIDE DEF n, F
  <2> QED BY <2>1, <2>2
<1> HIDE DEF F
<1>3. y = F
  BY <1>1, <1>2 DEF IsSchema
<1> QED BY <1>3 DEF F

\* From such tables the migration makes what it makes from the first ones.
LEMMA BegunAgain ==
    ASSUME NEW m \in Migrations, Repeatable(m), NEW d, IsSchema(d), NEW y, IsSchema(y),
           Between(m, d, y, 0)
    PROVE  Migrated(y, m) = Migrated(d, m)
<1> DEFINE n == Len(Ups[m])
           G == {i \in 0 .. n : Between(m, d, UpRun(y, m)[i], i)}
<1>0. n \in Nat /\ n \in 0 .. n
  BY MigrationFacts
<1>1. 0 \in G
  <2>1. UpRun(y, m)[0] = y
    BY <1>0, UpRunSteps
  <2> QED BY <1>0, <2>1
<1>2. ASSUME NEW i \in 0 .. (n - 1), i \in G PROVE i + 1 \in G
  <2> DEFINE x == UpRun(y, m)[i]
  <2>1. i + 1 \in 1 .. n /\ (i + 1) - 1 = i /\ i \in 0 .. n /\ i + 1 \in 0 .. n
    BY <1>0
  <2>2. IsSchema(x)
    BY <2>1, UpSchema
  <2>3. UpRun(y, m)[i + 1] = Executed(UpRun(y, m)[(i + 1) - 1], Stmt(m, i + 1))
    BY <2>1, RepeatableSteps, Zenon
  <2>4. UpRun(y, m)[i + 1] = Executed(x, Stmt(m, i + 1))
    BY <2>1, <2>3
  <2>5. Between(m, d, x, i)
    BY <1>2
  <2> HIDE DEF x
  <2>6. Between(m, d, Executed(x, Stmt(m, i + 1)), i + 1)
    <3>1. Between(m, d, x, (i + 1) - 1)
      BY <2>1, <2>5
    <3> QED BY <2>1, <2>2, <3>1, BetweenStep
  <2> QED BY <2>1, <2>4, <2>6
<1> HIDE DEF G
<1>3. 0 .. n \subseteq G
  BY <1>0, <1>1, <1>2, IntervalInduction
<1>4. Between(m, d, UpRun(y, m)[n], n)
  BY <1>0, <1>3 DEF G
<1>5. IsSchema(UpRun(y, m)[n])
  BY <1>0, UpSchema
<1> QED BY <1>4, <1>5, BetweenEnds DEF Migrated

\* Migrations that are applied, logged or not.
LEMMA WantedIsApplied ==
    ASSUME NEW k \in 0 .. Len(Ups)
    PROVE  /\ AppliedTo(Wanted(1 .. k), k)
           /\ k < Len(Ups) /\ Repeatable(k + 1) => AppliedTo(Wanted(1 .. (k + 1)), k)
<1>0. Len(Ups) \in Nat /\ k \in Nat
  BY MigrationsAssumption
<1>1. CASE k < Len(Ups) /\ Repeatable(k + 1)
  <2>1. k + 1 \in Migrations
    BY <1>0, <1>1 DEF Migrations
  <2>2. Wanted(1 .. (k + 1)) = UpRun(Wanted(1 .. k), k + 1)[Len(Ups[k + 1])]
    BY <1>0, <1>1, WantedGrows DEF Migrated
  <2> QED BY <1>1, <2>1, <2>2, BetweenItself DEF AppliedTo
<1>2. CASE ~(k < Len(Ups) /\ Repeatable(k + 1))
  BY <1>2 DEF AppliedTo
<1> QED BY <1>1, <1>2

\* An invariant of migrations: it implies SchemaIsWanted.
LEMMA MigrationsInvImplies == MigrationsInv => SchemaIsWanted
<1> SUFFICES ASSUME MigrationsInv, ~torn, cmd.pc \in {"quiet", "pick"} PROVE SchemaIsWanted
  BY DEF SchemaIsWanted
<1>0. Len(Ups) \in Nat
  BY MigrationsAssumption
<1>1. PICK k \in 0 .. Len(Ups) : Logged(k)
  BY DEF MigrationsInv
<1>2. logged = 1 .. k /\ AppliedTo(schema, k)
  BY <1>1 DEF Logged
<1>3. CASE ~(k < Len(Ups) /\ Repeatable(k + 1))
  BY <1>2, <1>3 DEF AppliedTo, SchemaIsWanted
<1>4. CASE k < Len(Ups) /\ Repeatable(k + 1)
  <2>1. k + 1 \in Migrations /\ k + 1 \in Migrations \ logged
    BY <1>0, <1>2, <1>4 DEF Migrations
  <2>2. Between(k + 1, Wanted(1 .. k), schema, 0)
    BY <1>2, <1>4 DEF AppliedTo
  <2>3. IsSchema(schema) /\ IsSchema(Wanted(1 .. k))
    BY WantedSchema DEF MigrationsInv
  <2>4. Migrated(schema, k + 1) = Migrated(Wanted(1 .. k), k + 1)
    BY <1>4, <2>1, <2>2, <2>3, BegunAgain
  <2> QED BY <1>2, <1>4, <2>1, <2>4 DEF SchemaIsWanted
<1> QED BY <1>3, <1>4

\* At first no table is there.
LEMMA MigrationsStart == MigrationsInit => MigrationsInv
<1> SUFFICES ASSUME MigrationsInit PROVE MigrationsInv
  OBVIOUS
<1>0. Len(Ups) \in Nat /\ 0 \in 0 .. Len(Ups) /\ 1 .. 0 = {}
  BY MigrationsAssumption
<1>1. IsSchema(schema) /\ CommandShape
  BY DEF MigrationsInit, IsSchema, NoTables, CommandShape, Quiet
<1>2. schema = Wanted(1 .. 0) /\ logged = 1 .. 0
  BY <1>0, WantedStarts DEF MigrationsInit
<1>3. AppliedTo(schema, 0)
  BY <1>0, <1>2, WantedIsApplied
<1>4. cmd.pc = "quiet"
  BY DEF MigrationsInit, Quiet
<1>5. Logged(0)
  BY <1>2, <1>3, <1>4 DEF Logged
<1> QED BY <1>0, <1>1, <1>5 DEF MigrationsInv

\* The next migration of a command, and what is left after it.
LEMMA LeftNext ==
    ASSUME NEW c, NEW k \in 0 .. Len(Ups), Left(c, k), {m \in Migrations : m \notin c.done /\ m > c.m} # {}
    PROVE  LET next == {m \in Migrations : m \notin c.done /\ m > c.m}
               first == CHOOSE m \in next : \A n \in next : m <= n IN
           /\ k < Len(Ups) /\ first = k + 1 /\ k + 1 \in Migrations
           /\ \A d : d.done = c.done /\ d.m = k + 1 => Left(d, k + 1)
<1> DEFINE next == {m \in Migrations : m \notin c.done /\ m > c.m}
           first == CHOOSE m \in next : \A n \in next : m <= n
<1>0. Len(Ups) \in Nat /\ k \in Nat
  BY MigrationsAssumption
<1>1. next = (k + 1) .. Len(Ups)
  BY DEF Left
<1>2. k < Len(Ups) /\ k + 1 \in Migrations
  BY <1>0, <1>1 DEF Migrations
<1>3. first = k + 1
  <2> HIDE DEF next
  <2>1. k + 1 \in next /\ \A n \in next : k + 1 <= n
    BY <1>0, <1>1, <1>2
  <2>2. first \in next /\ \A n \in next : first <= n
    BY <2>1
  <2> HIDE DEF first
  <2>3. first <= k + 1 /\ k + 1 <= first /\ first \in Nat
    BY <1>0, <1>1, <2>1, <2>2
  <2> QED BY <1>0, <2>3
<1>4. ASSUME NEW d, d.done = c.done, d.m = k + 1 PROVE Left(d, k + 1)
  <2>1. ASSUME NEW m \in Migrations
        PROVE  m \notin d.done /\ m > d.m <=> m \in ((k + 1) + 1) .. Len(Ups)
    <3>1. m \in next <=> m \in (k + 1) .. Len(Ups)
      BY <1>1
    <3>2. m > k + 1 => m \in (k + 1) .. Len(Ups)
      BY <1>0 DEF Migrations
    <3>3. m > k + 1 => m \notin c.done
      BY <3>1, <3>2
    <3> QED BY <1>0, <1>4, <3>3 DEF Migrations
  <2>2. ((k + 1) + 1) .. Len(Ups) \subseteq Migrations
    BY <1>0 DEF Migrations
  <2> QED BY <2>1, <2>2 DEF Left
<1> QED BY <1>2, <1>3, <1>4

\* The migration ends: its calls made the tables that are wanted.
LEMMA LastCall ==
    ASSUME NEW k \in 0 .. Len(Ups), k < Len(Ups)
    PROVE  /\ k + 1 \in Migrations /\ IsSchema(Wanted(1 .. k))
           /\ Wanted(1 .. (k + 1)) = UpRun(Wanted(1 .. k), k + 1)[Len(Ups[k + 1])]
<1>0. Len(Ups) \in Nat /\ k \in Nat
  BY MigrationsAssumption
<1>1. k + 1 \in Migrations
  BY <1>0 DEF Migrations
<1>2. Wanted(1 .. (k + 1)) = UpRun(Wanted(1 .. k), k + 1)[Len(Ups[k + 1])]
  BY <1>0, WantedGrows DEF Migrated
<1> QED BY <1>1, <1>2, WantedSchema

\* A command begins.
LEMMA CommandKeeps ==
    ASSUME MigrationsInv, NEW fresh \in BOOLEAN, Command(fresh) PROVE MigrationsInv'
<1>1. cmd.pc = "quiet" /\ cmd'.pc \in {"list", "ensure"} /\ cmd'.m = 0 /\ UNCHANGED <<schema, logged, torn>>
  BY DEF Command, Quiet
<1>2. (~torn => IsSchema(schema))' /\ CommandShape'
  BY DEF Command, Quiet, MigrationsInv, IsSchema, CommandShape
<1>3. ASSUME NEW k \in 0 .. Len(Ups), Logged(k) PROVE Logged(k)'
  BY <1>1, <1>3 DEF Logged, AppliedTo, Between
<1> QED BY <1>1, <1>2, <1>3, Zenon DEF MigrationsInv

\* A command is killed: what it began can be begun again.
LEMMA KilledCommandKeeps ==
    ASSUME MigrationsInv, KilledCommand PROVE MigrationsInv'
<1>0. Len(Ups) \in Nat
  BY MigrationsAssumption
<1>1. cmd'.pc = "quiet" /\ UNCHANGED <<schema, logged>> /\ CommandShape'
  BY DEF KilledCommand, Quiet, CommandShape
<1>3. ASSUME ~torn' PROVE ~torn /\ cmd.pc # "erase"
  BY <1>3 DEF KilledCommand, Tears
<1>2. (~torn => IsSchema(schema))'
  BY <1>1, <1>3 DEF MigrationsInv, IsSchema
<1>4. ASSUME ~torn', NEW k \in 0 .. Len(Ups), Logged(k) PROVE AppliedTo(schema, k)
  <2> USE <1>3, <1>4
  <2>1. CASE cmd.pc \in {"list", "ensure", "read", "pick"}
    BY <2>1 DEF Logged
  <2>2. CASE cmd.pc \in {"up", "log"} /\ Repeatable(cmd.m)
    <3>1. k < Len(Ups) /\ cmd.m = k + 1
      BY <2>2 DEF Logged
    <3>2. CASE cmd.pc = "log"
      BY <2>2, <3>1, <3>2, WantedIsApplied DEF Logged
    <3>3. CASE cmd.pc = "up"
      <4>1. k + 1 \in Migrations /\ Len(Ups[k + 1]) \in Nat
        BY <3>1, LastCall, MigrationFacts
      <4>2. cmd.call \in 1 .. Len(Ups[k + 1]) /\ Between(k + 1, Wanted(1 .. k), schema, cmd.call - 1)
        BY <2>2, <3>1, <3>3 DEF Logged, UnderWay
      <4>3. cmd.call - 1 \in 0 .. Len(Ups[k + 1])
        BY <4>1, <4>2
      <4>4. Between(k + 1, Wanted(1 .. k), schema, 0)
        BY <4>1, <4>2, <4>3, BetweenBegins
      <4> QED BY <2>2, <3>1, <4>4 DEF AppliedTo
    <3> QED BY <2>2, <3>2, <3>3
  <2>3. CASE cmd.pc = "up" /\ cmd.call = 1 /\ cmd.stmt = 1 /\ ~Repeatable(cmd.m)
    <3>1. k < Len(Ups) /\ cmd.m = k + 1 /\ k + 1 \in Migrations
      BY <2>3, LastCall DEF Logged
    <3>2. 1 \in 1 .. Len(Ups[k + 1])
      BY <2>3, <3>1 DEF Logged, UnderWay
    <3>3. CallRun(UpRun(Wanted(1 .. k), k + 1)[1 - 1], Ups[k + 1][1])[1 - 1] = [db |-> schema, on |-> TRUE]
      BY <2>3, <3>1 DEF Logged, UnderWay
    <3>4. CallRun(UpRun(Wanted(1 .. k), k + 1)[0], Ups[k + 1][1])[0] = [db |-> schema, on |-> TRUE]
      BY <3>3
    <3>5. Len(Ups[k + 1][1]) \in Nat /\ Len(Ups[k + 1]) \in Nat
      BY <3>1, <3>2, MigrationFacts
    <3> DEFINE x == UpRun(Wanted(1 .. k), k + 1)[0]
               c == Ups[k + 1][1]
    <3>6. CallRun(x, c)[0] = [db |-> x, on |-> TRUE]
      <4> HIDE DEF x
      <4>1. Len(c) \in Nat
        BY <3>5
      <4> HIDE DEF c
      <4> QED BY <4>1, CallRunSteps
    <3>7. x = Wanted(1 .. k)
      BY <3>5, UpRunSteps
    <3>8. schema = Wanted(1 .. k)
      BY <3>4, <3>6, <3>7
    <3> QED BY <2>3, <3>1, <3>8 DEF AppliedTo
  <2>4. cmd.pc \in {"up", "log"} => cmd.m # 0
    BY <1>0 DEF Logged
  <2>5. cmd.pc = "log" \/ (cmd.pc = "up" /\ ~(cmd.call = 1 /\ cmd.stmt = 1)) => Repeatable(cmd.m)
    BY <2>4 DEF KilledCommand, Tears
  <2>6. cmd.pc \in {"list", "ensure", "read", "pick", "up", "log"}
    BY DEF MigrationsInv, CommandShape, KilledCommand
  <2> QED BY <2>1, <2>2, <2>3, <2>5, <2>6
<1>5. ASSUME ~torn', NEW k \in 0 .. Len(Ups), Logged(k) PROVE Logged(k)'
  <2>1. AppliedTo(schema, k)
    BY <1>4, <1>5
  <2>2. AppliedTo(schema, k)'
    BY <1>1, <2>1 DEF AppliedTo, Between
  <2>3. logged = 1 .. k
    BY <1>3, <1>5 DEF Logged
  <2> QED BY <1>1, <2>2, <2>3 DEF Logged
<1>6. ASSUME ~torn' PROVE \E k \in 0 .. Len(Ups) : Logged(k)'
  BY <1>3, <1>5, <1>6, Zenon DEF MigrationsInv
<1> QED BY <1>1, <1>2, <1>6, Zenon DEF MigrationsInv

\* The erasure of a fresh.
LEMMA FreshKeeps ==
    ASSUME MigrationsInv, ListTables \/ (\E t \in cmd.done : EraseTable(t)) \/ Erased
    PROVE  MigrationsInv'
<1>0. Len(Ups) \in Nat /\ 0 \in 0 .. Len(Ups) /\ 1 .. 0 = {}
  BY MigrationsAssumption
<1>1. CASE ListTables
  <2>1. UNCHANGED <<schema, logged, torn>> /\ cmd.pc = "list" /\ cmd'.pc \in {"erase", "ensure"} /\ cmd'.m = cmd.m
        /\ CommandShape'
    BY <1>1 DEF ListTables, MigrationsInv, CommandShape
  <2>2. ASSUME NEW k \in 0 .. Len(Ups), Logged(k) PROVE Logged(k)'
    BY <2>1, <2>2 DEF Logged, AppliedTo, Between
  <2> QED BY <2>1, <2>2, Zenon DEF MigrationsInv, IsSchema
<1>2. ASSUME NEW t \in cmd.done, EraseTable(t) PROVE MigrationsInv'
  <2>1. torn' = torn /\ cmd.pc = "erase" /\ cmd'.pc = "erase" /\ CommandShape'
    BY <1>2 DEF EraseTable, MigrationsInv, CommandShape
  <2>2. ~torn => IsSchema(schema')
    <3>1. ~torn => IsSchema(schema)
      BY DEF MigrationsInv
    <3>2. schema' = schema \/ schema' = [schema EXCEPT ![t] = NoTable]
      BY <1>2 DEF EraseTable
    <3> QED BY <3>1, <3>2 DEF IsSchema
  <2>3. Logged(0)'
    BY <2>1 DEF Logged
  <2> QED BY <1>0, <2>1, <2>2, <2>3 DEF MigrationsInv
<1>3. CASE Erased
  <2>1. UNCHANGED <<schema, logged>> /\ torn' = (schema # NoTables \/ logged # {}) /\ cmd'.pc = "ensure" /\ CommandShape'
    BY <1>3 DEF Erased, MigrationsInv, CommandShape
  <2>2. ASSUME ~torn' PROVE Logged(0)'
    <3>1. schema' = Wanted(1 .. 0) /\ logged' = 1 .. 0
      BY <1>0, <2>1, <2>2, WantedStarts
    <3>2. AppliedTo(schema', 0)
      BY <1>0, <3>1, WantedIsApplied
    <3> QED BY <2>1, <3>1, <3>2 DEF Logged
  <2>3. ~torn' => IsSchema(schema')
    BY <2>1 DEF IsSchema, NoTables
  <2> QED BY <1>0, <2>1, <2>2, <2>3 DEF MigrationsInv
<1> QED BY <1>1, <1>2, <1>3

\* The migration table is made and read.
LEMMA ReadKeeps ==
    ASSUME MigrationsInv, EnsureMigrationTable \/ GetExecutedMigrations
    PROVE  MigrationsInv'
<1>0. Len(Ups) \in Nat
  BY MigrationsAssumption
<1>1. CASE EnsureMigrationTable
  <2>1. UNCHANGED <<schema, logged, torn>> /\ cmd.pc = "ensure" /\ cmd'.pc \in {"read", "quiet"}
        /\ CommandShape'
    BY <1>1 DEF EnsureMigrationTable, MigrationsInv, CommandShape, Quiet
  <2>2. ASSUME NEW k \in 0 .. Len(Ups), Logged(k) PROVE Logged(k)'
    BY <2>1, <2>2 DEF Logged, AppliedTo, Between
  <2> QED BY <2>1, <2>2, Zenon DEF MigrationsInv, IsSchema
<1>2. CASE GetExecutedMigrations
  <2>1. UNCHANGED <<schema, logged>> /\ cmd.pc = "read" /\ cmd'.pc = "pick" /\ cmd'.m = 0 /\ CommandShape'
    BY <1>2 DEF GetExecutedMigrations, MigrationsInv, CommandShape
  <2>2. ~torn' => ~torn /\ cmd'.done = logged
    BY <1>2 DEF GetExecutedMigrations, MigrationsInv, CommandShape
  <2>3. ASSUME ~torn', NEW k \in 0 .. Len(Ups), Logged(k) PROVE Logged(k)'
    <3>1. logged = 1 .. k /\ AppliedTo(schema, k)
      BY <2>1, <2>3 DEF Logged
    <3>2. Left(cmd', k)
      BY <1>0, <2>1, <2>2, <2>3, <3>1 DEF Left, Migrations
    <3> QED BY <2>1, <3>1, <3>2 DEF Logged, AppliedTo, Between
  <2> QED BY <2>1, <2>2, <2>3, Zenon DEF MigrationsInv, IsSchema
<1> QED BY <1>1, <1>2

\* The next migration is begun.
LEMMA PickKeeps ==
    ASSUME MigrationsInv, Pick PROVE MigrationsInv'
<1> DEFINE next == {m \in Migrations : m \notin cmd.done /\ m > cmd.m}
           first == CHOOSE m \in next : \A n \in next : m <= n
<1>0. Len(Ups) \in Nat
  BY MigrationsAssumption
<1>1. UNCHANGED <<schema, logged, torn>> /\ cmd.pc = "pick"
  BY DEF Pick
<1>2. CASE cmd' = Quiet
  <2>1. cmd'.pc = "quiet" /\ CommandShape'
    BY <1>2 DEF Quiet, CommandShape
  <2>2. ASSUME NEW k \in 0 .. Len(Ups), Logged(k) PROVE Logged(k)'
    BY <1>1, <2>1, <2>2 DEF Logged, AppliedTo, Between
  <2> QED BY <1>1, <2>1, <2>2, Zenon DEF MigrationsInv, IsSchema
<1>3. CASE /\ next # {}
           /\ cmd' = [cmd EXCEPT !.pc = IF Len(Ups[first]) = 0 THEN "log" ELSE "up",
                                !.call = 1, !.stmt = 1, !.m = first]
  <2> HIDE DEF first
  <2>1. /\ cmd'.pc = (IF Len(Ups[first]) = 0 THEN "log" ELSE "up")
        /\ cmd'.call = 1 /\ cmd'.stmt = 1 /\ cmd'.m = first /\ cmd'.done = cmd.done /\ CommandShape'
    BY <1>3 DEF MigrationsInv, CommandShape
  <2>2. ASSUME ~torn, NEW k \in 0 .. Len(Ups), Logged(k) PROVE Logged(k)'
    <3> DEFINE w == Wanted(1 .. k)
    <3>1. Left(cmd, k) /\ logged = 1 .. k /\ AppliedTo(schema, k)
      BY <1>1, <2>2 DEF Logged
    <3>2. /\ k < Len(Ups) /\ first = k + 1 /\ k + 1 \in Migrations
          /\ \A d : d.done = cmd.done /\ d.m = k + 1 => Left(d, k + 1)
      BY <1>3, <3>1, LeftNext, Zenon DEF first
    <3>3. Left(cmd', k + 1)
      BY <2>1, <3>2
    <3>4. Len(Ups[k + 1]) \in Nat /\ UpRun(w, k + 1)[0] = w /\ IsSchema(w)
      <4>1. Len(Ups[k + 1]) \in Nat /\ IsSchema(w)
        BY <3>2, MigrationFacts, WantedSchema
      <4> HIDE DEF w
      <4> QED BY <4>1, UpRunSteps
    <3>5. IF Repeatable(k + 1) THEN Between(k + 1, w, schema, 0) ELSE schema = w
      BY <3>1, <3>2 DEF AppliedTo
    <3>6. CASE Len(Ups[k + 1]) = 0
      <4>1. Repeatable(k + 1)
        BY <3>6 DEF Repeatable
      <4>2. schema = UpRun(w, k + 1)[0]
        <5> HIDE DEF w
        <5>1. Between(k + 1, w, schema, Len(Ups[k + 1])) /\ IsSchema(schema)
          BY <3>5, <3>6, <4>1, <2>2 DEF MigrationsInv
        <5> QED BY <3>2, <3>4, <3>6, <4>1, <5>1, BetweenEnds
      <4>3. schema = Wanted(1 .. (k + 1))
        BY <3>2, <3>6, <4>2, LastCall
      <4> QED BY <1>1, <2>1, <3>1, <3>2, <3>3, <3>6, <4>3 DEF Logged
    <3>7. CASE Len(Ups[k + 1]) # 0
      <4>1. 1 \in 1 .. Len(Ups[k + 1])
        BY <3>4, <3>7
      <4>2. Len(Ups[k + 1][1]) \in Nat \ {0}
        BY <3>2, <4>1, MigrationFacts
      <4>3. CASE Repeatable(k + 1)
        <5>1. UnderWay(cmd', schema, w)
          BY <2>1, <3>2, <3>5, <4>1, <4>2, <4>3 DEF UnderWay
        <5> QED BY <1>1, <2>1, <3>1, <3>2, <3>3, <3>7, <5>1 DEF Logged
      <4>4. CASE ~Repeatable(k + 1)
        <5> DEFINE c == Ups[k + 1][1]
        <5>1. CallRun(w, c)[0] = [db |-> w, on |-> TRUE]
          <6>1. Len(c) \in Nat
            BY <4>2
          <6> HIDE DEF w, c
          <6> QED BY <6>1, CallRunSteps
        <5>2. CallRun(UpRun(w, k + 1)[1 - 1], c)[1 - 1] = [db |-> schema, on |-> TRUE]
          BY <3>4, <3>5, <4>4, <5>1
        <5>3. UnderWay(cmd', schema, w)
          BY <2>1, <3>2, <4>1, <4>2, <4>4, <5>2 DEF UnderWay
        <5> QED BY <1>1, <2>1, <3>1, <3>2, <3>3, <3>7, <5>3 DEF Logged
      <4> QED BY <4>3, <4>4
    <3> QED BY <3>6, <3>7
  <2> QED BY <1>1, <2>1, <2>2, Zenon DEF MigrationsInv, IsSchema
<1> QED BY <1>2, <1>3 DEF Pick

\* A migration is logged.
LEMMA LogKeeps ==
    ASSUME MigrationsInv, LogMigration PROVE MigrationsInv'
<1>0. Len(Ups) \in Nat
  BY MigrationsAssumption
<1>1. CASE logged' = logged \union {cmd.m} /\ cmd' = [cmd EXCEPT !.pc = "pick"] /\ torn' = torn
  <2>1. cmd.pc = "log" /\ schema' = schema /\ cmd'.pc = "pick" /\ cmd'.m = cmd.m /\ cmd'.done = cmd.done /\ CommandShape'
    BY <1>1 DEF LogMigration, MigrationsInv, CommandShape
  <2>2. ASSUME NEW k \in 0 .. Len(Ups), Logged(k) PROVE k + 1 \in 0 .. Len(Ups) /\ Logged(k + 1)'
    <3>1. k < Len(Ups) /\ cmd.m = k + 1 /\ Left(cmd, k + 1) /\ schema = Wanted(1 .. (k + 1)) /\ logged = 1 .. k
      BY <2>1, <2>2 DEF Logged
    <3>2. k + 1 \in 0 .. Len(Ups) /\ logged' = 1 .. (k + 1)
      BY <1>0, <1>1, <3>1
    <3>3. AppliedTo(schema', k + 1)
      BY <2>1, <3>1, <3>2, WantedIsApplied
    <3>4. Left(cmd', k + 1)
      BY <2>1, <3>1 DEF Left
    <3> QED BY <2>1, <3>2, <3>3, <3>4 DEF Logged
  <2> QED BY <1>1, <2>1, <2>2, Zenon DEF MigrationsInv, IsSchema
<1>2. CASE cmd' = Quiet /\ Tears(cmd.m) /\ UNCHANGED logged
  <2>1. cmd.pc = "log" /\ schema' = schema /\ cmd'.pc = "quiet" /\ CommandShape'
    BY <1>2 DEF LogMigration, Quiet, CommandShape
  <2>2. ASSUME ~torn', NEW k \in 0 .. Len(Ups), Logged(k) PROVE Logged(k)'
    <3>1. k < Len(Ups) /\ cmd.m = k + 1 /\ schema = Wanted(1 .. (k + 1)) /\ logged = 1 .. k
      BY <2>1, <2>2 DEF Logged
    <3>2. Repeatable(k + 1)
      <4>1. k + 1 # 0
        BY <1>0
      <4> QED BY <1>2, <2>2, <3>1, <4>1, Zenon DEF Tears
    <3>3. AppliedTo(schema', k)
      BY <2>1, <3>1, <3>2, WantedIsApplied
    <3> QED BY <1>2, <2>1, <3>1, <3>3 DEF Logged
  <2>3. ~torn' => ~torn
    BY <1>2 DEF Tears
  <2> QED BY <2>1, <2>2, <2>3, Zenon DEF MigrationsInv, IsSchema
<1> QED BY <1>1, <1>2 DEF LogMigration

\* Where a migration goes on after a call that ended with the tables d.
LEMMA CallEnds ==
    ASSUME MigrationsInv, NEW k \in 0 .. Len(Ups), k < Len(Ups), cmd.m = k + 1, Left(cmd, k + 1),
           UnderWay(cmd, schema, Wanted(1 .. k)), logged = 1 .. k, logged' = logged,
           cmd' = IF cmd.call < Len(Ups[cmd.m]) THEN [cmd EXCEPT !.call = @ + 1, !.stmt = 1]
                  ELSE [cmd EXCEPT !.pc = "log"],
           cmd.pc = "up",
           IsSchema(schema'),
           IF Repeatable(k + 1) THEN Between(k + 1, Wanted(1 .. k), schema', cmd.call)
           ELSE schema' = UpRun(Wanted(1 .. k), k + 1)[cmd.call]
    PROVE  CommandShape' /\ Logged(k)'
<1> DEFINE w == Wanted(1 .. k)
<1>0. Len(Ups) \in Nat /\ k + 1 \in Migrations /\ Len(Ups[k + 1]) \in Nat /\ IsSchema(w)
  BY LastCall, MigrationFacts, MigrationsAssumption
<1>1. cmd.call \in 1 .. Len(Ups[k + 1])
  BY DEF UnderWay
<1>2. cmd = [pc |-> cmd.pc, done |-> cmd.done, m |-> cmd.m, call |-> cmd.call, stmt |-> cmd.stmt]
  BY DEF MigrationsInv, CommandShape
<1>3. CASE cmd.call < Len(Ups[k + 1])
  <2>1. cmd' = [pc |-> "up", done |-> cmd.done, m |-> k + 1, call |-> cmd.call + 1, stmt |-> 1]
    BY <1>2, <1>3
  <2>2. CommandShape'
    BY <2>1 DEF CommandShape
  <2>3. Left(cmd', k + 1)
    BY <2>1 DEF Left
  <2>4. cmd.call + 1 \in 1 .. Len(Ups[k + 1]) /\ (cmd.call + 1) - 1 = cmd.call
    BY <1>0, <1>1, <1>3
  <2>5. Len(Ups[k + 1][cmd.call + 1]) \in Nat \ {0}
    BY <1>0, <2>4, MigrationFacts
  <2>6. UnderWay(cmd', schema', w)
    <3>1. CASE Repeatable(k + 1)
      BY <2>1, <2>4, <2>5, <3>1 DEF UnderWay
    <3>2. CASE ~Repeatable(k + 1)
      <4> DEFINE x == UpRun(w, k + 1)[cmd.call]
                 c == Ups[k + 1][cmd.call + 1]
      <4>1. CallRun(x, c)[0] = [db |-> x, on |-> TRUE]
        <5>1. Len(c) \in Nat
          BY <2>5
        <5> HIDE DEF x, c
        <5> QED BY <5>1, CallRunSteps
      <4>2. x = schema'
        BY <3>2
      <4>3. CallRun(x, c)[0] = [db |-> schema', on |-> TRUE]
        BY <4>1, <4>2
      <4>4. CallRun(UpRun(w, k + 1)[(cmd.call + 1) - 1], c)[1 - 1] = [db |-> schema', on |-> TRUE]
        BY <2>4, <4>3
      <4> QED BY <2>1, <2>4, <2>5, <3>2, <4>4 DEF UnderWay
    <3> QED BY <3>1, <3>2
  <2> QED BY <2>1, <2>2, <2>3, <2>6 DEF Logged
<1>4. CASE cmd.call = Len(Ups[k + 1])
  <2>1. cmd' = [pc |-> "log", done |-> cmd.done, m |-> k + 1, call |-> cmd.call, stmt |-> cmd.stmt]
    BY <1>0, <1>2, <1>4
  <2>2. CommandShape'
    BY <2>1 DEF CommandShape
  <2>3. Left(cmd', k + 1)
    BY <2>1 DEF Left
  <2>4. schema' = UpRun(w, k + 1)[Len(Ups[k + 1])]
    <3>1. CASE Repeatable(k + 1)
      <4>1. Between(k + 1, w, schema', Len(Ups[k + 1]))
        BY <1>4, <3>1
      <4> HIDE DEF w
      <4> QED BY <1>0, <3>1, <4>1, BetweenEnds
    <3>2. CASE ~Repeatable(k + 1)
      BY <1>4, <3>2
    <3> QED BY <3>1, <3>2
  <2>5. schema' = Wanted(1 .. (k + 1))
    BY <2>4, LastCall
  <2>6. cmd'.pc = "log" /\ cmd'.m = k + 1
    BY ONLY <2>1
  <2>7. Logged(k)'
    BY <2>3, <2>5, <2>6, SMTT(30) DEF Logged
  <2> QED BY <2>2, <2>7
<1> QED BY <1>0, <1>1, <1>3, <1>4

\* A statement of a migration is executed, refused or fails.
LEMMA StatementKeeps ==
    ASSUME MigrationsInv, SchemaStatement PROVE MigrationsInv'
<1> DEFINE s == Ups[cmd.m][cmd.call][cmd.stmt]
<1>0. Len(Ups) \in Nat /\ cmd.pc = "up" /\ logged' = logged
  BY MigrationsAssumption DEF SchemaStatement
<1>1. cmd = [pc |-> cmd.pc, done |-> cmd.done, m |-> cmd.m, call |-> cmd.call, stmt |-> cmd.stmt]
  BY DEF MigrationsInv, CommandShape
<1>2. ASSUME NEW ok, cmd' = After(cmd, ok) PROVE CommandShape'
  <2>1. cmd' \in {[cmd EXCEPT !.stmt = @ + 1], [cmd EXCEPT !.call = @ + 1, !.stmt = 1], [cmd EXCEPT !.pc = "log"]}
    BY <1>2 DEF After
  <2>2. cmd'.pc \in {"up", "log"}
    BY <1>0, <1>1, <2>1
  <2>3. cmd' = [pc |-> cmd'.pc, done |-> cmd'.done, m |-> cmd'.m, call |-> cmd'.call, stmt |-> cmd'.stmt]
    BY <1>1, <2>1
  <2> QED BY <2>2, <2>3 DEF CommandShape
<1>3. CASE torn' = TRUE /\ schema' = schema /\ cmd' = After(cmd, FALSE)
  BY <1>2, <1>3 DEF MigrationsInv
<1>4. ASSUME torn' = torn,
             \/ Accepts(schema, s) /\ schema' = Executed(schema, s) /\ cmd' = After(cmd, TRUE)
             \/ ~Accepts(schema, s) /\ schema' = schema /\ cmd' = After(cmd, FALSE),
             ~torn, NEW k \in 0 .. Len(Ups), Logged(k)
      PROVE  IsSchema(schema') /\ Logged(k)'
  <2> DEFINE w == Wanted(1 .. k)
             m == k + 1
             x == UpRun(w, m)[cmd.call - 1]
             c == Ups[m][cmd.call]
             n == Len(c)
  <2>1. k < Len(Ups) /\ cmd.m = m /\ Left(cmd, m) /\ UnderWay(cmd, schema, w) /\ logged = 1 .. k
    BY <1>0, <1>4 DEF Logged
  <2>2. m \in Migrations /\ Len(Ups[m]) \in Nat /\ IsSchema(w) /\ IsSchema(schema)
    BY <1>4, <2>1, LastCall, MigrationFacts DEF MigrationsInv
  <2>3. cmd.call \in 1 .. Len(Ups[m]) /\ cmd.stmt \in 1 .. n
    BY <2>1 DEF UnderWay
  <2>4. n \in Nat \ {0}
    BY <2>2, <2>3, MigrationFacts
  <2>5. s = Ups[m][cmd.call][cmd.stmt] /\ s = c[cmd.stmt]
    BY <2>1
  <2>6. IsSchema(schema')
    <3>1. IsSchema(Executed(schema, s))
      BY <2>2, <2>3, <2>5, ExecutedSchema
    <3> QED BY <1>4, <2>2, <3>1
  <2>7. CASE Repeatable(m)
    <3>1. n = 1 /\ cmd.stmt = 1 /\ s = Stmt(m, cmd.call) /\ s.k \in {"create", "drop"}
      BY <2>3, <2>4, <2>5, <2>7 DEF Repeatable, Stmt
    <3>2. schema' = Executed(schema, s) /\ cmd' = After(cmd, TRUE)
      BY <1>4, <3>1 DEF Accepts
    <3>3. Between(m, w, schema, cmd.call - 1)
      BY <2>1, <2>7 DEF UnderWay
    <3>4. Between(m, w, schema', cmd.call)
      <4> HIDE DEF w, m, s
      <4> QED BY <2>2, <2>3, <2>7, <3>1, <3>2, <3>3, BetweenStep
    <3>5. cmd' = IF cmd.call < Len(Ups[cmd.m]) THEN [cmd EXCEPT !.call = @ + 1, !.stmt = 1]
                 ELSE [cmd EXCEPT !.pc = "log"]
      <4>1. ~(cmd.stmt < Len(Ups[cmd.m][cmd.call]))
        BY <2>1, <3>1
      <4> QED BY <3>2, <4>1, Zenon DEF After
    <3>6. IF Repeatable(m) THEN Between(m, w, schema', cmd.call) ELSE schema' = UpRun(w, m)[cmd.call]
      BY <2>7, <3>4
    <3> QED BY <1>0, <2>1, <2>6, <3>5, <3>6, CallEnds, Zenon
  <2>8. CASE ~Repeatable(m)
    <3>1. CallRun(x, c)[cmd.stmt - 1] = [db |-> schema, on |-> TRUE]
      BY <2>1, <2>8 DEF UnderWay
    <3>2. CallRun(x, c)[cmd.stmt] = Ran([db |-> schema, on |-> TRUE], s)
      <4> HIDE DEF n
      <4>1. cmd.stmt - 1 \in 0 .. (n - 1) /\ (cmd.stmt - 1) + 1 = cmd.stmt /\ n \in Nat
        BY <2>3, <2>4
      <4> USE DEF n
      <4> HIDE DEF x, c, s
      <4>2. CallRun(x, c)[(cmd.stmt - 1) + 1] = Ran(CallRun(x, c)[cmd.stmt - 1], c[(cmd.stmt - 1) + 1])
        BY <4>1, CallRunNext
      <4> QED BY <2>5, <3>1, <4>1, <4>2
    <3>3. UpRun(w, m)[cmd.call] = CallRun(x, c)[n].db
      <4>1. cmd.call - 1 \in 0 .. (Len(Ups[m]) - 1) /\ (cmd.call - 1) + 1 = cmd.call
        BY <2>2, <2>3
      <4> HIDE DEF w, m
      <4>2. UpRun(w, m)[(cmd.call - 1) + 1] = CallRun(UpRun(w, m)[cmd.call - 1], Ups[m][(cmd.call - 1) + 1])[Len(Ups[m][(cmd.call - 1) + 1])].db
        BY <2>2, <4>1, UpRunNext
      <4> QED BY <4>1, <4>2
    <3>4. CASE Accepts(schema, s) /\ schema' = Executed(schema, s) /\ cmd' = After(cmd, TRUE)
      <4>1. CallRun(x, c)[cmd.stmt] = [db |-> schema', on |-> TRUE]
        BY <3>2, <3>4 DEF Ran
      <4>2. CASE cmd.stmt < n
        <5>1. cmd' = [pc |-> "up", done |-> cmd.done, m |-> m, call |-> cmd.call, stmt |-> cmd.stmt + 1]
          BY <1>0, <1>1, <2>1, <3>4, <4>2 DEF After
        <5>2. cmd.stmt + 1 \in 1 .. n /\ (cmd.stmt + 1) - 1 = cmd.stmt
          BY <2>3, <2>4, <4>2
        <5>3. UnderWay(cmd', schema', w)
          BY <2>3, <2>8, <4>1, <5>1, <5>2 DEF UnderWay
        <5>4. Left(cmd', m)
          BY <2>1, <5>1 DEF Left
        <5> QED BY <1>0, <2>1, <2>6, <5>1, <5>3, <5>4 DEF Logged
      <4>3. CASE cmd.stmt = n
        <5>1. cmd' = IF cmd.call < Len(Ups[cmd.m]) THEN [cmd EXCEPT !.call = @ + 1, !.stmt = 1]
                     ELSE [cmd EXCEPT !.pc = "log"]
          BY <2>1, <2>4, <3>4, <4>3 DEF After
        <5>2. schema' = UpRun(w, m)[cmd.call]
          BY <3>3, <4>1, <4>3
        <5> QED BY <1>0, <2>1, <2>6, <2>8, <5>1, <5>2, CallEnds
      <4> QED BY <2>3, <2>4, <4>2, <4>3
    <3>5. CASE ~Accepts(schema, s) /\ schema' = schema /\ cmd' = After(cmd, FALSE)
      <4>1. CallRun(x, c)[cmd.stmt] = [db |-> schema, on |-> FALSE]
        BY <3>2, <3>5 DEF Ran
      <4>2. CallRun(x, c)[n].db = schema
        <5>1. n \in Nat /\ cmd.stmt \in 0 .. n
          BY <2>3, <2>4
        <5> HIDE DEF x, c
        <5> QED BY <4>1, <5>1, CallGivesUp
      <4>3. cmd' = IF cmd.call < Len(Ups[cmd.m]) THEN [cmd EXCEPT !.call = @ + 1, !.stmt = 1]
                   ELSE [cmd EXCEPT !.pc = "log"]
        BY <3>5 DEF After
      <4>4. schema' = UpRun(w, m)[cmd.call]
        BY <3>3, <3>5, <4>2
      <4> QED BY <1>0, <2>1, <2>6, <2>8, <4>3, <4>4, CallEnds
    <3> QED BY <1>4, <3>4, <3>5
  <2> QED BY <2>7, <2>8
<1>5. CASE /\ torn' = torn
           /\ \/ Accepts(schema, s) /\ schema' = Executed(schema, s) /\ cmd' = After(cmd, TRUE)
              \/ ~Accepts(schema, s) /\ schema' = schema /\ cmd' = After(cmd, FALSE)
  <2>1. CommandShape'
    BY <1>2, <1>5
  <2>2. ASSUME ~torn PROVE IsSchema(schema') /\ \E k \in 0 .. Len(Ups) : Logged(k)'
    <3>1. PICK k \in 0 .. Len(Ups) : Logged(k)
      BY <2>2, Zenon DEF MigrationsInv
    <3>2. IsSchema(schema') /\ Logged(k)'
      <4> HIDE DEF s
      <4> QED BY <1>4, <1>5, <2>2, <3>1, Zenon
    <3> QED BY <3>2, Zenon
  <2> QED BY <1>5, <2>1, <2>2, Zenon DEF MigrationsInv
<1> QED BY <1>3, <1>5 DEF SchemaStatement

\* Every step of a command keeps the invariant.
LEMMA MigrationsKeep == MigrationsInv /\ [MigrationsNext]_migrationVars => MigrationsInv'
<1>1. ASSUME MigrationsInv, MigrationsNext PROVE MigrationsInv'
  <2>1. CASE MigrationSteps
    BY <1>1, <2>1, FreshKeeps, ReadKeeps, PickKeeps, StatementKeeps, LogKeeps DEF MigrationSteps
  <2> QED BY <1>1, <2>1, KilledCommandKeeps, CommandKeeps DEF MigrationsNext
<1>2. ASSUME MigrationsInv, UNCHANGED migrationVars PROVE MigrationsInv'
  <2>1. /\ schema' = schema /\ logged' = logged /\ cmd' = cmd /\ torn' = torn
    BY <1>2 DEF migrationVars
  <2>2. ASSUME NEW k \in 0 .. Len(Ups), Logged(k) PROVE Logged(k)'
    BY <2>1, <2>2 DEF Logged, AppliedTo, Between, Left, UnderWay
  <2> QED BY <1>2, <2>1, <2>2, Zenon DEF MigrationsInv, CommandShape, IsSchema
<1> QED BY <1>1, <1>2

\* Between two commands the tables are what the logged migrations make in the
\* order of their files, or the next migration makes the same of them, for any
\* migrations, through kills, failures and new runs (performMigrations).
THEOREM SchemasAreWanted == MigrationsSpec => []SchemaIsWanted
<1>1. MigrationsSpec => []MigrationsInv
  BY MigrationsStart, MigrationsKeep, PTL DEF MigrationsSpec
<1> QED BY <1>1, MigrationsInvImplies, PTL
=============================================================================
