---------------------------- MODULE JossServerProofs ----------------------------
(***************************************************************************)
(* For any number of runtimes, requests, units and versions: JossServer is *)
(* type correct, no runtime has two owners, every request runs one whole   *)
(* version of the program, and a reload changes what is served at once or  *)
(* not at all.                                                             *)
(***************************************************************************)
EXTENDS JossServer, TLAPS

--------------------------------------------------------------------------------
(* The inductive invariant.                                                *)

\* An object nobody holds carries no code.
CleanPool == \A r \in Runtimes : where[r] # "owned" => code[r] = {}

\* A request between RLock and RUnlock keeps the reloader out.
Reading ==
    \A q \in Requests : at[q] = "forking" => reload = "idle" /\ current # None /\ mine[q] = current

\* The candidate has the units that were executed and nothing else.
Loaded ==
    /\ reload \in {"load", "swap"} => loading \in Versions
    /\ reload = "load" => code[candidate] = (Units \ todo) \X {loading}
    /\ reload = "swap" => code[candidate] = Program(loading)

\* c is the code of a version that was served whole, or what a panic at the
\* start left of one.
Whole(c) ==
    \/ \E v \in served : c = Program(v)
    \/ partial # NoVersion /\ c \subseteq Program(partial)
ServedWhole == current # None => Whole(code[current])

\* Nothing is admitted before something is served.
Booted == reload \in {"idle", "free"} => current # None

\* Before something is served nothing was kept half loaded.
Fresh == current = None => partial = NoVersion

Inv == TypeOK /\ OneOwner /\ CleanPool /\ Booted /\ Reading /\ Loaded /\ ServedWhole /\ Fresh /\ WholeProgram

--------------------------------------------------------------------------------

\* Every step keeps the types.
LEMMA TypeStep == TypeOK /\ Loaded /\ Booted /\ [Next]_vars => TypeOK'
<1> SUFFICES ASSUME TypeOK, Loaded, Booted, [Next]_vars PROVE TypeOK'
  OBVIOUS
<1> USE ServerAssumption DEF TypeOK, Loaded, Booted, Versions, ReloadLocations, NoVersion, objects, disk, reloader, handlers, history
<1>1. ASSUME EditSource PROVE TypeOK'
  BY <1>1 DEF EditSource
<1>2. ASSUME EditEnvironment PROVE TypeOK'
  BY <1>2 DEF EditEnvironment
<1>3. ASSUME StartReload PROVE TypeOK'
  BY <1>3 DEF StartReload, LockFree, Serving
<1>4. ASSUME Reject PROVE TypeOK'
  BY <1>4 DEF Reject
<1>5. ASSUME NEW r \in Runtimes, Acquire(r) PROVE TypeOK'
  BY <1>5 DEF Acquire
<1>6. ASSUME NEW u \in Units, ExecuteUnit(u) PROVE TypeOK'
  BY <1>6 DEF ExecuteUnit
<1>7. ASSUME SessionsUnavailable PROVE TypeOK'
  BY <1>7 DEF SessionsUnavailable, Free
<1>8. ASSUME UnitPanics PROVE TypeOK'
  BY <1>8 DEF UnitPanics, Free
<1>9. ASSUME Swap PROVE TypeOK'
  BY <1>9 DEF Swap
<1>10. ASSUME FreePrevious PROVE TypeOK'
  BY <1>10 DEF FreePrevious, Free
<1>11. ASSUME OpenDatabase PROVE TypeOK'
  BY <1>11 DEF OpenDatabase
<1>12. ASSUME Schedule PROVE TypeOK'
  BY <1>12 DEF Schedule
<1>13. ASSUME ReloadEnvironment PROVE TypeOK'
  BY <1>13 DEF ReloadEnvironment, LockFree, Serving
<1>14. ASSUME NEW q \in Requests, Arrive(q) PROVE TypeOK'
  BY <1>14 DEF Arrive, Serving
<1>15. ASSUME NEW q \in Requests, Admit(q) PROVE TypeOK'
  BY <1>15 DEF Admit
<1>16. ASSUME NEW q \in Requests, NEW r \in Runtimes, Fork(q, r) PROVE TypeOK'
  BY <1>16 DEF Fork, ForkOf, Unused
<1>17. ASSUME NEW q \in Requests, UseDatabase(q) PROVE TypeOK'
  BY <1>17 DEF UseDatabase
<1>18. ASSUME NEW q \in Requests, Respond(q) PROVE TypeOK'
  BY <1>18 DEF Respond, Free
<1>19. ASSUME NEW r \in Runtimes, Collect(r) PROVE TypeOK'
  BY <1>19 DEF Collect
<1>20. CASE UNCHANGED vars
  BY <1>20 DEF vars
<1>21. QED
  BY <1>1, <1>2, <1>3, <1>4, <1>5, <1>6, <1>7, <1>8, <1>9, <1>10, <1>11, <1>12, <1>13, <1>14, <1>15, <1>16, <1>17, <1>18, <1>19, <1>20
  DEF Next, ReloadSteps, RequestSteps

\* No step gives a runtime a second owner.
LEMMA OwnerStep == TypeOK /\ OneOwner /\ Reading /\ [Next]_vars => OneOwner'
<1> SUFFICES ASSUME TypeOK, OneOwner, Reading, [Next]_vars PROVE OneOwner'
  OBVIOUS
<1> USE ServerAssumption DEF OneOwner, Reading, TypeOK, objects, disk, reloader, handlers, history
<1>1. ASSUME EditSource PROVE OneOwner'
  BY <1>1 DEF EditSource
<1>2. ASSUME EditEnvironment PROVE OneOwner'
  BY <1>2 DEF EditEnvironment
<1>3. ASSUME StartReload PROVE OneOwner'
  BY <1>3 DEF StartReload, LockFree, Serving
<1>4. ASSUME Reject PROVE OneOwner'
  BY <1>4 DEF Reject
<1>5. ASSUME NEW r \in Runtimes, Acquire(r) PROVE OneOwner'
  BY <1>5 DEF Acquire
<1>6. ASSUME NEW u \in Units, ExecuteUnit(u) PROVE OneOwner'
  BY <1>6 DEF ExecuteUnit
<1>7. ASSUME SessionsUnavailable PROVE OneOwner'
  BY <1>7 DEF SessionsUnavailable, Free
<1>8. ASSUME UnitPanics PROVE OneOwner'
  BY <1>8 DEF UnitPanics, Free
<1>9. ASSUME Swap PROVE OneOwner'
  BY <1>9 DEF Swap
<1>10. ASSUME FreePrevious PROVE OneOwner'
  BY <1>10 DEF FreePrevious, Free
<1>11. ASSUME OpenDatabase PROVE OneOwner'
  BY <1>11 DEF OpenDatabase
<1>12. ASSUME Schedule PROVE OneOwner'
  BY <1>12 DEF Schedule
<1>13. ASSUME ReloadEnvironment PROVE OneOwner'
  BY <1>13 DEF ReloadEnvironment, LockFree, Serving
<1>14. ASSUME NEW q \in Requests, Arrive(q) PROVE OneOwner'
  BY <1>14 DEF Arrive, Serving
<1>15. ASSUME NEW q \in Requests, Admit(q) PROVE OneOwner'
  BY <1>15 DEF Admit
<1>16. ASSUME NEW q \in Requests, NEW r \in Runtimes, Fork(q, r) PROVE OneOwner'
  BY <1>16 DEF Fork, ForkOf, Unused
<1>17. ASSUME NEW q \in Requests, UseDatabase(q) PROVE OneOwner'
  BY <1>17 DEF UseDatabase
<1>18. ASSUME NEW q \in Requests, Respond(q) PROVE OneOwner'
  BY <1>18 DEF Respond, Free
<1>19. ASSUME NEW r \in Runtimes, Collect(r) PROVE OneOwner'
  BY <1>19 DEF Collect
<1>20. CASE UNCHANGED vars
  BY <1>20 DEF vars
<1>21. QED
  BY <1>1, <1>2, <1>3, <1>4, <1>5, <1>6, <1>7, <1>8, <1>9, <1>10, <1>11, <1>12, <1>13, <1>14, <1>15, <1>16, <1>17, <1>18, <1>19, <1>20
  DEF Next, ReloadSteps, RequestSteps

\* What is not owned stays empty.
LEMMA PoolStep == TypeOK /\ OneOwner /\ CleanPool /\ [Next]_vars => CleanPool'
<1> SUFFICES ASSUME TypeOK, OneOwner, CleanPool, [Next]_vars PROVE CleanPool'
  OBVIOUS
<1> USE ServerAssumption DEF CleanPool, OneOwner, TypeOK, objects, disk, reloader, handlers, history
<1>1. ASSUME EditSource PROVE CleanPool'
  BY <1>1 DEF EditSource
<1>2. ASSUME EditEnvironment PROVE CleanPool'
  BY <1>2 DEF EditEnvironment
<1>3. ASSUME StartReload PROVE CleanPool'
  BY <1>3 DEF StartReload, LockFree, Serving
<1>4. ASSUME Reject PROVE CleanPool'
  BY <1>4 DEF Reject
<1>5. ASSUME NEW r \in Runtimes, Acquire(r) PROVE CleanPool'
  BY <1>5 DEF Acquire
<1>6. ASSUME NEW u \in Units, ExecuteUnit(u) PROVE CleanPool'
  BY <1>6 DEF ExecuteUnit
<1>7. ASSUME SessionsUnavailable PROVE CleanPool'
  BY <1>7 DEF SessionsUnavailable, Free
<1>8. ASSUME UnitPanics PROVE CleanPool'
  BY <1>8 DEF UnitPanics, Free
<1>9. ASSUME Swap PROVE CleanPool'
  BY <1>9 DEF Swap
<1>10. ASSUME FreePrevious PROVE CleanPool'
  BY <1>10 DEF FreePrevious, Free
<1>11. ASSUME OpenDatabase PROVE CleanPool'
  BY <1>11 DEF OpenDatabase
<1>12. ASSUME Schedule PROVE CleanPool'
  BY <1>12 DEF Schedule
<1>13. ASSUME ReloadEnvironment PROVE CleanPool'
  BY <1>13 DEF ReloadEnvironment, LockFree, Serving
<1>14. ASSUME NEW q \in Requests, Arrive(q) PROVE CleanPool'
  BY <1>14 DEF Arrive, Serving
<1>15. ASSUME NEW q \in Requests, Admit(q) PROVE CleanPool'
  BY <1>15 DEF Admit
<1>16. ASSUME NEW q \in Requests, NEW r \in Runtimes, Fork(q, r) PROVE CleanPool'
  BY <1>16 DEF Fork, ForkOf, Unused
<1>17. ASSUME NEW q \in Requests, UseDatabase(q) PROVE CleanPool'
  BY <1>17 DEF UseDatabase
<1>18. ASSUME NEW q \in Requests, Respond(q) PROVE CleanPool'
  BY <1>18 DEF Respond, Free
<1>19. ASSUME NEW r \in Runtimes, Collect(r) PROVE CleanPool'
  BY <1>19 DEF Collect
<1>20. CASE UNCHANGED vars
  BY <1>20 DEF vars
<1>21. QED
  BY <1>1, <1>2, <1>3, <1>4, <1>5, <1>6, <1>7, <1>8, <1>9, <1>10, <1>11, <1>12, <1>13, <1>14, <1>15, <1>16, <1>17, <1>18, <1>19, <1>20
  DEF Next, ReloadSteps, RequestSteps

\* The lock is given back only when something is served.
LEMMA BootedStep == TypeOK /\ Booted /\ [Next]_vars => Booted'
<1> SUFFICES ASSUME TypeOK, Booted, [Next]_vars PROVE Booted'
  OBVIOUS
<1> USE ServerAssumption DEF Booted, TypeOK, objects, disk, reloader, handlers, history
<1>1. ASSUME EditSource PROVE Booted'
  BY <1>1 DEF EditSource
<1>2. ASSUME EditEnvironment PROVE Booted'
  BY <1>2 DEF EditEnvironment
<1>3. ASSUME StartReload PROVE Booted'
  BY <1>3 DEF StartReload, LockFree, Serving
<1>4. ASSUME Reject PROVE Booted'
  BY <1>4 DEF Reject
<1>5. ASSUME NEW r \in Runtimes, Acquire(r) PROVE Booted'
  BY <1>5 DEF Acquire
<1>6. ASSUME NEW u \in Units, ExecuteUnit(u) PROVE Booted'
  BY <1>6 DEF ExecuteUnit
<1>7. ASSUME SessionsUnavailable PROVE Booted'
  BY <1>7 DEF SessionsUnavailable, Free
<1>8. ASSUME UnitPanics PROVE Booted'
  BY <1>8 DEF UnitPanics, Free
<1>9. ASSUME Swap PROVE Booted'
  BY <1>9 DEF Swap
<1>10. ASSUME FreePrevious PROVE Booted'
  BY <1>10 DEF FreePrevious, Free
<1>11. ASSUME OpenDatabase PROVE Booted'
  BY <1>11 DEF OpenDatabase
<1>12. ASSUME Schedule PROVE Booted'
  BY <1>12 DEF Schedule
<1>13. ASSUME ReloadEnvironment PROVE Booted'
  BY <1>13 DEF ReloadEnvironment, LockFree, Serving
<1>14. ASSUME NEW q \in Requests, Arrive(q) PROVE Booted'
  BY <1>14 DEF Arrive, Serving
<1>15. ASSUME NEW q \in Requests, Admit(q) PROVE Booted'
  BY <1>15 DEF Admit
<1>16. ASSUME NEW q \in Requests, NEW r \in Runtimes, Fork(q, r) PROVE Booted'
  BY <1>16 DEF Fork, ForkOf, Unused
<1>17. ASSUME NEW q \in Requests, UseDatabase(q) PROVE Booted'
  BY <1>17 DEF UseDatabase
<1>18. ASSUME NEW q \in Requests, Respond(q) PROVE Booted'
  BY <1>18 DEF Respond, Free
<1>19. ASSUME NEW r \in Runtimes, Collect(r) PROVE Booted'
  BY <1>19 DEF Collect
<1>20. CASE UNCHANGED vars
  BY <1>20 DEF vars
<1>21. QED
  BY <1>1, <1>2, <1>3, <1>4, <1>5, <1>6, <1>7, <1>8, <1>9, <1>10, <1>11, <1>12, <1>13, <1>14, <1>15, <1>16, <1>17, <1>18, <1>19, <1>20
  DEF Next, ReloadSteps, RequestSteps

\* The lock excludes the reloader from the copies of a Fork.
LEMMA ReadingStep == TypeOK /\ Booted /\ Reading /\ [Next]_vars => Reading'
<1> SUFFICES ASSUME TypeOK, Booted, Reading, [Next]_vars PROVE Reading'
  OBVIOUS
<1> USE ServerAssumption DEF Reading, Booted, TypeOK, objects, disk, reloader, handlers, history
<1>1. ASSUME EditSource PROVE Reading'
  BY <1>1 DEF EditSource
<1>2. ASSUME EditEnvironment PROVE Reading'
  BY <1>2 DEF EditEnvironment
<1>3. ASSUME StartReload PROVE Reading'
  BY <1>3 DEF StartReload, LockFree, Serving
<1>4. ASSUME Reject PROVE Reading'
  BY <1>4 DEF Reject
<1>5. ASSUME NEW r \in Runtimes, Acquire(r) PROVE Reading'
  BY <1>5 DEF Acquire
<1>6. ASSUME NEW u \in Units, ExecuteUnit(u) PROVE Reading'
  BY <1>6 DEF ExecuteUnit
<1>7. ASSUME SessionsUnavailable PROVE Reading'
  BY <1>7 DEF SessionsUnavailable, Free
<1>8. ASSUME UnitPanics PROVE Reading'
  BY <1>8 DEF UnitPanics, Free
<1>9. ASSUME Swap PROVE Reading'
  BY <1>9 DEF Swap
<1>10. ASSUME FreePrevious PROVE Reading'
  BY <1>10 DEF FreePrevious, Free
<1>11. ASSUME OpenDatabase PROVE Reading'
  BY <1>11 DEF OpenDatabase
<1>12. ASSUME Schedule PROVE Reading'
  BY <1>12 DEF Schedule
<1>13. ASSUME ReloadEnvironment PROVE Reading'
  BY <1>13 DEF ReloadEnvironment, LockFree, Serving
<1>14. ASSUME NEW q \in Requests, Arrive(q) PROVE Reading'
  BY <1>14 DEF Arrive, Serving
<1>15. ASSUME NEW q \in Requests, Admit(q) PROVE Reading'
  BY <1>15 DEF Admit
<1>16. ASSUME NEW q \in Requests, NEW r \in Runtimes, Fork(q, r) PROVE Reading'
  BY <1>16 DEF Fork, ForkOf, Unused
<1>17. ASSUME NEW q \in Requests, UseDatabase(q) PROVE Reading'
  BY <1>17 DEF UseDatabase
<1>18. ASSUME NEW q \in Requests, Respond(q) PROVE Reading'
  BY <1>18 DEF Respond, Free
<1>19. ASSUME NEW r \in Runtimes, Collect(r) PROVE Reading'
  BY <1>19 DEF Collect
<1>20. CASE UNCHANGED vars
  BY <1>20 DEF vars
<1>21. QED
  BY <1>1, <1>2, <1>3, <1>4, <1>5, <1>6, <1>7, <1>8, <1>9, <1>10, <1>11, <1>12, <1>13, <1>14, <1>15, <1>16, <1>17, <1>18, <1>19, <1>20
  DEF Next, ReloadSteps, RequestSteps

\* The candidate grows unit by unit.
LEMMA LoadedStep == TypeOK /\ OneOwner /\ CleanPool /\ Loaded /\ [Next]_vars => Loaded'
<1> SUFFICES ASSUME TypeOK, OneOwner, CleanPool, Loaded, [Next]_vars PROVE Loaded'
  OBVIOUS
<1> USE ServerAssumption DEF Loaded, CleanPool, OneOwner, TypeOK, Program, Versions, NoVersion, objects, disk, reloader, handlers, history
<1>1. ASSUME EditSource PROVE Loaded'
  BY <1>1 DEF EditSource
<1>2. ASSUME EditEnvironment PROVE Loaded'
  BY <1>2 DEF EditEnvironment
<1>3. ASSUME StartReload PROVE Loaded'
  BY <1>3 DEF StartReload, LockFree, Serving
<1>4. ASSUME Reject PROVE Loaded'
  BY <1>4 DEF Reject
<1>5. ASSUME NEW r \in Runtimes, Acquire(r) PROVE Loaded'
  BY <1>5 DEF Acquire
<1>6. ASSUME NEW u \in Units, ExecuteUnit(u) PROVE Loaded'
  BY <1>6 DEF ExecuteUnit
<1>7. ASSUME SessionsUnavailable PROVE Loaded'
  BY <1>7 DEF SessionsUnavailable, Free
<1>8. ASSUME UnitPanics PROVE Loaded'
  BY <1>8 DEF UnitPanics, Free
<1>9. ASSUME Swap PROVE Loaded'
  BY <1>9 DEF Swap
<1>10. ASSUME FreePrevious PROVE Loaded'
  BY <1>10 DEF FreePrevious, Free
<1>11. ASSUME OpenDatabase PROVE Loaded'
  BY <1>11 DEF OpenDatabase
<1>12. ASSUME Schedule PROVE Loaded'
  BY <1>12 DEF Schedule
<1>13. ASSUME ReloadEnvironment PROVE Loaded'
  BY <1>13 DEF ReloadEnvironment, LockFree, Serving
<1>14. ASSUME NEW q \in Requests, Arrive(q) PROVE Loaded'
  BY <1>14 DEF Arrive, Serving
<1>15. ASSUME NEW q \in Requests, Admit(q) PROVE Loaded'
  BY <1>15 DEF Admit
<1>16. ASSUME NEW q \in Requests, NEW r \in Runtimes, Fork(q, r) PROVE Loaded'
  BY <1>16 DEF Fork, ForkOf, Unused
<1>17. ASSUME NEW q \in Requests, UseDatabase(q) PROVE Loaded'
  BY <1>17 DEF UseDatabase
<1>18. ASSUME NEW q \in Requests, Respond(q) PROVE Loaded'
  BY <1>18 DEF Respond, Free
<1>19. ASSUME NEW r \in Runtimes, Collect(r) PROVE Loaded'
  BY <1>19 DEF Collect
<1>20. CASE UNCHANGED vars
  BY <1>20 DEF vars
<1>21. QED
  BY <1>1, <1>2, <1>3, <1>4, <1>5, <1>6, <1>7, <1>8, <1>9, <1>10, <1>11, <1>12, <1>13, <1>14, <1>15, <1>16, <1>17, <1>18, <1>19, <1>20
  DEF Next, ReloadSteps, RequestSteps

\* Nothing is kept half loaded later than at the start.
LEMMA FreshStep == TypeOK /\ Fresh /\ [Next]_vars => Fresh'
<1> SUFFICES ASSUME TypeOK, Fresh, [Next]_vars PROVE Fresh'
  OBVIOUS
<1> USE ServerAssumption DEF Fresh, TypeOK, NoVersion, objects, disk, reloader, handlers, history
<1>1. ASSUME EditSource PROVE Fresh'
  BY <1>1 DEF EditSource
<1>2. ASSUME EditEnvironment PROVE Fresh'
  BY <1>2 DEF EditEnvironment
<1>3. ASSUME StartReload PROVE Fresh'
  BY <1>3 DEF StartReload, LockFree, Serving
<1>4. ASSUME Reject PROVE Fresh'
  BY <1>4 DEF Reject
<1>5. ASSUME NEW r \in Runtimes, Acquire(r) PROVE Fresh'
  BY <1>5 DEF Acquire
<1>6. ASSUME NEW u \in Units, ExecuteUnit(u) PROVE Fresh'
  BY <1>6 DEF ExecuteUnit
<1>7. ASSUME SessionsUnavailable PROVE Fresh'
  BY <1>7 DEF SessionsUnavailable, Free
<1>8. ASSUME UnitPanics PROVE Fresh'
  BY <1>8 DEF UnitPanics, Free
<1>9. ASSUME Swap PROVE Fresh'
  BY <1>9 DEF Swap
<1>10. ASSUME FreePrevious PROVE Fresh'
  BY <1>10 DEF FreePrevious, Free
<1>11. ASSUME OpenDatabase PROVE Fresh'
  BY <1>11 DEF OpenDatabase
<1>12. ASSUME Schedule PROVE Fresh'
  BY <1>12 DEF Schedule
<1>13. ASSUME ReloadEnvironment PROVE Fresh'
  BY <1>13 DEF ReloadEnvironment, LockFree, Serving
<1>14. ASSUME NEW q \in Requests, Arrive(q) PROVE Fresh'
  BY <1>14 DEF Arrive, Serving
<1>15. ASSUME NEW q \in Requests, Admit(q) PROVE Fresh'
  BY <1>15 DEF Admit
<1>16. ASSUME NEW q \in Requests, NEW r \in Runtimes, Fork(q, r) PROVE Fresh'
  BY <1>16 DEF Fork, ForkOf, Unused
<1>17. ASSUME NEW q \in Requests, UseDatabase(q) PROVE Fresh'
  BY <1>17 DEF UseDatabase
<1>18. ASSUME NEW q \in Requests, Respond(q) PROVE Fresh'
  BY <1>18 DEF Respond, Free
<1>19. ASSUME NEW r \in Runtimes, Collect(r) PROVE Fresh'
  BY <1>19 DEF Collect
<1>20. CASE UNCHANGED vars
  BY <1>20 DEF vars
<1>21. QED
  BY <1>1, <1>2, <1>3, <1>4, <1>5, <1>6, <1>7, <1>8, <1>9, <1>10, <1>11, <1>12, <1>13, <1>14, <1>15, <1>16, <1>17, <1>18, <1>19, <1>20
  DEF Next, ReloadSteps, RequestSteps

\* What is served is whole, or what a panic at the start left.
LEMMA ServedStep == TypeOK /\ OneOwner /\ Loaded /\ Fresh /\ ServedWhole /\ [Next]_vars => ServedWhole'
<1> SUFFICES ASSUME TypeOK, OneOwner, Loaded, Fresh, ServedWhole, [Next]_vars PROVE ServedWhole'
  OBVIOUS
<1> USE ServerAssumption DEF ServedWhole, Whole, Loaded, Fresh, OneOwner, TypeOK, Program, Versions, NoVersion, objects, disk, reloader, handlers, history
<1>1. ASSUME EditSource PROVE ServedWhole'
  BY <1>1 DEF EditSource
<1>2. ASSUME EditEnvironment PROVE ServedWhole'
  BY <1>2 DEF EditEnvironment
<1>3. ASSUME StartReload PROVE ServedWhole'
  BY <1>3 DEF StartReload, LockFree, Serving
<1>4. ASSUME Reject PROVE ServedWhole'
  BY <1>4 DEF Reject
<1>5. ASSUME NEW r \in Runtimes, Acquire(r) PROVE ServedWhole'
  BY <1>5 DEF Acquire
<1>6. ASSUME NEW u \in Units, ExecuteUnit(u) PROVE ServedWhole'
  BY <1>6 DEF ExecuteUnit
<1>7. ASSUME SessionsUnavailable PROVE ServedWhole'
  BY <1>7 DEF SessionsUnavailable, Free
<1>8. ASSUME UnitPanics PROVE ServedWhole'
  BY <1>8 DEF UnitPanics, Free
<1>9. ASSUME Swap PROVE ServedWhole'
  BY <1>9 DEF Swap
<1>10. ASSUME FreePrevious PROVE ServedWhole'
  BY <1>10 DEF FreePrevious, Free
<1>11. ASSUME OpenDatabase PROVE ServedWhole'
  BY <1>11 DEF OpenDatabase
<1>12. ASSUME Schedule PROVE ServedWhole'
  BY <1>12 DEF Schedule
<1>13. ASSUME ReloadEnvironment PROVE ServedWhole'
  BY <1>13 DEF ReloadEnvironment, LockFree, Serving
<1>14. ASSUME NEW q \in Requests, Arrive(q) PROVE ServedWhole'
  BY <1>14 DEF Arrive, Serving
<1>15. ASSUME NEW q \in Requests, Admit(q) PROVE ServedWhole'
  BY <1>15 DEF Admit
<1>16. ASSUME NEW q \in Requests, NEW r \in Runtimes, Fork(q, r) PROVE ServedWhole'
  BY <1>16 DEF Fork, ForkOf, Unused
<1>17. ASSUME NEW q \in Requests, UseDatabase(q) PROVE ServedWhole'
  BY <1>17 DEF UseDatabase
<1>18. ASSUME NEW q \in Requests, Respond(q) PROVE ServedWhole'
  BY <1>18 DEF Respond, Free
<1>19. ASSUME NEW r \in Runtimes, Collect(r) PROVE ServedWhole'
  BY <1>19 DEF Collect
<1>20. CASE UNCHANGED vars
  BY <1>20 DEF vars
<1>21. QED
  BY <1>1, <1>2, <1>3, <1>4, <1>5, <1>6, <1>7, <1>8, <1>9, <1>10, <1>11, <1>12, <1>13, <1>14, <1>15, <1>16, <1>17, <1>18, <1>19, <1>20
  DEF Next, ReloadSteps, RequestSteps

\* What a request runs is whole, from the copy to the response.
LEMMA WholeStep == TypeOK /\ OneOwner /\ Reading /\ Fresh /\ ServedWhole /\ WholeProgram /\ [Next]_vars => WholeProgram'
<1> SUFFICES ASSUME TypeOK, OneOwner, Reading, Fresh, ServedWhole, WholeProgram, [Next]_vars PROVE WholeProgram'
  OBVIOUS
<1> USE ServerAssumption DEF WholeProgram, ServedWhole, Whole, Fresh, Reading, OneOwner, TypeOK, Program, NoVersion, objects, disk, reloader, handlers, history
<1>1. ASSUME EditSource PROVE WholeProgram'
  BY <1>1 DEF EditSource
<1>2. ASSUME EditEnvironment PROVE WholeProgram'
  BY <1>2 DEF EditEnvironment
<1>3. ASSUME StartReload PROVE WholeProgram'
  BY <1>3 DEF StartReload, LockFree, Serving
<1>4. ASSUME Reject PROVE WholeProgram'
  BY <1>4 DEF Reject
<1>5. ASSUME NEW r \in Runtimes, Acquire(r) PROVE WholeProgram'
  BY <1>5 DEF Acquire
<1>6. ASSUME NEW u \in Units, ExecuteUnit(u) PROVE WholeProgram'
  BY <1>6 DEF ExecuteUnit
<1>7. ASSUME SessionsUnavailable PROVE WholeProgram'
  BY <1>7 DEF SessionsUnavailable, Free
<1>8. ASSUME UnitPanics PROVE WholeProgram'
  BY <1>8 DEF UnitPanics, Free
<1>9. ASSUME Swap PROVE WholeProgram'
  BY <1>9 DEF Swap
<1>10. ASSUME FreePrevious PROVE WholeProgram'
  BY <1>10 DEF FreePrevious, Free
<1>11. ASSUME OpenDatabase PROVE WholeProgram'
  BY <1>11 DEF OpenDatabase
<1>12. ASSUME Schedule PROVE WholeProgram'
  BY <1>12 DEF Schedule
<1>13. ASSUME ReloadEnvironment PROVE WholeProgram'
  BY <1>13 DEF ReloadEnvironment, LockFree, Serving
<1>14. ASSUME NEW q \in Requests, Arrive(q) PROVE WholeProgram'
  BY <1>14 DEF Arrive, Serving
<1>15. ASSUME NEW q \in Requests, Admit(q) PROVE WholeProgram'
  BY <1>15 DEF Admit
<1>16. ASSUME NEW q \in Requests, NEW r \in Runtimes, Fork(q, r) PROVE WholeProgram'
  BY <1>16 DEF Fork, ForkOf, Unused
<1>17. ASSUME NEW q \in Requests, UseDatabase(q) PROVE WholeProgram'
  BY <1>17 DEF UseDatabase
<1>18. ASSUME NEW q \in Requests, Respond(q) PROVE WholeProgram'
  BY <1>18 DEF Respond, Free
<1>19. ASSUME NEW r \in Runtimes, Collect(r) PROVE WholeProgram'
  BY <1>19 DEF Collect
<1>20. CASE UNCHANGED vars
  BY <1>20 DEF vars
<1>21. QED
  BY <1>1, <1>2, <1>3, <1>4, <1>5, <1>6, <1>7, <1>8, <1>9, <1>10, <1>11, <1>12, <1>13, <1>14, <1>15, <1>16, <1>17, <1>18, <1>19, <1>20
  DEF Next, ReloadSteps, RequestSteps

--------------------------------------------------------------------------------

\* Inv holds from the start and every step of the server preserves it.
THEOREM Inductive == Spec => []Inv
<1>1. Init => Inv
  <2> SUFFICES ASSUME Init PROVE Inv
    OBVIOUS
  <2> USE ServerAssumption DEF Init, NoVersion
  <2>1. TypeOK
    BY DEF TypeOK, Versions, ReloadLocations
  <2>2. OneOwner /\ CleanPool /\ Booted /\ Reading /\ Loaded /\ ServedWhole /\ Fresh /\ WholeProgram
    BY DEF OneOwner, CleanPool, Booted, Reading, Loaded, ServedWhole, Fresh, WholeProgram
  <2>3. QED BY <2>1, <2>2 DEF Inv
<1>2. Inv /\ [Next]_vars => Inv'
  BY TypeStep, OwnerStep, PoolStep, BootedStep, ReadingStep, LoadedStep, FreshStep, ServedStep, WholeStep DEF Inv
<1>3. QED BY <1>1, <1>2, PTL DEF Spec

\* TypeOK is true in every reachable state.
THEOREM TypeCorrect == Spec => []TypeOK
<1>1. Inv => TypeOK
  BY DEF Inv
<1>2. QED BY <1>1, Inductive, PTL

\* Handlers, reloader, server and pool never share a runtime (Free, Fork, Swap).
THEOREM RuntimesHaveOneOwner == Spec => []OneOwner
<1>1. Inv => OneOwner
  BY DEF Inv
<1>2. QED BY <1>1, Inductive, PTL

\* Every request runs one whole version of the program (MainHandler's Fork
\* against reloadPreparedJossRuntime).
THEOREM RequestsRunWholePrograms == Spec => []WholeProgram
<1>1. Inv => WholeProgram
  BY DEF Inv
<1>2. QED BY <1>1, Inductive, PTL

\* What is served changes only to a version with all its units, and never
\* while a request copies it (reloadPreparedJossRuntime under the lock).
THEOREM ReloadIsAtomic == Spec => ServedProgram
<1>1. Inv /\ [Next]_vars => Switches
  <2> SUFFICES ASSUME Inv, [Next]_vars, current # None, Served' # Served
               PROVE  LockFree /\ Served' = Program(loading)
    BY DEF Switches
  <2> USE ServerAssumption DEF Inv, Served, OneOwner, TypeOK, objects, disk, reloader, handlers, history
  <2>1. ASSUME EditSource PROVE FALSE
    BY <2>1 DEF EditSource
  <2>2. ASSUME EditEnvironment PROVE FALSE
    BY <2>2 DEF EditEnvironment
  <2>3. ASSUME StartReload PROVE FALSE
    BY <2>3 DEF StartReload, LockFree, Serving
  <2>4. ASSUME Reject PROVE FALSE
    BY <2>4 DEF Reject
  <2>5. ASSUME NEW r \in Runtimes, Acquire(r) PROVE FALSE
    BY <2>5 DEF Acquire
  <2>6. ASSUME NEW u \in Units, ExecuteUnit(u) PROVE FALSE
    BY <2>6 DEF ExecuteUnit
  <2>7. ASSUME SessionsUnavailable PROVE FALSE
    BY <2>7 DEF SessionsUnavailable, Free
  <2>8. ASSUME UnitPanics PROVE FALSE
    BY <2>8 DEF UnitPanics, Free
  <2>9. CASE Swap
    BY <2>9 DEF Swap, Loaded, Reading, LockFree
  <2>10. ASSUME FreePrevious PROVE FALSE
    BY <2>10 DEF FreePrevious, Free
  <2>11. ASSUME OpenDatabase PROVE FALSE
    BY <2>11 DEF OpenDatabase
  <2>12. ASSUME Schedule PROVE FALSE
    BY <2>12 DEF Schedule
  <2>13. ASSUME ReloadEnvironment PROVE FALSE
    BY <2>13 DEF ReloadEnvironment, LockFree, Serving
  <2>14. ASSUME NEW q \in Requests, Arrive(q) PROVE FALSE
    BY <2>14 DEF Arrive, Serving
  <2>15. ASSUME NEW q \in Requests, Admit(q) PROVE FALSE
    BY <2>15 DEF Admit
  <2>16. ASSUME NEW q \in Requests, NEW r \in Runtimes, Fork(q, r) PROVE FALSE
    BY <2>16 DEF Fork, ForkOf, Unused
  <2>17. ASSUME NEW q \in Requests, UseDatabase(q) PROVE FALSE
    BY <2>17 DEF UseDatabase
  <2>18. ASSUME NEW q \in Requests, Respond(q) PROVE FALSE
    BY <2>18 DEF Respond, Free
  <2>19. ASSUME NEW r \in Runtimes, Collect(r) PROVE FALSE
    BY <2>19 DEF Collect
  <2>20. CASE UNCHANGED vars
    BY <2>20 DEF vars
  <2>21. QED
    BY <2>1, <2>2, <2>3, <2>4, <2>5, <2>6, <2>7, <2>8, <2>9, <2>10, <2>11, <2>12, <2>13, <2>14, <2>15, <2>16, <2>17, <2>18, <2>19, <2>20
    DEF Next, ReloadSteps, RequestSteps
<1>2. QED BY <1>1, Inductive, PTL DEF ServedProgram, Spec
================================================================================
