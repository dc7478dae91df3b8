--------------------------- MODULE MainlockProofs ---------------------------
(***************************************************************************)
(* What TLAPS shows of Mainlock for every nesting depth, or, where the     *)
(* runs show that nesting breaks the lock, for handlers that do not nest.  *)
(*                                                                         *)
(* Depths says which places of the UI thread leave main_lock_obtain_depth  *)
(* at which values, Owners ties main_lock to the places of both threads,   *)
(* and Waits ties the two flags they look at before they sleep.            *)
(***************************************************************************)
EXTENDS Mainlock, TLAPS

(* The counter agrees with the place of the UI thread. *)
Depths ==
  /\ upc = "idle" => main_lock_obtain_depth = 0 /\ is_exiting = FALSE
  /\ upc \in {"asleep", "woken", "lock", "signal"} => main_lock_obtain_depth = 1
  /\ upc \in {"asleep", "woken", "lock", "signal"} /\ is_exiting = TRUE => exit_depth = 0
  /\ upc = "inside" => main_lock_obtain_depth > 0
  /\ upc = "inside" /\ is_exiting = TRUE => main_lock_obtain_depth > exit_depth
  /\ upc = "inside" /\ is_exiting = TRUE =>
       main_lock_obtain_depth = exit_depth + 1 \/ main_lock_obtain_depth <= MaxDepth
  /\ upc = "inside" /\ is_exiting = FALSE => main_lock_obtain_depth <= MaxDepth
  /\ upc \in {"quit", "initiate", "join", "done"} =>
       is_exiting = TRUE /\ main_lock_obtain_depth = exit_depth

(* main_lock belongs to the thread whose place says so, and to no other. *)
Owners ==
  /\ main_lock = "vice" <=> ViceOwns \/ vpc = "abort"
  /\ main_lock = "ui" <=> \/ upc \in {"signal", "inside"}
                          \/ upc = "quit" /\ exit_depth > 0

(* The flags under internal_lock agree with the places of their writers. *)
Waits ==
  /\ ui_is_waiting <=> upc \in {"asleep", "woken"}
  /\ vice_thread_is_running <=> vpc \notin {"create", "leave", "gone"}
  /\ upc = "asleep" => vice_thread_is_running

DepthInv == TypeOK /\ Depths
FlatInv  == DepthInv /\ Owners

-----------------------------------------------------------------------------

(* At any nesting depth the counter and the flags stay in range: the counter *)
(* is never counted below 0, also not on the way out of the program.         *)
LEMMA DepthInvStep ==
  DepthInv /\ [Next]_vars => DepthInv'
<1> SUFFICES ASSUME DepthInv, [Next]_vars PROVE DepthInv'
  OBVIOUS
<1> USE MaxDepthAssumption DEF DepthInv, TypeOK, Depths, VicePlaces, UiPlaces,
        flags, exits, ViceGoes, UiGoes, SignalUi, UnlockMain
<1>1. CASE SetViceThread BY <1>1 DEF SetViceThread
<1>2. CASE StartLock BY <1>2 DEF StartLock
<1>3. CASE YieldUnlock BY <1>3 DEF YieldUnlock
<1>4. CASE YieldToUi BY <1>4 DEF YieldToUi
<1>5. CASE YieldToNobody BY <1>5 DEF YieldToNobody
<1>6. CASE HandoffSpurious BY <1>6 DEF HandoffSpurious
<1>7. CASE YieldEnd BY <1>7 DEF YieldEnd
<1>8. CASE ConsiderExit BY <1>8 DEF ConsiderExit
<1>9. CASE ViceLeave BY <1>9 DEF ViceLeave
<1>10. CASE ViceExit
  <2>1. TypeOK'
    BY <1>10, Zenon DEF ViceExit
  <2>2. Depths'
    BY <1>10 DEF ViceExit
  <2> QED
    BY <2>1, <2>2
<1>11. CASE ObtainNested BY <1>11 DEF ObtainNested
<1>12. CASE Obtain BY <1>12 DEF Obtain
<1>13. CASE ObtainSpurious BY <1>13 DEF ObtainSpurious
<1>14. CASE ObtainWoken BY <1>14 DEF ObtainWoken
<1>15. CASE ObtainLock BY <1>15 DEF ObtainLock
<1>16. CASE ObtainSignal BY <1>16 DEF ObtainSignal
<1>17. CASE Release BY <1>17 DEF Release
<1>18. CASE Quit
  <2>1. exit_depth' \in 0 .. MaxDepth /\ main_lock_obtain_depth' \in 0 .. MaxDepth + 1
    BY <1>18, MaxDepthAssumption DEF Quit
  <2>2. TypeOK'
    BY <1>18, <2>1, Zenon DEF Quit
  <2>3. Depths'
    BY <1>18 DEF Quit
  <2> QED
    BY <2>2, <2>3
<1>19. CASE ExitRelease BY <1>19 DEF ExitRelease
<1>20. CASE InitiateShutdown BY <1>20 DEF InitiateShutdown
<1>21. CASE Join BY <1>21 DEF Join
<1>22. CASE UNCHANGED vars BY <1>22 DEF vars
<1> QED
  BY <1>1, <1>2, <1>3, <1>4, <1>5, <1>6, <1>7, <1>8, <1>9, <1>10, <1>11, <1>12, <1>13,
     <1>14, <1>15, <1>16, <1>17, <1>18, <1>19, <1>20, <1>21, <1>22
     DEF Next, Vice, Ui, Ended

LEMMA DepthInvInit == Init => DepthInv
<1> SUFFICES ASSUME Init PROVE DepthInv
  OBVIOUS
<1>1. main_lock_obtain_depth \in 0 .. MaxDepth + 1 /\ exit_depth \in 0 .. MaxDepth
  BY MaxDepthAssumption DEF Init
<1>2. TypeOK
  BY <1>1, Zenon DEF Init, TypeOK, VicePlaces, UiPlaces
<1>3. Depths
  BY DEF Init, Depths
<1> QED
  BY <1>2, <1>3 DEF DepthInv

(* Every variable stays in its range, whatever the nesting depth. *)
THEOREM TypeCorrect == Spec => []TypeOK
<1>1. DepthInv => TypeOK
  BY DEF DepthInv
<1> QED
  BY DepthInvInit, DepthInvStep, <1>1, PTL DEF Spec

-----------------------------------------------------------------------------
(* When no handler triggers another one, the owner of main_lock is always    *)
(* the thread whose place says so.  With nesting this fails: the inner       *)
(* mainlock_release() opens the lock under the outer handler.                *)
LEMMA FlatInvStep ==
  ASSUME MaxDepth = 1
  PROVE  FlatInv /\ [Next]_vars => FlatInv'
<1> SUFFICES ASSUME FlatInv, [Next]_vars PROVE Owners'
  BY DepthInvStep DEF FlatInv
<1> USE DEF FlatInv, DepthInv, TypeOK, Depths, Owners, ViceOwns,
            flags, exits, ViceGoes, UiGoes, SignalUi, UnlockMain
<1>1. CASE SetViceThread BY <1>1 DEF SetViceThread
<1>2. CASE StartLock BY <1>2 DEF StartLock
<1>3. CASE YieldUnlock BY <1>3 DEF YieldUnlock
<1>4. CASE YieldToUi BY <1>4 DEF YieldToUi
<1>5. CASE YieldToNobody BY <1>5 DEF YieldToNobody
<1>6. CASE HandoffSpurious BY <1>6 DEF HandoffSpurious
<1>7. CASE YieldEnd BY <1>7 DEF YieldEnd
<1>8. CASE ConsiderExit BY <1>8 DEF ConsiderExit
<1>9. CASE ViceLeave BY <1>9 DEF ViceLeave
<1>10. CASE ViceExit BY <1>10 DEF ViceExit
<1>11. CASE ObtainNested
  <2>1. upc = "quit" /\ exit_depth > 0
    BY <1>11, MaxDepth = 1 DEF ObtainNested
  <2> QED
    BY <1>11, <2>1 DEF ObtainNested
<1>12. CASE Obtain BY <1>12 DEF Obtain
<1>13. CASE ObtainSpurious BY <1>13 DEF ObtainSpurious
<1>14. CASE ObtainWoken BY <1>14 DEF ObtainWoken
<1>15. CASE ObtainLock BY <1>15 DEF ObtainLock
<1>16. CASE ObtainSignal BY <1>16 DEF ObtainSignal
<1>17. CASE Release
  <2>1. main_lock_obtain_depth = 1
    BY <1>17, MaxDepth = 1 DEF Release
  <2> QED
    BY <1>17, <2>1 DEF Release
<1>18. CASE Quit BY <1>18 DEF Quit
<1>19. CASE ExitRelease BY <1>19 DEF ExitRelease
<1>20. CASE InitiateShutdown BY <1>20 DEF InitiateShutdown
<1>21. CASE Join BY <1>21 DEF Join
<1>22. CASE UNCHANGED vars BY <1>22 DEF vars
<1> QED
  BY <1>1, <1>2, <1>3, <1>4, <1>5, <1>6, <1>7, <1>8, <1>9, <1>10, <1>11, <1>12, <1>13,
     <1>14, <1>15, <1>16, <1>17, <1>18, <1>19, <1>20, <1>21, <1>22
     DEF Next, Vice, Ui, Ended

LEMMA FlatInvAlways ==
  ASSUME MaxDepth = 1
  PROVE  Spec => []FlatInv
<1>1. Init => FlatInv
  BY DepthInvInit DEF Init, FlatInv, Owners, ViceOwns
<1> QED
  BY <1>1, FlatInvStep, PTL DEF Spec

(* Each thread is in its sections of the core only as owner of main_lock. *)
THEOREM CoreIsLocked ==
  ASSUME MaxDepth = 1
  PROVE  Spec => []SectionsLocked
<1>1. FlatInv => SectionsLocked
  BY DEF FlatInv, Owners, SectionsLocked
<1> QED
  BY <1>1, FlatInvAlways, PTL

(* The UI thread never joins the vice thread with main_lock held. *)
THEOREM JoinIsFree ==
  ASSUME MaxDepth = 1
  PROVE  Spec => []JoinFreesLock
<1>1. FlatInv => JoinFreesLock
  BY DEF FlatInv, Owners, JoinFreesLock
<1> QED
  BY <1>1, FlatInvAlways, PTL

-----------------------------------------------------------------------------
(* The flags agree with the places, at any nesting depth and with spurious   *)
(* wake-ups.                                                                 *)
LEMMA WaitsStep ==
  Waits /\ [Next]_vars => Waits'
<1> SUFFICES ASSUME Waits, [Next]_vars PROVE Waits'
  OBVIOUS
<1> USE DEF Waits, flags, exits, ViceGoes, UiGoes, SignalUi
<1>1. CASE SetViceThread BY <1>1 DEF SetViceThread
<1>2. CASE StartLock BY <1>2 DEF StartLock
<1>3. CASE YieldUnlock BY <1>3 DEF YieldUnlock
<1>4. CASE YieldToUi BY <1>4 DEF YieldToUi
<1>5. CASE YieldToNobody BY <1>5 DEF YieldToNobody
<1>6. CASE HandoffSpurious BY <1>6 DEF HandoffSpurious
<1>7. CASE YieldEnd BY <1>7 DEF YieldEnd
<1>8. CASE ConsiderExit BY <1>8 DEF ConsiderExit
<1>9. CASE ViceLeave BY <1>9 DEF ViceLeave
<1>10. CASE ViceExit BY <1>10 DEF ViceExit
<1>11. CASE ObtainNested BY <1>11 DEF ObtainNested
<1>12. CASE Obtain BY <1>12 DEF Obtain
<1>13. CASE ObtainSpurious BY <1>13 DEF ObtainSpurious
<1>14. CASE ObtainWoken BY <1>14 DEF ObtainWoken
<1>15. CASE ObtainLock BY <1>15 DEF ObtainLock
<1>16. CASE ObtainSignal BY <1>16 DEF ObtainSignal
<1>17. CASE Release BY <1>17 DEF Release
<1>18. CASE Quit BY <1>18 DEF Quit
<1>19. CASE ExitRelease BY <1>19 DEF ExitRelease
<1>20. CASE InitiateShutdown BY <1>20 DEF InitiateShutdown
<1>21. CASE Join BY <1>21 DEF Join
<1>22. CASE UNCHANGED vars BY <1>22 DEF vars
<1> QED
  BY <1>1, <1>2, <1>3, <1>4, <1>5, <1>6, <1>7, <1>8, <1>9, <1>10, <1>11, <1>12, <1>13,
     <1>14, <1>15, <1>16, <1>17, <1>18, <1>19, <1>20, <1>21, <1>22
     DEF Next, Vice, Ui, Ended

LEMMA WaitsInit == Init => Waits
BY DEF Init, Waits

(* The UI thread never sleeps on ui_waiting_cond once the vice thread has    *)
(* passed its last look at ui_is_waiting.                                    *)
THEOREM NoWakeupIsLost == Spec => []NoLostWakeup
<1>1. Waits => NoLostWakeup
  BY DEF Waits, NoLostWakeup
<1> QED
  BY WaitsInit, WaitsStep, <1>1, PTL DEF Spec

(* The vice thread waits on ui_has_lock_cond only for a UI thread that is on *)
(* its way through mainlock_obtain() and will signal it.                     *)
HandoffAnswered == vpc = "handoff" => upc \in {"woken", "lock", "signal"}

LEMMA AnsweredStep ==
  HandoffAnswered /\ Waits /\ [Next]_vars => HandoffAnswered'
<1> SUFFICES ASSUME HandoffAnswered, Waits, [Next]_vars PROVE HandoffAnswered'
  OBVIOUS
<1> USE DEF HandoffAnswered, Waits, flags, exits, ViceGoes, UiGoes, SignalUi
<1>1. CASE SetViceThread BY <1>1 DEF SetViceThread
<1>2. CASE StartLock BY <1>2 DEF StartLock
<1>3. CASE YieldUnlock BY <1>3 DEF YieldUnlock
<1>4. CASE YieldToUi BY <1>4 DEF YieldToUi
<1>5. CASE YieldToNobody BY <1>5 DEF YieldToNobody
<1>6. CASE HandoffSpurious BY <1>6 DEF HandoffSpurious
<1>7. CASE YieldEnd BY <1>7 DEF YieldEnd
<1>8. CASE ConsiderExit BY <1>8 DEF ConsiderExit
<1>9. CASE ViceLeave BY <1>9 DEF ViceLeave
<1>10. CASE ViceExit BY <1>10 DEF ViceExit
<1>11. CASE ObtainNested BY <1>11 DEF ObtainNested
<1>12. CASE Obtain BY <1>12 DEF Obtain
<1>13. CASE ObtainSpurious BY <1>13 DEF ObtainSpurious
<1>14. CASE ObtainWoken BY <1>14 DEF ObtainWoken
<1>15. CASE ObtainLock BY <1>15 DEF ObtainLock
<1>16. CASE ObtainSignal BY <1>16 DEF ObtainSignal
<1>17. CASE Release BY <1>17 DEF Release
<1>18. CASE Quit BY <1>18 DEF Quit
<1>19. CASE ExitRelease BY <1>19 DEF ExitRelease
<1>20. CASE InitiateShutdown BY <1>20 DEF InitiateShutdown
<1>21. CASE Join BY <1>21 DEF Join
<1>22. CASE UNCHANGED vars BY <1>22 DEF vars
<1> QED
  BY <1>1, <1>2, <1>3, <1>4, <1>5, <1>6, <1>7, <1>8, <1>9, <1>10, <1>11, <1>12, <1>13,
     <1>14, <1>15, <1>16, <1>17, <1>18, <1>19, <1>20, <1>21, <1>22
     DEF Next, Vice, Ui, Ended

LEMMA HandoffIsAnswered ==
  Spec => []HandoffAnswered
<1>1. Init => HandoffAnswered
  BY DEF Init, HandoffAnswered
<1> QED
  BY <1>1, WaitsInit, WaitsStep, AnsweredStep, PTL DEF Spec

-----------------------------------------------------------------------------
(* Without nested handlers and wake-ups that nobody signalled, mainlock.c    *)
(* keeps the promise of CoreAccess: a vice thread that steps aside for the   *)
(* UI does not run again before the UI had the lock.                         *)
LEMMA StepSimulation ==
  ASSUME MaxDepth = 1
  PROVE  FlatInv /\ Waits /\ HandoffAnswered /\ [Next]_vars
           => [Core!Next]_<<main_lock, ~spurious /\ vpc = "handoff" /\ upc \in {"asleep", "woken", "lock"}>>
<1> DEFINE promise == ~spurious /\ vpc = "handoff" /\ upc \in {"asleep", "woken", "lock"}
<1> SUFFICES ASSUME FlatInv, Waits, HandoffAnswered, [Next]_vars
             PROVE  Core!Next \/ (UNCHANGED main_lock /\ promise' = promise)
  BY DEF flags
<1> USE DEF FlatInv, DepthInv, TypeOK, Depths, Owners, ViceOwns, HandoffAnswered,
            flags, exits, ViceGoes, UiGoes, SignalUi, UnlockMain, Core!Next
<1>1. CASE SetViceThread BY <1>1 DEF SetViceThread
<1>2. CASE StartLock BY <1>2 DEF StartLock, Core!ViceTakes
<1>3. CASE YieldUnlock BY <1>3 DEF YieldUnlock, Core!ViceYields
<1>4. CASE YieldToUi
  <2>1. main_lock # "vice" /\ upc' = "woken" /\ vpc' = "handoff" /\ main_lock' = main_lock
    BY <1>4 DEF YieldToUi, Waits
  <2>2. spurious' = spurious
    BY <1>4 DEF YieldToUi
  <2>3. CASE spurious
    <3>1. ~promise /\ ~promise'
      BY <2>2, <2>3, Zenon
    <3> QED
      BY <2>1, <3>1, Zenon
  <2>4. CASE ~spurious
    <3>1. promise'
      BY <2>1, <2>2, <2>4, Zenon
    <3> QED
      BY <2>1, <3>1, Zenon DEF Core!Promise
  <2> QED
    BY <2>3, <2>4
<1>5. CASE YieldToNobody BY <1>5 DEF YieldToNobody
<1>6. CASE HandoffSpurious BY <1>6 DEF HandoffSpurious
<1>7. CASE YieldEnd BY <1>7 DEF YieldEnd, Core!ViceTakes
<1>8. CASE ConsiderExit BY <1>8 DEF ConsiderExit
<1>9. CASE ViceLeave BY <1>9 DEF ViceLeave, Core!ViceYields
<1>10. CASE ViceExit BY <1>10 DEF ViceExit
<1>11. CASE ObtainNested BY <1>11 DEF ObtainNested
<1>12. CASE Obtain BY <1>12 DEF Obtain
<1>13. CASE ObtainSpurious BY <1>13 DEF ObtainSpurious
<1>14. CASE ObtainWoken BY <1>14 DEF ObtainWoken
<1>15. CASE ObtainLock
  <2>1. main_lock = "none" /\ main_lock' = "ui" /\ upc' = "signal"
    BY <1>15 DEF ObtainLock
  <2>2. promise' = FALSE
    BY <2>1
  <2> QED
    BY <2>1, <2>2, Zenon DEF Core!UiTakes
<1>16. CASE ObtainSignal BY <1>16 DEF ObtainSignal
<1>17. CASE Release BY <1>17 DEF Release, Core!UiReturns
<1>18. CASE Quit BY <1>18 DEF Quit
<1>19. CASE ExitRelease BY <1>19 DEF ExitRelease, Core!UiReturns
<1>20. CASE InitiateShutdown BY <1>20 DEF InitiateShutdown
<1>21. CASE Join BY <1>21 DEF Join
<1>22. CASE UNCHANGED vars BY <1>22 DEF vars
<1> QED
  BY <1>1, <1>2, <1>3, <1>4, <1>5, <1>6, <1>7, <1>8, <1>9, <1>10, <1>11, <1>12, <1>13,
     <1>14, <1>15, <1>16, <1>17, <1>18, <1>19, <1>20, <1>21, <1>22
     DEF Next, Vice, Ui, Ended

THEOREM HandoffImplementsCoreAccess ==
  ASSUME MaxDepth = 1
  PROVE  Spec => ImplementsCoreAccess
<1>1. Init => Core!Init
  BY DEF Init, Core!Init
<1> QED
  BY <1>1, WaitsInit, WaitsStep, HandoffIsAnswered, FlatInvAlways, StepSimulation, PTL
     DEF Spec, ImplementsCoreAccess, Core!Spec
=============================================================================
