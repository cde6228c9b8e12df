----------------------- MODULE SessionLifecycleProofs -----------------------
(***************************************************************************)
(* Proofs about SessionLifecycle for every value of the constants.         *)
(***************************************************************************)
EXTENDS SessionLifecycle, TLAPS

\* The three parts of TypeOK: the procedures, the registry with its clients, the rest.
ProcsTyped == procs \in [Procs -> ProcSet]
RegistryTyped ==
    /\ session \in Instances \cup {None} /\ isReady \in BOOLEAN
    /\ client \in [Instances -> ClientStates] /\ listeners \subseteq Instances
RestTyped ==
    /\ wipe \in {None, "scheduled", "running"}
    /\ booting \in BOOLEAN /\ account \in BOOLEAN /\ auth \in BOOLEAN
    /\ farewell \in BOOLEAN /\ overtaken \in BOOLEAN

LEMMA TypeParts == TypeOK <=> ProcsTyped /\ RegistryTyped /\ RestTyped
  BY DEF TypeOK, ProcsTyped, RegistryTyped, RestTyped

LEMMA TypePartsNext == ProcsTyped' /\ RegistryTyped' /\ RestTyped' => TypeOK'
  BY DEF TypeOK, ProcsTyped, RegistryTyped, RestTyped

-----------------------------------------------------------------------------
(* What the steps of a procedure keep *)

LEMMA ProcTyped ==
    ASSUME NEW pc \in Pcs, NEW i \in Instances \cup {None}, NEW n \in 0 .. SoftAttempts - 1
    PROVE  Proc(pc, i, n) \in ProcSet
  BY DEF Proc, ProcSet

LEMMA NoProcTyped == NoProc \in ProcSet
  BY SessionAssumption DEF NoProc, Proc, ProcSet, Pcs

LEMMA ClientTyped ==
    ASSUME ProcsTyped, NEW p \in Procs
    PROVE  procs[p].client \in Instances \cup {None}
  BY DEF ProcsTyped, ProcSet

LEMMA SameTyped == ASSUME ProcsTyped, UNCHANGED procs PROVE ProcsTyped'
  BY DEF ProcsTyped

LEMMA BeginTyped ==
    ASSUME ProcsTyped, NEW p \in Procs, NEW pc \in Pcs, NEW i \in Instances \cup {None},
           Begin(p, pc, i)
    PROVE  ProcsTyped'
<1>1. Proc(pc, i, 0) \in ProcSet
  BY ProcTyped, SessionAssumption
<1> QED
  BY <1>1 DEF Begin, ProcsTyped

LEMMA GotoTyped ==
    ASSUME ProcsTyped, NEW p \in Procs, NEW pc \in Pcs, Goto(p, pc)
    PROVE  ProcsTyped'
<1>1. procs[p] \in ProcSet
  BY DEF ProcsTyped
<1>2. Proc(pc, procs[p].client, procs[p].tries) \in ProcSet
  BY <1>1, ProcTyped DEF ProcSet
<1> QED
  BY <1>2 DEF Goto, ProcsTyped

LEMMA GotoWithTyped ==
    ASSUME ProcsTyped, NEW p \in Procs, NEW pc \in Pcs, NEW i \in Instances \cup {None},
           GotoWith(p, pc, i)
    PROVE  ProcsTyped'
<1>1. Proc(pc, i, 0) \in ProcSet
  BY ProcTyped, SessionAssumption
<1> QED
  BY <1>1 DEF GotoWith, ProcsTyped

LEMMA EndTyped == ASSUME ProcsTyped, NEW p \in Procs, End(p) PROVE ProcsTyped'
  BY NoProcTyped DEF End, ProcsTyped

-----------------------------------------------------------------------------
(* TypeOK: the steps of procedures in progress *)

LEMMA ProceedTyped ==
    ASSUME TypeOK, NEW p \in Procs, Proceed(p)
    PROVE  TypeOK'
<1>1. ProcsTyped /\ RegistryTyped /\ RestTyped
  BY TypeParts
<1>2. procs[p].client \in Instances \cup {None}
  BY <1>1, ClientTyped
<1>3. CASE StartSessionDone(p)
  <2>1. ProcsTyped'
    BY <1>1, <1>2, <1>3, EndTyped
       DEF StartSessionDone, Unregister, Initialized, NotInitialized, Pcs, ReconnectPcs,
           RestorePcs, QrPcs, HandlerPcs, WipingPcs, DeletePcs, RegistryTyped
  <2>2. RegistryTyped'
    BY <1>1, <1>2, <1>3 DEF StartSessionDone, Unregister, Initialized, NotInitialized,
       RegistryTyped, ClientStates
  <2>3. RestTyped'
    BY <1>1, <1>3 DEF StartSessionDone, RestTyped
  <2> QED
    BY <2>1, <2>2, <2>3, TypePartsNext
<1>4. CASE RelinkReleased(p)
  <2>1. ProcsTyped'
    BY <1>1, <1>2, <1>4, GotoWithTyped
       DEF RelinkReleased, Places, Pcs, ReconnectPcs, RestorePcs, QrPcs, HandlerPcs, WipingPcs,
           DeletePcs,
           RegistryTyped
  <2>2. RegistryTyped'
    BY <1>1, <1>2, <1>4 DEF RelinkReleased, Places, RegistryTyped, ClientStates
  <2>3. RestTyped'
    BY <1>1, <1>4 DEF RelinkReleased, RestTyped
  <2> QED
    BY <2>1, <2>2, <2>3, TypePartsNext
<1>5. CASE RelinkDone(p)
  <2>1. ProcsTyped'
    BY <1>1, <1>2, <1>5, GotoWithTyped, EndTyped
       DEF RelinkDone, SetNotReady, Initialized, NotInitialized, Pcs, ReconnectPcs, RestorePcs,
           QrPcs, HandlerPcs, WipingPcs, DeletePcs, RegistryTyped
  <2>2. RegistryTyped'
    BY <1>1, <1>2, <1>5 DEF RelinkDone, SetNotReady, Initialized, NotInitialized, RegistryTyped,
       ClientStates
  <2>3. RestTyped'
    BY <1>1, <1>5 DEF RelinkDone, RestTyped
  <2> QED
    BY <2>1, <2>2, <2>3, TypePartsNext
<1>6. CASE RestoreSpecificLaunch(p)
  <2>1. ProcsTyped'
    BY <1>1, <1>2, <1>6, GotoWithTyped
       DEF RestoreSpecificLaunch, Places, Pcs, ReconnectPcs, RestorePcs, QrPcs, HandlerPcs,
           WipingPcs, DeletePcs,
           RegistryTyped
  <2>2. RegistryTyped'
    BY <1>1, <1>2, <1>6 DEF RestoreSpecificLaunch, Places, RegistryTyped, ClientStates
  <2>3. RestTyped'
    BY <1>1, <1>6 DEF RestoreSpecificLaunch, RestTyped
  <2> QED
    BY <2>1, <2>2, <2>3, TypePartsNext
<1>7. CASE RestoreSpecificDone(p)
  <2>1. ProcsTyped'
    BY <1>1, <1>2, <1>7, GotoTyped, EndTyped
       DEF RestoreSpecificDone, Unregister, Initialized, NotInitialized, Pcs, ReconnectPcs,
           RestorePcs, QrPcs, HandlerPcs, WipingPcs, DeletePcs, RegistryTyped
  <2>2. RegistryTyped'
    BY <1>1, <1>2, <1>7 DEF RestoreSpecificDone, Unregister, Initialized, NotInitialized,
       RegistryTyped, ClientStates
  <2>3. RestTyped'
    BY <1>1, <1>7 DEF RestoreSpecificDone, RestTyped
  <2> QED
    BY <2>1, <2>2, <2>3, TypePartsNext
<1>8. CASE RestoreInitialized(p)
  <2>1. ProcsTyped'
    BY <1>1, <1>2, <1>8, GotoTyped
       DEF RestoreInitialized, Initialized, NotInitialized, Pcs, ReconnectPcs, RestorePcs,
           QrPcs, HandlerPcs, WipingPcs, DeletePcs, RegistryTyped
  <2>2. RegistryTyped'
    BY <1>1, <1>2, <1>8 DEF RestoreInitialized, Initialized, NotInitialized, RegistryTyped,
       ClientStates
  <2>3. RestTyped'
    BY <1>1, <1>8 DEF RestoreInitialized, RestTyped
  <2> QED
    BY <2>1, <2>2, <2>3, TypePartsNext
<1>9. CASE RestoreAuth(p)
  <2>1. ProcsTyped'
    BY <1>1, <1>2, <1>9, GotoTyped, EndTyped
       DEF RestoreAuth, Pcs, ReconnectPcs, RestorePcs, QrPcs, HandlerPcs, WipingPcs, DeletePcs,
           RegistryTyped
  <2>2. RegistryTyped'
    BY <1>1, <1>2, <1>9 DEF RestoreAuth, RegistryTyped, ClientStates
  <2>3. RestTyped'
    BY <1>1, <1>9 DEF RestoreAuth, RestTyped
  <2> QED
    BY <2>1, <2>2, <2>3, TypePartsNext
<1>10. CASE Teardown(p)
  <2>1. ProcsTyped'
    BY <1>1, <1>2, <1>10, EndTyped
       DEF Teardown, Unregister, Destroyed, Pcs, ReconnectPcs, RestorePcs, QrPcs, HandlerPcs,
           WipingPcs, DeletePcs,
           RegistryTyped
  <2>2. RegistryTyped'
    BY <1>1, <1>2, <1>10 DEF Teardown, Unregister, Destroyed, RegistryTyped, ClientStates
  <2>3. RestTyped'
    BY <1>1, <1>10 DEF Teardown, RestTyped
  <2> QED
    BY <2>1, <2>2, <2>3, TypePartsNext
<1>11. CASE SoftInit(p)
  <2>1. ProcsTyped'
    <3>1. CASE End(p)
      BY <1>1, <3>1, EndTyped
    <3>2. CASE procs' = [procs EXCEPT ![p] =
                           IF @.tries + 1 < SoftAttempts THEN Proc("gap", None, @.tries + 1)
                           ELSE Proc("find", None, 0)]
      <4> DEFINE n == procs[p].tries
                 r == IF n + 1 < SoftAttempts THEN Proc("gap", None, n + 1)
                      ELSE Proc("find", None, 0)
      <4>1. n \in 0 .. SoftAttempts - 1
        BY <1>1 DEF ProcsTyped, ProcSet
      <4>2. r \in ProcSet
        BY <4>1, ProcTyped, SessionAssumption DEF Pcs, ReconnectPcs
      <4> HIDE DEF r
      <4>3. procs' = [procs EXCEPT ![p] = r]
        BY <3>2 DEF r
      <4> QED
        BY <1>1, <4>2, <4>3 DEF ProcsTyped
    <3> QED
      BY <1>11, <3>1, <3>2 DEF SoftInit
  <2>2. RegistryTyped'
    BY <1>1, <1>2, <1>11 DEF SoftInit, SetReady, RegistryTyped, ClientStates
  <2>3. RestTyped'
    BY <1>1, <1>11 DEF SoftInit, RestTyped
  <2> QED
    BY <2>1, <2>2, <2>3, TypePartsNext
<1>12. CASE SoftRetry(p)
  <2>1. ProcsTyped'
    <3>1. CASE session = None
      BY <1>1, <1>12, <3>1, GotoWithTyped DEF SoftRetry, Pcs, ReconnectPcs
    <3>2. CASE session # None
      <4>1. procs[p].tries \in 0 .. SoftAttempts - 1
        BY <1>1 DEF ProcsTyped, ProcSet
      <4>2. Proc("soft", session, procs[p].tries) \in ProcSet
        BY <1>1, <4>1, ProcTyped DEF RegistryTyped, Pcs, ReconnectPcs
      <4> QED
        BY <1>1, <1>12, <3>2, <4>2 DEF SoftRetry, ProcsTyped
    <3> QED
      BY <3>1, <3>2
  <2>2. RegistryTyped'
    BY <1>1, <1>2, <1>12 DEF SoftRetry, RegistryTyped, ClientStates
  <2>3. RestTyped'
    BY <1>1, <1>12 DEF SoftRetry, RestTyped
  <2> QED
    BY <2>1, <2>2, <2>3, TypePartsNext
<1>13. CASE FindAccount(p)
  <2>1. ProcsTyped'
    BY <1>1, <1>2, <1>13, GotoWithTyped, EndTyped
       DEF FindAccount, Launch, Free, Places, Pcs, ReconnectPcs, RestorePcs, QrPcs, HandlerPcs,
           WipingPcs, DeletePcs,
           RegistryTyped
  <2>2. RegistryTyped'
    BY <1>1, <1>2, <1>13 DEF FindAccount, Launch, Free, Places, RegistryTyped, ClientStates
  <2>3. RestTyped'
    BY <1>1, <1>13 DEF FindAccount, RestTyped
  <2> QED
    BY <2>1, <2>2, <2>3, TypePartsNext
<1>14. CASE Rebuild(p)
  <2>1. ProcsTyped'
    BY <1>1, <1>2, <1>14, GotoWithTyped
       DEF Rebuild, Places, Pcs, ReconnectPcs, RestorePcs, QrPcs, HandlerPcs, WipingPcs,
           DeletePcs, RegistryTyped
  <2>2. RegistryTyped'
    BY <1>1, <1>2, <1>14 DEF Rebuild, Places, RegistryTyped, ClientStates
  <2>3. RestTyped'
    BY <1>1, <1>14 DEF Rebuild, RestTyped
  <2> QED
    BY <2>1, <2>2, <2>3, TypePartsNext
<1>15. CASE RebuildInitialized(p)
  <2>1. ProcsTyped'
    BY <1>1, <1>2, <1>15, GotoTyped, EndTyped
       DEF RebuildInitialized, Unregister, Initialized, NotInitialized, Pcs, ReconnectPcs,
           RestorePcs, QrPcs, HandlerPcs, WipingPcs, DeletePcs, RegistryTyped
  <2>2. RegistryTyped'
    BY <1>1, <1>2, <1>15 DEF RebuildInitialized, Unregister, Initialized, NotInitialized,
       RegistryTyped, ClientStates
  <2>3. RestTyped'
    BY <1>1, <1>15 DEF RebuildInitialized, RestTyped
  <2> QED
    BY <2>1, <2>2, <2>3, TypePartsNext
<1>16. CASE RebuildAuth(p)
  <2>1. ProcsTyped'
    BY <1>1, <1>2, <1>16, GotoTyped, EndTyped
       DEF RebuildAuth, SetReady, Pcs, ReconnectPcs, RestorePcs, QrPcs, HandlerPcs, WipingPcs,
           DeletePcs,
           RegistryTyped
  <2>2. RegistryTyped'
    BY <1>1, <1>2, <1>16 DEF RebuildAuth, SetReady, RegistryTyped, ClientStates
  <2>3. RestTyped'
    BY <1>1, <1>16 DEF RebuildAuth, RestTyped
  <2> QED
    BY <2>1, <2>2, <2>3, TypePartsNext
<1>17. CASE GiveUp(p)
  <2>1. ProcsTyped'
    BY <1>1, <1>2, <1>17, EndTyped
       DEF GiveUp, Unregister, Destroyed, Pcs, ReconnectPcs, RestorePcs, QrPcs, HandlerPcs,
           WipingPcs, DeletePcs,
           RegistryTyped
  <2>2. RegistryTyped'
    BY <1>1, <1>2, <1>17 DEF GiveUp, Unregister, Destroyed, RegistryTyped, ClientStates
  <2>3. RestTyped'
    BY <1>1, <1>17 DEF GiveUp, RestTyped
  <2> QED
    BY <2>1, <2>2, <2>3, TypePartsNext
<1>18. CASE AccountReady(p)
  <2>1. ProcsTyped'
    BY <1>1, <1>18, GotoTyped, EndTyped DEF AccountReady, Pcs, HandlerPcs
  <2>2. RegistryTyped'
    BY <1>1, <1>2, <1>18 DEF AccountReady, RegistryTyped, ClientStates
  <2>3. WipeUnderWay \in BOOLEAN
    BY DEF WipeUnderWay
  <2>4. RestTyped'
    BY <1>1, <1>18, <2>3 DEF AccountReady, RestTyped
  <2> QED
    BY <2>1, <2>2, <2>4, TypePartsNext
<1>19. CASE SessionReady(p)
  <2>1. ProcsTyped'
    BY <1>1, <1>2, <1>19, EndTyped
       DEF SessionReady, SetReady, Pcs, ReconnectPcs, RestorePcs, QrPcs, HandlerPcs, WipingPcs,
           DeletePcs,
           RegistryTyped
  <2>2. RegistryTyped'
    BY <1>1, <1>2, <1>19 DEF SessionReady, SetReady, RegistryTyped, ClientStates
  <2>3. RestTyped'
    BY <1>1, <1>19 DEF SessionReady, RestTyped
  <2> QED
    BY <2>1, <2>2, <2>3, TypePartsNext
<1>20. CASE Dropped(p)
  <2>1. ProcsTyped'
    BY <1>1, <1>2, <1>20, GotoWithTyped, EndTyped
       DEF Dropped, SetNotReady, RunReconnection, Pcs, ReconnectPcs, RestorePcs, QrPcs,
           HandlerPcs, WipingPcs, DeletePcs, RegistryTyped
  <2>2. RegistryTyped'
    BY <1>1, <1>2, <1>20 DEF Dropped, SetNotReady, RunReconnection, RegistryTyped, ClientStates
  <2>3. RestTyped'
    BY <1>1, <1>20 DEF Dropped, RestTyped
  <2> QED
    BY <2>1, <2>2, <2>3, TypePartsNext
<1>21. CASE LogoutMark(p)
  <2>1. ProcsTyped'
    BY <1>1, <1>2, <1>21, GotoTyped
       DEF LogoutMark, Pcs, ReconnectPcs, RestorePcs, QrPcs, HandlerPcs, WipingPcs, DeletePcs,
           RegistryTyped
  <2>2. RegistryTyped'
    BY <1>1, <1>2, <1>21 DEF LogoutMark, RegistryTyped, ClientStates
  <2>3. RestTyped'
    BY <1>1, <1>21 DEF LogoutMark, RestTyped
  <2> QED
    BY <2>1, <2>2, <2>3, TypePartsNext
<1>22. CASE HandleLogout(p)
  <2>1. ProcsTyped'
    BY <1>1, <1>2, <1>22, GotoTyped, EndTyped
       DEF HandleLogout, Pcs, ReconnectPcs, RestorePcs, QrPcs, HandlerPcs, WipingPcs,
           DeletePcs, RegistryTyped
  <2>2. RegistryTyped'
    BY <1>1, <1>2, <1>22 DEF HandleLogout, RegistryTyped, ClientStates
  <2>3. RestTyped'
    BY <1>1, <1>22 DEF HandleLogout, RestTyped
  <2> QED
    BY <2>1, <2>2, <2>3, TypePartsNext
<1>23. CASE LogoutCleanup(p)
  <2>1. ProcsTyped'
    BY <1>1, <1>2, <1>23, GotoWithTyped
       DEF LogoutCleanup, SetNotReady, Pcs, ReconnectPcs, RestorePcs, QrPcs, HandlerPcs,
           WipingPcs, DeletePcs,
           RegistryTyped
  <2>2. RegistryTyped'
    BY <1>1, <1>2, <1>23 DEF LogoutCleanup, SetNotReady, RegistryTyped, ClientStates
  <2>3. RestTyped'
    BY <1>1, <1>23 DEF LogoutCleanup, RestTyped
  <2> QED
    BY <2>1, <2>2, <2>3, TypePartsNext
<1>24. CASE CleanupDestroyed(p)
  <2>1. ProcsTyped'
    BY <1>1, <1>2, <1>24, GotoTyped
       DEF CleanupDestroyed, Destroyed, Pcs, ReconnectPcs, RestorePcs, QrPcs, HandlerPcs,
           WipingPcs, DeletePcs,
           RegistryTyped
  <2>2. RegistryTyped'
    BY <1>1, <1>2, <1>24 DEF CleanupDestroyed, Destroyed, RegistryTyped, ClientStates
  <2>3. RestTyped'
    BY <1>1, <1>24 DEF CleanupDestroyed, RestTyped
  <2> QED
    BY <2>1, <2>2, <2>3, TypePartsNext
<1>25. CASE WipeFiles(p)
  <2>1. AfterFiles(p) \in ProcSet
    BY NoProcTyped, ProcTyped, SessionAssumption DEF AfterFiles, Pcs, HandlerPcs
  <2>2. ProcsTyped'
    <3>1. CASE auth /\ ~Deleting
      BY <1>1, <1>25, <3>1, GotoTyped DEF WipeFiles, Pcs, WipingPcs, DeletePcs
    <3>2. CASE ~(auth /\ ~Deleting)
      BY <1>1, <1>25, <2>1, <3>2 DEF WipeFiles, ProcsTyped
    <3> QED
      BY <3>1, <3>2
  <2>3. RegistryTyped'
    BY <1>1, <1>25 DEF WipeFiles, FilesDone, Unregister, RegistryTyped
  <2>4. RestTyped'
    BY <1>1, <1>25 DEF WipeFiles, FilesDone, RestTyped
  <2> QED
    BY <2>2, <2>3, <2>4, TypePartsNext
<1>28. CASE LoadAccounts(p)
  <2>1. ProcsTyped'
    BY <1>1, <1>2, <1>28, GotoTyped, EndTyped
       DEF LoadAccounts, Pcs, WipingPcs
  <2>2. RegistryTyped'
    BY <1>1, <1>28 DEF LoadAccounts, RegistryTyped
  <2>3. RestTyped'
    BY <1>1, <1>28 DEF LoadAccounts, RestTyped
  <2> QED
    BY <2>1, <2>2, <2>3, TypePartsNext
<1>29. CASE LoadSession(p)
  <2>1. ProcsTyped'
    BY <1>1, <1>2, <1>29, GotoWithTyped, EndTyped
       DEF LoadSession, Free, Places, Pcs, RestorePcs, RegistryTyped
  <2>2. RegistryTyped'
    BY <1>1, <1>2, <1>29 DEF LoadSession, Launch, Free, Places, RegistryTyped, ClientStates
  <2>3. RestTyped'
    BY <1>1, <1>29 DEF LoadSession, RestTyped
  <2> QED
    BY <2>1, <2>2, <2>3, TypePartsNext
<1>30. CASE CleanOrphan(p)
  <2>1. ProcsTyped'
    BY <1>1, <1>2, <1>30, GotoTyped, EndTyped
       DEF CleanOrphan, Pcs, WipingPcs, DeletePcs
  <2>2. RegistryTyped'
    BY <1>1, <1>30 DEF CleanOrphan, RegistryTyped
  <2>3. RestTyped'
    BY <1>1, <1>30 DEF CleanOrphan, RestTyped
  <2> QED
    BY <2>1, <2>2, <2>3, TypePartsNext
<1>31. CASE DeleteFiles(p)
  <2>1. AfterFiles(p) \in ProcSet
    BY NoProcTyped, ProcTyped, SessionAssumption DEF AfterFiles, Pcs, HandlerPcs
  <2>2. Proc("lateFiles", None, 0) \in ProcSet
    BY ProcTyped, SessionAssumption DEF Pcs, WipingPcs
  <2>3. ProcsTyped'
    BY <1>1, <1>31, <2>1, <2>2 DEF DeleteFiles, ProcsTyped
  <2>4. RegistryTyped'
    BY <1>1, <1>31 DEF DeleteFiles, FilesDone, Unregister, RegistryTyped
  <2>5. RestTyped'
    BY <1>1, <1>31 DEF DeleteFiles, FilesDone, RestTyped
  <2> QED
    BY <2>3, <2>4, <2>5, TypePartsNext
<1>32. CASE LateDeletion(p)
  <2>1. ProcsTyped'
    BY <1>1, <1>32, EndTyped DEF LateDeletion
  <2>2. RegistryTyped'
    BY <1>1, <1>32 DEF LateDeletion, RegistryTyped
  <2>3. RestTyped'
    BY <1>1, <1>32 DEF LateDeletion, RestTyped
  <2> QED
    BY <2>1, <2>2, <2>3, TypePartsNext
<1>26. CASE DeleteDocument(p)
  <2>1. ProcsTyped'
    BY <1>1, <1>2, <1>26, EndTyped
       DEF DeleteDocument, Pcs, ReconnectPcs, RestorePcs, QrPcs, HandlerPcs, WipingPcs,
           DeletePcs, RegistryTyped
  <2>2. RegistryTyped'
    BY <1>1, <1>2, <1>26 DEF DeleteDocument, RegistryTyped, ClientStates
  <2>3. RestTyped'
    BY <1>1, <1>26 DEF DeleteDocument, RestTyped
  <2> QED
    BY <2>1, <2>2, <2>3, TypePartsNext
<1>27. CASE Released(p)
  <2>1. ProcsTyped'
    BY <1>1, <1>2, <1>27, EndTyped
       DEF Released, Unregister, Destroyed, Pcs, ReconnectPcs, RestorePcs, QrPcs, HandlerPcs,
           WipingPcs, DeletePcs,
           RegistryTyped
  <2>2. RegistryTyped'
    BY <1>1, <1>2, <1>27 DEF Released, Unregister, Destroyed, RegistryTyped, ClientStates
  <2>3. RestTyped'
    BY <1>1, <1>27 DEF Released, RestTyped
  <2> QED
    BY <2>1, <2>2, <2>3, TypePartsNext
<1> QED
  BY <1>3, <1>4, <1>5, <1>6, <1>7, <1>8, <1>9, <1>10, <1>11, <1>12, <1>13, <1>14, <1>15, <1>16,
     <1>17, <1>18, <1>19, <1>20, <1>21, <1>22, <1>23, <1>24, <1>25, <1>26, <1>27, <1>28, <1>29,
     <1>30, <1>31, <1>32 DEF Proceed

-----------------------------------------------------------------------------
(* TypeOK: the requests, the probe and the timers *)

LEMMA CallTyped ==
    ASSUME TypeOK, NEW p \in Procs, Call(p)
    PROVE  TypeOK'
<1>1. ProcsTyped /\ RegistryTyped /\ RestTyped
  BY TypeParts
<1>2. procs[p].client \in Instances \cup {None}
  BY <1>1, ClientTyped
<1>3. CASE StartSession(p)
  <2>1. ProcsTyped'
    BY <1>1, <1>2, <1>3, BeginTyped
       DEF StartSession, Launch, Relaunch, Free, Places, Pcs, ReconnectPcs, RestorePcs, QrPcs,
           HandlerPcs, WipingPcs, DeletePcs, RegistryTyped
  <2>2. RegistryTyped'
    BY <1>1, <1>2, <1>3 DEF StartSession, Launch, Relaunch, Free, Places, Begin, RegistryTyped,
       ClientStates
  <2>3. RestTyped'
    BY <1>1, <1>3 DEF StartSession, RestTyped
  <2> QED
    BY <2>1, <2>2, <2>3, TypePartsNext
<1>4. CASE Relink(p)
  <2>1. ProcsTyped'
    BY <1>1, <1>2, <1>4, BeginTyped
       DEF Relink, SetNotReady, Launch, Free, Places, Pcs, ReconnectPcs, RestorePcs, QrPcs,
           HandlerPcs, WipingPcs, DeletePcs, RegistryTyped
  <2>2. RegistryTyped'
    BY <1>1, <1>2, <1>4 DEF Relink, SetNotReady, Launch, Free, Places, Begin, RegistryTyped,
       ClientStates
  <2>3. RestTyped'
    BY <1>1, <1>4 DEF Relink, RestTyped
  <2> QED
    BY <2>1, <2>2, <2>3, TypePartsNext
<1>5. CASE LoadFolders(p)
  <2>1. ProcsTyped'
    BY <1>1, <1>5, BeginTyped, SameTyped DEF LoadFolders, Pcs
  <2>2. RegistryTyped'
    BY <1>1, <1>5 DEF LoadFolders, RegistryTyped
  <2>3. RestTyped'
    BY <1>1, <1>5 DEF LoadFolders, RestTyped
  <2> QED
    BY <2>1, <2>2, <2>3, TypePartsNext
<1>6. CASE RestoreSpecific(p)
  <2>1. ProcsTyped'
    BY <1>1, <1>2, <1>6, BeginTyped
       DEF RestoreSpecific, Launch, Free, Places, Pcs, ReconnectPcs, RestorePcs, QrPcs,
           HandlerPcs, WipingPcs, DeletePcs, RegistryTyped
  <2>2. RegistryTyped'
    BY <1>1, <1>2, <1>6 DEF RestoreSpecific, Launch, Free, Places, Begin, RegistryTyped,
       ClientStates
  <2>3. RestTyped'
    BY <1>1, <1>6 DEF RestoreSpecific, RestTyped
  <2> QED
    BY <2>1, <2>2, <2>3, TypePartsNext
<1>7. CASE Reconnect(p)
  <2>1. ProcsTyped'
    BY <1>1, <1>2, <1>7, GotoWithTyped
       DEF Reconnect, SetNotReady, RunReconnection, Pcs, ReconnectPcs, RestorePcs, QrPcs,
           HandlerPcs, WipingPcs, DeletePcs, RegistryTyped
  <2>2. RegistryTyped'
    BY <1>1, <1>2, <1>7 DEF Reconnect, SetNotReady, RunReconnection, RegistryTyped, ClientStates
  <2>3. RestTyped'
    BY <1>1, <1>7 DEF Reconnect, RestTyped
  <2> QED
    BY <2>1, <2>2, <2>3, TypePartsNext
<1>8. CASE Release(p)
  <2>1. ProcsTyped'
    BY <1>1, <1>2, <1>8, BeginTyped
       DEF Release, SetNotReady, Pcs, ReconnectPcs, RestorePcs, QrPcs, HandlerPcs, WipingPcs,
           DeletePcs, RegistryTyped
  <2>2. RegistryTyped'
    BY <1>1, <1>2, <1>8 DEF Release, SetNotReady, Begin, RegistryTyped, ClientStates
  <2>3. RestTyped'
    BY <1>1, <1>8 DEF Release, RestTyped
  <2> QED
    BY <2>1, <2>2, <2>3, TypePartsNext
<1>9. CASE DeleteAccount(p)
  <2>1. ProcsTyped'
    BY <1>1, <1>2, <1>9, BeginTyped
       DEF DeleteAccount, Pcs, ReconnectPcs, RestorePcs, QrPcs, HandlerPcs, WipingPcs,
           DeletePcs, RegistryTyped
  <2>2. RegistryTyped'
    BY <1>1, <1>2, <1>9 DEF DeleteAccount, Begin, RegistryTyped, ClientStates
  <2>3. RestTyped'
    BY <1>1, <1>9 DEF DeleteAccount, RestTyped
  <2> QED
    BY <2>1, <2>2, <2>3, TypePartsNext
<1>10. CASE CleanupFires(p)
  <2>1. ProcsTyped'
    BY <1>1, <1>2, <1>10, BeginTyped, SameTyped
       DEF CleanupFires, SetNotReady, Pcs, ReconnectPcs, RestorePcs, QrPcs, HandlerPcs,
           WipingPcs, DeletePcs,
           RegistryTyped
  <2>2. RegistryTyped'
    BY <1>1, <1>2, <1>10 DEF CleanupFires, SetNotReady, Begin, RegistryTyped, ClientStates
  <2>3. RestTyped'
    BY <1>1, <1>10 DEF CleanupFires, RestTyped
  <2> QED
    BY <2>1, <2>2, <2>3, TypePartsNext
<1> QED
  BY <1>3, <1>4, <1>5, <1>6, <1>7, <1>8, <1>9, <1>10 DEF Call

-----------------------------------------------------------------------------
(* TypeOK: the events, and the theorem *)

LEMMA ReadyTyped ==
    ASSUME TypeOK, NEW i \in Instances, NEW p \in Procs, Ready(i, p)
    PROVE  TypeOK'
<1>1. ProcsTyped /\ RegistryTyped /\ RestTyped
  BY TypeParts
<1>2. ProcsTyped'
  <2>1. /\ Proc("ready", i, 0) \in ProcSet
        /\ Proc("connectedRestore", i, 0) \in ProcSet
        /\ Proc("connectedRebuild", i, 0) \in ProcSet
    BY ProcTyped, SessionAssumption DEF Pcs, HandlerPcs, RestorePcs, ReconnectPcs
  <2>2. ASSUME NEW q \in Procs
        PROVE  procs'[q] \in ProcSet
    BY <1>1, <2>1 DEF Ready, ProcsTyped
  <2>3. procs' = [q \in Procs |-> procs'[q]]
    BY DEF Ready
  <2> QED
    BY <2>2, <2>3 DEF ProcsTyped
<1>3. RegistryTyped'
  BY <1>1 DEF Ready, RegistryTyped, ClientStates
<1>4. RestTyped'
  BY <1>1 DEF Ready, RestTyped
<1> QED
  BY <1>2, <1>3, <1>4, TypePartsNext

LEMMA DisconnectedTyped ==
    ASSUME TypeOK, NEW i \in Instances, NEW p \in Procs, Disconnected(i, p)
    PROVE  TypeOK'
<1>1. ProcsTyped /\ RegistryTyped /\ RestTyped
  BY TypeParts
<1>2. ProcsTyped'
  BY <1>1, BeginTyped DEF Disconnected, Pcs, HandlerPcs, WipingPcs
<1>3. RegistryTyped'
  BY <1>1 DEF Disconnected, SetNotReady, RegistryTyped, ClientStates
<1>4. RestTyped'
  BY <1>1 DEF Disconnected, RestTyped
<1> QED
  BY <1>2, <1>3, <1>4, TypePartsNext

LEMMA DieTyped == ASSUME TypeOK, NEW i \in Instances, Die(i) PROVE TypeOK'
  BY DEF TypeOK, Die, ClientStates

LEMMA CrashTyped == ASSUME TypeOK, Crash PROVE TypeOK'
  BY NoProcTyped DEF TypeOK, Crash, Unregister, ClientStates

LEMMA InitTyped == Init => TypeOK
  BY NoProcTyped DEF Init, TypeOK, ClientStates

LEMMA NextTyped == TypeOK /\ [Next]_vars => TypeOK'
<1> SUFFICES ASSUME TypeOK, [Next]_vars PROVE TypeOK'
  OBVIOUS
<1>1. ASSUME NEW p \in Procs, Proceed(p) \/ Call(p)
      PROVE  TypeOK'
  BY <1>1, ProceedTyped, CallTyped
<1>2. ASSUME NEW i \in Instances, NEW p \in Procs, Ready(i, p) \/ Disconnected(i, p)
      PROVE  TypeOK'
  BY <1>2, ReadyTyped, DisconnectedTyped
<1>3. ASSUME NEW i \in Instances, Die(i)
      PROVE  TypeOK'
  BY <1>3, DieTyped
<1>4. CASE UNCHANGED vars
  BY <1>4 DEF vars, TypeOK
<1> QED
  BY <1>1, <1>2, <1>3, <1>4, CrashTyped DEF Next

\* The types hold in every reachable state, and a reconnection makes no more soft
\* attempts than MAX_SOFT_INIT_ATTEMPTS (reconnection.service.ts:50).
THEOREM TypeCorrect == Spec => []TypeOK
  BY InitTyped, NextTyped, PTL DEF Spec

-----------------------------------------------------------------------------
(* RegisteredServed: the steps of procedures in progress *)

LEMMA ProceedServed ==
    ASSUME TypeOK, RegisteredServed, NEW p \in Procs, Proceed(p)
    PROVE  RegisteredServed'
<1>1. CASE StartSessionDone(p)
  BY <1>1, SessionAssumption
     DEF StartSessionDone, End, Proc, NoProc, Unregister,
         Initialized, NotInitialized, TypeOK, ProcSet, ClientStates, RegisteredServed, Retiring
<1>2. CASE RelinkReleased(p)
  BY <1>2, SessionAssumption
     DEF RelinkReleased, GotoWith, Proc, Places, TypeOK, ProcSet,
         ClientStates, RegisteredServed, Retiring
<1>3. CASE RelinkDone(p)
  BY <1>3, SessionAssumption
     DEF RelinkDone, GotoWith, End, Proc, NoProc, SetNotReady,
         Initialized, NotInitialized, TypeOK, ProcSet, ClientStates, RegisteredServed, Retiring
<1>4. CASE RestoreSpecificLaunch(p)
  BY <1>4, SessionAssumption
     DEF RestoreSpecificLaunch, GotoWith, Proc, Places, TypeOK,
         ProcSet, ClientStates, RegisteredServed, Retiring
<1>5. CASE RestoreSpecificDone(p)
  BY <1>5, SessionAssumption
     DEF RestoreSpecificDone, Goto, End, Proc, NoProc, Unregister,
         Initialized, NotInitialized, TypeOK, ProcSet, ClientStates, RegisteredServed, Retiring
<1>6. CASE RestoreInitialized(p)
  BY <1>6, SessionAssumption
     DEF RestoreInitialized, Goto, Proc, Initialized,
         NotInitialized, TypeOK, ProcSet, ClientStates, RegisteredServed, Retiring
<1>7. CASE RestoreAuth(p)
  BY <1>7, SessionAssumption
     DEF RestoreAuth, Goto, End, Proc, NoProc, TypeOK, ProcSet,
         ClientStates, RegisteredServed, Retiring
<1>8. CASE Teardown(p)
  BY <1>8, SessionAssumption
     DEF Teardown, End, Proc, NoProc, Unregister, Destroyed,
         TypeOK, ProcSet, ClientStates, RegisteredServed, Retiring
<1>9. CASE SoftInit(p)
  BY <1>9, SessionAssumption
     DEF SoftInit, End, Proc, NoProc, SetReady, TypeOK, ProcSet,
         ClientStates, RegisteredServed, Retiring
<1>10. CASE SoftRetry(p)
  BY <1>10, SessionAssumption
     DEF SoftRetry, GotoWith, Proc, TypeOK, ProcSet, ClientStates,
         RegisteredServed, Retiring
<1>11. CASE FindAccount(p)
  BY <1>11, SessionAssumption
     DEF FindAccount, GotoWith, End, Proc, NoProc, Launch, Free,
         Places, TypeOK, ProcSet, ClientStates, RegisteredServed, Retiring
<1>12. CASE Rebuild(p)
  BY <1>12, SessionAssumption
     DEF Rebuild, GotoWith, Proc, Places, TypeOK, ProcSet,
         ClientStates, RegisteredServed, Retiring
<1>13. CASE RebuildInitialized(p)
  BY <1>13, SessionAssumption
     DEF RebuildInitialized, Goto, End, Proc, NoProc, Unregister,
         Initialized, NotInitialized, TypeOK, ProcSet, ClientStates, RegisteredServed, Retiring
<1>14. CASE RebuildAuth(p)
  BY <1>14, SessionAssumption
     DEF RebuildAuth, Goto, End, Proc, NoProc, SetReady, TypeOK,
         ProcSet, ClientStates, RegisteredServed, Retiring
<1>15. CASE GiveUp(p)
  BY <1>15, SessionAssumption
     DEF GiveUp, End, Proc, NoProc, Unregister, Destroyed, TypeOK,
         ProcSet, ClientStates, RegisteredServed, Retiring
<1>16. CASE AccountReady(p)
  BY <1>16, SessionAssumption
     DEF AccountReady, Goto, End, Proc, NoProc, TypeOK, ProcSet, ClientStates,
         RegisteredServed, Retiring
<1>17. CASE SessionReady(p)
  BY <1>17, SessionAssumption
     DEF SessionReady, End, Proc, NoProc, SetReady, TypeOK,
         ProcSet, ClientStates, RegisteredServed, Retiring
<1>18. CASE Dropped(p)
  BY <1>18, SessionAssumption
     DEF Dropped, GotoWith, End, Proc, NoProc, SetNotReady,
         RunReconnection, TypeOK, ProcSet, ClientStates, RegisteredServed, Retiring
<1>19. CASE LogoutMark(p)
  BY <1>19, SessionAssumption
     DEF LogoutMark, Goto, Proc, TypeOK, ProcSet, ClientStates,
         RegisteredServed, Retiring
<1>20. CASE HandleLogout(p)
  BY <1>20, SessionAssumption
     DEF HandleLogout, Goto, End, Proc, NoProc, TypeOK, ProcSet,
         ClientStates, RegisteredServed, Retiring
<1>21. CASE LogoutCleanup(p)
  BY <1>21, SessionAssumption
     DEF LogoutCleanup, GotoWith, Proc, SetNotReady, TypeOK,
         ProcSet, ClientStates, RegisteredServed, Retiring
<1>22. CASE CleanupDestroyed(p)
  BY <1>22, SessionAssumption
     DEF CleanupDestroyed, Goto, Proc, Destroyed, TypeOK, ProcSet,
         ClientStates, RegisteredServed, Retiring
<1>23. CASE WipeFiles(p)
  BY <1>23, SessionAssumption
     DEF WipeFiles, FilesDone, AfterFiles, Goto, Proc, NoProc, Unregister,
         TypeOK, ProcSet, ClientStates, RegisteredServed, Retiring
<1>26. CASE LoadAccounts(p)
  BY <1>26 DEF LoadAccounts, Goto, End, Proc, NoProc, TypeOK, ProcSet, RegisteredServed, Retiring
<1>29. CASE CleanOrphan(p)
  BY <1>29 DEF CleanOrphan, Goto, End, Proc, NoProc, TypeOK, ProcSet, RegisteredServed, Retiring
<1>30. CASE LateDeletion(p)
  BY <1>30 DEF LateDeletion, End, Proc, NoProc, TypeOK, ProcSet, RegisteredServed, Retiring
<1>27. CASE LoadSession(p)
  BY <1>27, SessionAssumption
     DEF LoadSession, GotoWith, End, Proc, NoProc, Launch, Free, Places,
         TypeOK, ProcSet, ClientStates, RegisteredServed, Retiring
<1>28. CASE DeleteFiles(p)
  <2>1. CASE procs[p].pc = "deleteOrphan"
    <3>1. UNCHANGED <<session, client, listeners>>
      BY <1>28, <2>1 DEF DeleteFiles, FilesDone
    <3>2. ASSUME NEW q \in Procs, Retiring(q, session)
          PROVE  Retiring(q, session)'
      <4>1. q # p /\ procs[q] # NoProc
        BY <2>1, <3>2 DEF Retiring, NoProc, Proc
      <4>2. procs'[q] = procs[q]
        BY <1>28, <4>1 DEF DeleteFiles, TypeOK
      <4> QED
        BY <3>1, <3>2, <4>2 DEF Retiring
    <3> QED
      BY <3>1, <3>2 DEF RegisteredServed
  <2>2. CASE procs[p].pc # "deleteOrphan"
    BY <1>28, <2>2 DEF DeleteFiles, FilesDone, Unregister, RegisteredServed
  <2> QED
    BY <2>1, <2>2
<1>24. CASE DeleteDocument(p)
  BY <1>24, SessionAssumption
     DEF DeleteDocument, End, Proc, NoProc, TypeOK, ProcSet,
         ClientStates, RegisteredServed, Retiring
<1>25. CASE Released(p)
  BY <1>25, SessionAssumption
     DEF Released, End, Proc, NoProc, Unregister, Destroyed,
         TypeOK, ProcSet, ClientStates, RegisteredServed, Retiring
<1> QED
  BY <1>1, <1>2, <1>3, <1>4, <1>5, <1>6, <1>7, <1>8, <1>9, <1>10, <1>11, <1>12, <1>13, <1>14,
     <1>15, <1>16, <1>17, <1>18, <1>19, <1>20, <1>21, <1>22, <1>23, <1>24, <1>25, <1>26, <1>27,
     <1>28, <1>29, <1>30 DEF Proceed

-----------------------------------------------------------------------------
(* RegisteredServed: the requests, the probe and the timers *)

LEMMA CallServed ==
    ASSUME TypeOK, RegisteredServed, NEW p \in Procs, Call(p)
    PROVE  RegisteredServed'
<1>1. CASE StartSession(p)
  BY <1>1, SessionAssumption
     DEF StartSession, Begin, Proc, NoProc, Launch, Relaunch, Free,
         Places, TypeOK, ProcSet, ClientStates, RegisteredServed, Retiring
<1>2. CASE Relink(p)
  BY <1>2, SessionAssumption
     DEF Relink, Begin, Proc, NoProc, SetNotReady, Launch, Free,
         Places, TypeOK, ProcSet, ClientStates, RegisteredServed, Retiring
<1>3. CASE LoadFolders(p)
  BY <1>3 DEF LoadFolders, Begin, Proc, NoProc, TypeOK, RegisteredServed, Retiring
<1>4. CASE RestoreSpecific(p)
  BY <1>4, SessionAssumption
     DEF RestoreSpecific, Begin, Proc, NoProc, Launch, Free,
         Places, TypeOK, ProcSet, ClientStates, RegisteredServed, Retiring
<1>5. CASE Reconnect(p)
  BY <1>5, SessionAssumption
     DEF Reconnect, GotoWith, Proc, NoProc, SetNotReady,
         RunReconnection, TypeOK, ProcSet, ClientStates, RegisteredServed, Retiring
<1>6. CASE Release(p)
  BY <1>6, SessionAssumption
     DEF Release, Begin, Proc, NoProc, SetNotReady, TypeOK,
         ProcSet, ClientStates, RegisteredServed, Retiring
<1>7. CASE DeleteAccount(p)
  BY <1>7, SessionAssumption
     DEF DeleteAccount, Begin, Proc, NoProc, TypeOK, ProcSet,
         ClientStates, RegisteredServed, Retiring
<1>8. CASE CleanupFires(p)
  BY <1>8, SessionAssumption
     DEF CleanupFires, Begin, Proc, NoProc, SetNotReady, TypeOK,
         ProcSet, ClientStates, RegisteredServed, Retiring
<1> QED
  BY <1>1, <1>2, <1>3, <1>4, <1>5, <1>6, <1>7, <1>8 DEF Call

-----------------------------------------------------------------------------
(* RegisteredServed: the events, and the theorem *)

\* A ready event changes procedures that retire no client.
LEMMA ReadyServed ==
    ASSUME TypeOK, RegisteredServed, NEW i \in Instances, NEW p \in Procs, Ready(i, p)
    PROVE  RegisteredServed'
<1>1. ASSUME NEW q \in Procs, Retiring(q, session)
      PROVE  Retiring(q, session)'
  <2>1. procs'[q] = procs[q]
    BY <1>1 DEF Ready, Retiring, Proc, NoProc
  <2> QED
    BY <1>1, <2>1 DEF Ready, Retiring
<1> QED
  BY <1>1 DEF Ready, RegisteredServed, TypeOK

LEMMA DisconnectedServed ==
    ASSUME TypeOK, RegisteredServed, NEW i \in Instances, NEW p \in Procs, Disconnected(i, p)
    PROVE  RegisteredServed'
  BY DEF Disconnected, Begin, NoProc, Proc, SetNotReady, TypeOK, RegisteredServed, Retiring

LEMMA DieServed ==
    ASSUME TypeOK, RegisteredServed, NEW i \in Instances, Die(i)
    PROVE  RegisteredServed'
  BY DEF Die, TypeOK, RegisteredServed, Retiring

LEMMA NextServed == TypeOK /\ RegisteredServed /\ [Next]_vars => RegisteredServed'
<1> SUFFICES ASSUME TypeOK, RegisteredServed, [Next]_vars PROVE RegisteredServed'
  OBVIOUS
<1>1. ASSUME NEW p \in Procs, Proceed(p) \/ Call(p)
      PROVE  RegisteredServed'
  BY <1>1, ProceedServed, CallServed
<1>2. ASSUME NEW i \in Instances, NEW p \in Procs, Ready(i, p) \/ Disconnected(i, p)
      PROVE  RegisteredServed'
  BY <1>2, ReadyServed, DisconnectedServed
<1>3. ASSUME NEW i \in Instances, Die(i)
      PROVE  RegisteredServed'
  BY <1>3, DieServed
<1>4. CASE Crash
  BY <1>4 DEF Crash, Unregister, RegisteredServed
<1>5. CASE UNCHANGED vars
  BY <1>5 DEF vars, RegisteredServed, Retiring
<1> QED
  BY <1>1, <1>2, <1>3, <1>4, <1>5 DEF Next

\* Whatever the number of clients and of procedures that interleave, a session that stays
\* registered has a client that is alive and that has its handlers: every procedure that
\* destroys a client or detaches its handlers is on its way to unregister it.
THEOREM SessionsServed == Spec => []RegisteredServed
<1>1. Init => RegisteredServed
  BY DEF Init, RegisteredServed
<1> QED
  BY <1>1, InitTyped, NextTyped, NextServed, PTL DEF Spec

-----------------------------------------------------------------------------
(* AuthKept *)

\* The situations in which the files may go.
Meant == farewell \/ ~account \/ overtaken

\* While anyone is on the way to delete the files, be it a logout, the delayed cleanup of a
\* deleted account, the restoration of a session without an account or a timer, they may go:
\* whoever was there when the account was linked is remembered by overtaken.
WipesMeant == WipeUnderWay => Meant

FilesSpared == auth /\ ~auth' => Meant

\* What most steps do: nothing that has to do with the files.
Uninvolved(p) ==
    /\ \A q \in Procs \ {p} : procs'[q].pc \in WipingPcs => procs[q].pc \in WipingPcs
    /\ procs'[p].pc \in WipingPcs => procs[p].pc \in WipingPcs
    /\ UNCHANGED <<wipe, account, farewell, overtaken>> /\ (auth => auth')

LEMMA UninvolvedSpares ==
    ASSUME WipesMeant, NEW p \in Procs, Uninvolved(p)
    PROVE  WipesMeant' /\ FilesSpared
<1>1. WipeUnderWay' => WipeUnderWay
  BY DEF WipeUnderWay, Uninvolved
<1> QED
  BY <1>1 DEF WipesMeant, Meant, FilesSpared, Uninvolved

\* A step of one that is on the way already, or that leaves the files and Meant alone.
LEMMA MeantSpares ==
    ASSUME Meant \/ auth' = auth, Meant'
    PROVE  WipesMeant' /\ FilesSpared
  BY DEF WipesMeant, FilesSpared, Meant

LEMMA UnderWayMeant ==
    ASSUME WipesMeant, NEW p \in Procs, procs[p].pc \in WipingPcs \/ wipe # None
    PROVE  Meant
  BY DEF WipesMeant, WipeUnderWay

LEMMA ProceedSpares ==
    ASSUME TypeOK, WipesMeant, NEW p \in Procs, Proceed(p)
    PROVE  WipesMeant' /\ FilesSpared
<1>1. CASE StartSessionDone(p) \/ RelinkReleased(p) \/ RelinkDone(p)
  <2>1. Uninvolved(p)
    BY <1>1 DEF StartSessionDone, RelinkReleased, RelinkDone, End, GotoWith, Proc, NoProc,
                WipingPcs, DeletePcs, Uninvolved, TypeOK
  <2> QED
    BY <2>1, UninvolvedSpares
<1>2. CASE \/ RestoreSpecificLaunch(p) \/ RestoreSpecificDone(p) \/ LoadSession(p)
           \/ RestoreInitialized(p) \/ RestoreAuth(p) \/ Teardown(p)
  <2>1. Uninvolved(p)
    BY <1>2 DEF RestoreSpecificLaunch, RestoreSpecificDone, RestoreInitialized, RestoreAuth,
                LoadSession, Teardown, End, Goto, GotoWith, Proc, NoProc,
                WipingPcs, DeletePcs, Uninvolved, TypeOK
  <2> QED
    BY <2>1, UninvolvedSpares
<1>3. CASE \/ SoftInit(p) \/ SoftRetry(p) \/ FindAccount(p) \/ Dropped(p)
  <2>1. Uninvolved(p)
    BY <1>3 DEF SoftInit, SoftRetry, FindAccount, Dropped, RunReconnection, End, GotoWith, Proc,
                NoProc, WipingPcs, DeletePcs, Uninvolved, TypeOK
  <2> QED
    BY <2>1, UninvolvedSpares
<1>4. CASE Rebuild(p) \/ RebuildInitialized(p) \/ RebuildAuth(p) \/ GiveUp(p)
  <2>1. Uninvolved(p)
    BY <1>4 DEF Rebuild, RebuildInitialized, RebuildAuth, GiveUp, End, Goto, GotoWith, Proc,
                NoProc, WipingPcs, DeletePcs, Uninvolved, TypeOK
  <2> QED
    BY <2>1, UninvolvedSpares
<1>5. CASE SessionReady(p) \/ Released(p)
  <2>1. Uninvolved(p)
    BY <1>5 DEF SessionReady, Released, End, Proc, NoProc, WipingPcs, DeletePcs, Uninvolved,
                TypeOK
  <2> QED
    BY <2>1, UninvolvedSpares
<1>6. CASE AccountReady(p)
  <2>1. CASE UNCHANGED account /\ UNCHANGED <<farewell, overtaken>>
    <3>1. Uninvolved(p)
      BY <1>6, <2>1 DEF AccountReady, Goto, End, Proc, NoProc, WipingPcs, DeletePcs, Uninvolved,
                        TypeOK
    <3> QED
      BY <3>1, UninvolvedSpares
  <2>2. CASE overtaken' = WipeUnderWay
    <3>1. WipeUnderWay' => WipeUnderWay
      BY <1>6 DEF AccountReady, Goto, End, Proc, NoProc, WipingPcs, DeletePcs, WipeUnderWay,
                  TypeOK
    <3> QED
      BY <1>6, <2>2, <3>1 DEF AccountReady, WipesMeant, Meant, FilesSpared
  <2> QED
    BY <1>6, <2>1, <2>2 DEF AccountReady
<1>7. CASE LogoutMark(p) \/ HandleLogout(p) \/ LogoutCleanup(p) \/ CleanupDestroyed(p)
  <2>1. Uninvolved(p)
    BY <1>7 DEF LogoutMark, HandleLogout, LogoutCleanup, CleanupDestroyed, End, Goto, GotoWith,
                Proc, NoProc, WipingPcs, DeletePcs, Uninvolved, TypeOK
  <2> QED
    BY <2>1, UninvolvedSpares
<1>8. CASE WipeFiles(p) \/ DeleteFiles(p) \/ LateDeletion(p)
  <2>1. Meant
    BY <1>8, UnderWayMeant DEF WipeFiles, DeleteFiles, LateDeletion, WipingPcs, DeletePcs
  <2>2. UNCHANGED <<account, farewell, overtaken>>
    BY <1>8 DEF WipeFiles, DeleteFiles, LateDeletion
  <2> QED
    BY <2>1, <2>2, MeantSpares DEF Meant
<1>9. CASE LoadAccounts(p)
  <2>1. CASE account
    <3>1. Uninvolved(p)
      BY <1>9, <2>1 DEF LoadAccounts, Goto, End, Proc, NoProc, WipingPcs, DeletePcs, Uninvolved,
                        TypeOK
    <3> QED
      BY <3>1, UninvolvedSpares
  <2>2. CASE ~account
    BY <1>9, <2>2, MeantSpares DEF LoadAccounts, Meant
  <2> QED
    BY <2>1, <2>2
<1>10. CASE CleanOrphan(p)
  <2>1. Uninvolved(p)
    BY <1>10 DEF CleanOrphan, Goto, End, Proc, NoProc, WipingPcs, DeletePcs, Uninvolved, TypeOK
  <2> QED
    BY <2>1, UninvolvedSpares
<1>11. CASE DeleteDocument(p)
  <2>1. CASE farewell'
    BY <1>11, <2>1, MeantSpares DEF DeleteDocument, Meant
  <2>2. CASE UNCHANGED account /\ UNCHANGED farewell
    <3>1. Uninvolved(p)
      BY <1>11, <2>2 DEF DeleteDocument, End, Proc, NoProc, WipingPcs, DeletePcs, Uninvolved,
                         TypeOK
    <3> QED
      BY <3>1, UninvolvedSpares
  <2> QED
    BY <1>11, <2>1, <2>2 DEF DeleteDocument
<1> QED
  BY <1>1, <1>2, <1>3, <1>4, <1>5, <1>6, <1>7, <1>8, <1>9, <1>10, <1>11 DEF Proceed

LEMMA CallSpares ==
    ASSUME TypeOK, WipesMeant, NEW p \in Procs, Call(p)
    PROVE  WipesMeant' /\ FilesSpared
<1>1. CASE \/ StartSession(p) \/ Relink(p) \/ LoadFolders(p) \/ RestoreSpecific(p)
           \/ Reconnect(p) \/ Release(p)
  <2>1. Uninvolved(p)
    BY <1>1 DEF StartSession, Relink, LoadFolders, RestoreSpecific, Reconnect, RunReconnection,
                Release, Begin, GotoWith, Proc, NoProc, WipingPcs, DeletePcs, Uninvolved, TypeOK
  <2> QED
    BY <2>1, UninvolvedSpares
<1>2. CASE DeleteAccount(p)
  BY <1>2, MeantSpares DEF DeleteAccount, Meant
<1>3. CASE CleanupFires(p)
  <2>1. Meant
    BY <1>3, UnderWayMeant, SessionAssumption DEF CleanupFires, None
  <2>2. UNCHANGED <<account, farewell, overtaken>>
    BY <1>3 DEF CleanupFires
  <2> QED
    BY <2>1, <2>2, MeantSpares DEF Meant
<1> QED
  BY <1>1, <1>2, <1>3 DEF Call

LEMMA NextSpares ==
    ASSUME TypeOK, WipesMeant, [Next]_vars
    PROVE  WipesMeant' /\ FilesSpared
<1>1. ASSUME NEW p \in Procs, Proceed(p) \/ Call(p)
      PROVE  WipesMeant' /\ FilesSpared
  BY <1>1, ProceedSpares, CallSpares
<1>2. ASSUME NEW i \in Instances, NEW p \in Procs, Ready(i, p)
      PROVE  WipesMeant' /\ FilesSpared
  <2>1. Uninvolved(p)
    BY <1>2 DEF Ready, Proc, WipingPcs, DeletePcs, Uninvolved
  <2> QED
    BY <2>1, UninvolvedSpares
<1>3. ASSUME NEW i \in Instances, NEW p \in Procs, Disconnected(i, p)
      PROVE  WipesMeant' /\ FilesSpared
  <2>1. CASE farewell'
    BY <1>3, <2>1, MeantSpares DEF Disconnected, Meant
  <2>2. CASE ~farewell'
    <3>1. Begin(p, "dropped", i) /\ UNCHANGED <<account, farewell, overtaken, wipe, auth>>
      BY <1>3, <2>2 DEF Disconnected
    <3>2. Uninvolved(p)
      BY <3>1 DEF Begin, Proc, WipingPcs, DeletePcs, Uninvolved, TypeOK
    <3> QED
      BY <3>2, UninvolvedSpares
  <2> QED
    BY <2>1, <2>2
<1>4. ASSUME NEW i \in Instances, Die(i)
      PROVE  WipesMeant' /\ FilesSpared
  BY <1>4 DEF Die, WipesMeant, WipeUnderWay, Meant, FilesSpared
<1>5. CASE Crash
  BY <1>5 DEF Crash, NoProc, Proc, WipingPcs, DeletePcs, WipesMeant, WipeUnderWay, FilesSpared
<1>6. CASE UNCHANGED vars
  BY <1>6 DEF vars, WipesMeant, WipeUnderWay, Meant, FilesSpared
<1> QED
  BY <1>1, <1>2, <1>3, <1>4, <1>5, <1>6 DEF Next

\* However procedures interleave, die and are begun again, an account that was linked while
\* no deletion of its files was under way keeps them until it is logged out or deleted
\* (cleanup.service.ts:8, whatsapp.service.ts:293).
THEOREM FilesKept == Spec => AuthKept
<1>1. Init => WipesMeant
  BY DEF Init, WipesMeant, Meant
<1>2. TypeOK /\ WipesMeant /\ [Next]_vars => WipesMeant' /\ FilesSpared
  BY NextSpares
<1>3. [Next]_vars /\ FilesSpared => [auth /\ ~auth' => farewell \/ ~account \/ overtaken]_vars
  BY DEF FilesSpared, Meant
<1> QED
  BY <1>1, <1>2, <1>3, InitTyped, NextTyped, PTL DEF Spec, AuthKept

=============================================================================
