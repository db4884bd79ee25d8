----------------------------- MODULE LazyThread -----------------------------
(***************************************************************************)
(* The thread base class of MSSignal: mssdk/lazyutil/lazythread.h, in the  *)
(* build without ENABLE_PTHREAD (a detached std::thread).                  *)
(*                                                                         *)
(* Nothing joins the thread: Stop clears m_bRun and, with m_mutex held,    *)
(* polls m_bExit, which the thread sets as its last act.  m_bRun is        *)
(* written by both sides without a lock: by Run and Stop, by the thread    *)
(* when it starts (m_bRun = 1) and when it ends (m_bRun = 0).  m_bExit is  *)
(* set and never reset.                                                    *)
(***************************************************************************)
EXTENDS Integers, FiniteSets

CONSTANTS Users,       \* threads that call Run and Stop
          MaxThreads   \* bound: threads created

NoUser == "no_user"

ASSUME MaxThreadsAssumption == MaxThreads \in Nat
ASSUME UsersAssumption      == NoUser \notin Users

Threads == 1..MaxThreads

VARIABLES
    bRun,       \* m_bRun
    bExit,      \* m_bExit
    mutex,      \* holder of m_mutex
    userPc,     \* per user: "idle", "created" (in Run, after Create),
                \* "polling" (in Stop's loop)
    threadPc,   \* per thread: "none", "created", "proc" (in ThreadProc),
                \* "leaving" (ThreadProc returned), "cleared" (m_bRun = 0 done),
                \* "gone" (m_bExit = 1 done)
    created,    \* number of threads created
    asked,      \* ghost: threads that were alive when a Stop cleared m_bRun
    early,      \* ghost: threads that were alive when a Stop of them returned
    revived     \* ghost: threads whose m_bRun = 1 undid a Stop in progress

vars == <<bRun, bExit, mutex, userPc, threadPc, created, asked, early, revived>>

Init == /\ bRun = FALSE /\ bExit = 0
        /\ mutex = NoUser
        /\ userPc = [u \in Users |-> "idle"]
        /\ threadPc = [t \in Threads |-> "none"]
        /\ created = 0
        /\ asked = {} /\ early = {} /\ revived = {}

Alive == {t \in Threads : threadPc[t] \in {"created", "proc", "leaving", "cleared"}}

-----------------------------------------------------------------------------
\* Run and Stop.

\* Run, up to the return of Create (with m_bRun set it returns at once).
Run(u) ==
    /\ userPc[u] = "idle" /\ mutex = NoUser
    /\ ~bRun
    /\ created < MaxThreads
    /\ created' = created + 1
    /\ threadPc' = [threadPc EXCEPT ![created'] = "created"]
    /\ mutex' = u
    /\ userPc' = [userPc EXCEPT ![u] = "created"]
    /\ UNCHANGED <<bRun, bExit, asked, early, revived>>

\* m_bRun = 1 and the end of Run.
RunReturn(u) ==
    /\ userPc[u] = "created"
    /\ bRun' = TRUE
    /\ mutex' = NoUser
    /\ userPc' = [userPc EXCEPT ![u] = "idle"]
    /\ UNCHANGED <<bExit, threadPc, created, asked, early, revived>>

\* Stop, up to the loop (with m_bRun clear it returns at once).
Stop(u) ==
    /\ userPc[u] = "idle" /\ mutex = NoUser
    /\ bRun
    /\ bRun' = FALSE
    /\ mutex' = u
    /\ userPc' = [userPc EXCEPT ![u] = "polling"]
    /\ asked' = asked \cup Alive
    /\ UNCHANGED <<bExit, threadPc, created, early, revived>>

\* Mutant: the loop is left after its first sleep.
StopReturnAnyway(u) ==
    /\ userPc[u] = "polling"
    /\ mutex' = NoUser
    /\ userPc' = [userPc EXCEPT ![u] = "idle"]
    /\ early' = early \cup Alive
    /\ UNCHANGED <<bRun, bExit, threadPc, created, asked, revived>>

\* The loop ends when m_bExit is seen.
StopReturn(u) ==
    /\ userPc[u] = "polling"
    /\ bExit # 0
    /\ mutex' = NoUser
    /\ userPc' = [userPc EXCEPT ![u] = "idle"]
    /\ early' = early \cup Alive
    /\ UNCHANGED <<bRun, bExit, threadPc, created, asked, revived>>

-----------------------------------------------------------------------------
\* InitThreadProc, the body of thread t.

\* m_bRun = 1 before ThreadProc: undoes a Stop that came in between.
ThreadStart(t) ==
    /\ threadPc[t] = "created"
    /\ threadPc' = [threadPc EXCEPT ![t] = "proc"]
    /\ bRun' = TRUE
    /\ revived' = IF \E u \in Users : userPc[u] = "polling" THEN revived \cup {t} ELSE revived
    /\ UNCHANGED <<bExit, mutex, userPc, created, asked, early>>

\* Mutant: ThreadProc returns after one round.
ThreadLeavesAnyway(t) ==
    /\ threadPc[t] = "proc"
    /\ threadPc' = [threadPc EXCEPT ![t] = "leaving"]
    /\ UNCHANGED <<bRun, bExit, mutex, userPc, created, asked, early, revived>>

\* ThreadProc is "while (IsAlive())".
ThreadLeaves(t) ==
    /\ threadPc[t] = "proc"
    /\ ~bRun
    /\ threadPc' = [threadPc EXCEPT ![t] = "leaving"]
    /\ UNCHANGED <<bRun, bExit, mutex, userPc, created, asked, early, revived>>

\* m_bRun = 0, whoever has set it since.
ThreadClears(t) ==
    /\ threadPc[t] = "leaving"
    /\ threadPc' = [threadPc EXCEPT ![t] = "cleared"]
    /\ bRun' = FALSE
    /\ UNCHANGED <<bExit, mutex, userPc, created, asked, early, revived>>

\* Mutant: m_bExit is not set.
ThreadExitSilent(t) ==
    /\ threadPc[t] = "cleared"
    /\ threadPc' = [threadPc EXCEPT ![t] = "gone"]
    /\ UNCHANGED <<bRun, bExit, mutex, userPc, created, asked, early, revived>>

\* Mutant: m_bExit counts the threads that ended.
ThreadExitCounts(t) ==
    /\ threadPc[t] = "cleared"
    /\ threadPc' = [threadPc EXCEPT ![t] = "gone"]
    /\ bExit' = bExit + 1
    /\ UNCHANGED <<bRun, mutex, userPc, created, asked, early, revived>>

\* m_bExit = 1.
ThreadExit(t) ==
    /\ threadPc[t] = "cleared"
    /\ threadPc' = [threadPc EXCEPT ![t] = "gone"]
    /\ bExit' = 1
    /\ UNCHANGED <<bRun, mutex, userPc, created, asked, early, revived>>

-----------------------------------------------------------------------------

Next == \/ \E u \in Users : Run(u) \/ RunReturn(u) \/ Stop(u) \/ StopReturn(u)
        \/ \E t \in Threads : \/ ThreadStart(t) \/ ThreadLeaves(t)
                              \/ ThreadClears(t) \/ ThreadExit(t)

\* Threads are scheduled, and Stop polls m_bExit every 20 ms.
Fairness == /\ \A u \in Users : WF_vars(RunReturn(u)) /\ WF_vars(StopReturn(u))
            /\ \A t \in Threads : /\ WF_vars(ThreadStart(t)) /\ WF_vars(ThreadLeaves(t))
                                  /\ WF_vars(ThreadClears(t)) /\ WF_vars(ThreadExit(t))

Spec == Init /\ [][Next]_vars /\ Fairness

-----------------------------------------------------------------------------

TypeOK == /\ bRun \in BOOLEAN /\ bExit \in {0, 1}
          /\ mutex \in Users \cup {NoUser}
          /\ userPc \in [Users -> {"idle", "created", "polling"}]
          /\ threadPc \in [Threads -> {"none", "created", "proc", "leaving", "cleared", "gone"}]
          /\ created \in 0..MaxThreads
          /\ asked \subseteq Threads /\ early \subseteq Threads /\ revived \subseteq Threads

(***************************************************************************)
(* Stop joins the first thread: when Stop returns, the thread started by   *)
(* the first Run has set m_bExit and touches the object no more (the       *)
(* destructor relies on it).  Later threads have no such guarantee: the    *)
(* m_bExit the first one left behind lets Stop return at once.             *)
(***************************************************************************)
FirstStopJoins == 1 \notin early

(***************************************************************************)
(* A thread is not ended by accident: it leaves ThreadProc only if Stop    *)
(* was called while it was alive, or some Stop returned before its thread  *)
(* was gone, whose late m_bRun = 0 then ends the next one.                 *)
(***************************************************************************)
EndedByStop ==
    \A t \in Threads :
        threadPc[t] \in {"leaving", "cleared", "gone"} => t \in asked \/ early # {}

(***************************************************************************)
(* Stop returns: the thread leaves ThreadProc and sets m_bExit, unless the *)
(* thread had not started yet, and its m_bRun = 1 undid the m_bRun = 0 of  *)
(* Stop, which then polls forever with m_mutex held.                       *)
(***************************************************************************)
StopReturns ==
    \A u \in Users : userPc[u] = "polling" ~> (userPc[u] = "idle" \/ revived # {})
=============================================================================
