-------------------------- MODULE LazyThread_proofs --------------------------
(***************************************************************************)
(* The invariants of LazyThread, for any number of users and threads.      *)
(***************************************************************************)
EXTENDS LazyThread, TLAPS

\* What the holder of m_mutex is doing.
Doing == IF mutex = NoUser THEN "idle" ELSE userPc[mutex]

\* m_mutex is held exactly while a user is inside Run or Stop.
Locked == \A u \in Users : userPc[u] # "idle" <=> mutex = u

\* Threads are numbered in the order Run creates them.
Made == \A t \in Threads : threadPc[t] = "none" <=> t > created

\* m_bExit is set by the first thread, the only one until then.
FirstExit ==
    /\ bExit = 0 => /\ early = {} /\ created <= 1
                    /\ \A t \in Threads : threadPc[t] # "gone"
    /\ bExit = 1 => 1 \in Threads /\ threadPc[1] = "gone"

\* Until a Stop returns too early, the last thread created is the only one that
\* can be alive, and only a Stop that polls for it lets it leave ThreadProc.
LastAlive ==
    early = {} =>
        \A t \in Threads :
            /\ t \in Alive =>
                  /\ t = created
                  /\ Doing = "idle" => bRun
                  /\ Doing # "polling" => /\ threadPc[t] \in {"created", "proc"}
                                          /\ threadPc[t] = "proc" => bRun
                  /\ Doing = "polling" => t \in asked
            /\ threadPc[t] = "gone" => t \in asked

ThreadInv == TypeOK /\ Locked /\ Made /\ FirstExit /\ LastAlive /\ FirstStopJoins

USE DEF Threads

LEMMA ThreadInit == Init => ThreadInv
<1> SUFFICES ASSUME Init PROVE ThreadInv
  OBVIOUS
<1> USE MaxThreadsAssumption, UsersAssumption DEF Init
<1>1. TypeOK
  <2>1. created \in 0..MaxThreads
    OBVIOUS
  <2>4. bRun \in BOOLEAN /\ bExit \in {0, 1}
    OBVIOUS
  <2>2. userPc \in [Users -> {"idle", "created", "polling"}]
    OBVIOUS
  <2>3. threadPc \in [Threads -> {"none", "created", "proc", "leaving", "cleared", "gone"}]
    OBVIOUS
  <2> QED BY <2>1, <2>2, <2>3, <2>4 DEF TypeOK
<1>2. Locked /\ Made /\ FirstStopJoins
  BY DEF Locked, Made, FirstStopJoins
<1>3. FirstExit /\ LastAlive
  BY DEF FirstExit, LastAlive, Alive
<1> QED BY <1>1, <1>2, <1>3 DEF ThreadInv

\* What the holder does, before and after a step, by who holds m_mutex.
LEMMA HolderDoes ==
    ASSUME ThreadInv, NEW u \in Users
    PROVE  /\ mutex = NoUser => Doing = "idle"
           /\ mutex = u => Doing = userPc[u] /\ Doing # "idle"
           /\ userPc[u] # "idle" => Doing = userPc[u]
BY UsersAssumption DEF ThreadInv, Locked, Doing

LEMMA RunKeeps == ASSUME ThreadInv, NEW u \in Users, Run(u) PROVE ThreadInv'
<1> USE MaxThreadsAssumption, UsersAssumption
<1>0. TypeOK /\ created \in 0..MaxThreads /\ created' = created + 1 /\ created' \in Threads
  BY DEF ThreadInv, TypeOK, Run
<1>1. /\ threadPc'[created'] = "created" /\ threadPc[created'] = "none"
      /\ \A t \in Threads : t # created' => threadPc'[t] = threadPc[t]
  BY <1>0 DEF ThreadInv, TypeOK, Run, Made
<1>2. Doing = "idle" /\ Doing' = "created"
  BY <1>0 DEF Run, Doing, TypeOK
<1>3. UNCHANGED <<bRun, bExit, asked, early>> /\ ~bRun
  BY DEF Run
<1>4. TypeOK'
  BY <1>0 DEF TypeOK, Run
<1>5. Locked'
  BY <1>0 DEF ThreadInv, Locked, Run, TypeOK
<1>6. Made'
  BY <1>0, <1>1 DEF ThreadInv, Made
<1>7. early = {} => Alive = {}
  BY <1>2, <1>3 DEF ThreadInv, LastAlive, Alive
<1>8. LastAlive'
  BY <1>0, <1>1, <1>2, <1>3, <1>7 DEF ThreadInv, LastAlive, Alive
<1>9. FirstExit'
  <2>1. ASSUME bExit = 0 PROVE created = 0
    <3>1. SUFFICES ASSUME created # 0 PROVE FALSE
      OBVIOUS
    <3>2. created \in Threads /\ threadPc[created] \in {"created", "proc", "leaving", "cleared"}
      BY <2>1, <3>1, <1>0 DEF ThreadInv, TypeOK, Made, FirstExit
    <3> QED BY <3>2, <2>1, <1>7 DEF ThreadInv, FirstExit, Alive
  <2>2. bExit \in {0, 1}
    BY <1>0 DEF TypeOK
  <2> QED BY <2>1, <2>2, <1>0, <1>1, <1>3 DEF ThreadInv, FirstExit
<1>10. FirstStopJoins'
  BY <1>3 DEF ThreadInv, FirstStopJoins
<1> QED BY <1>4, <1>5, <1>6, <1>8, <1>9, <1>10 DEF ThreadInv

LEMMA RunReturnKeeps == ASSUME ThreadInv, NEW u \in Users, RunReturn(u) PROVE ThreadInv'
<1> USE UsersAssumption
<1>0. TypeOK /\ Doing = "created" /\ Doing' = "idle"
  BY HolderDoes DEF ThreadInv, RunReturn, Doing
<1>1. TypeOK'
  BY <1>0 DEF TypeOK, RunReturn
<1>2. Locked'
  BY <1>0 DEF ThreadInv, Locked, RunReturn, TypeOK
<1>3. Made' /\ FirstExit' /\ FirstStopJoins'
  BY DEF ThreadInv, Made, FirstExit, FirstStopJoins, RunReturn
<1>4. LastAlive'
  BY <1>0 DEF ThreadInv, LastAlive, Alive, RunReturn
<1> QED BY <1>1, <1>2, <1>3, <1>4 DEF ThreadInv

LEMMA StopKeeps == ASSUME ThreadInv, NEW u \in Users, Stop(u) PROVE ThreadInv'
<1> USE UsersAssumption
<1>0. TypeOK /\ Doing' = "polling"
  BY DEF ThreadInv, Stop, Doing, TypeOK
<1>1. TypeOK'
  BY <1>0 DEF TypeOK, Stop, Alive
<1>2. Locked'
  BY <1>0 DEF ThreadInv, Locked, Stop, TypeOK
<1>3. Made' /\ FirstExit' /\ FirstStopJoins'
  BY DEF ThreadInv, Made, FirstExit, FirstStopJoins, Stop
<1>4. LastAlive'
  BY <1>0 DEF ThreadInv, LastAlive, Alive, Stop
<1> QED BY <1>1, <1>2, <1>3, <1>4 DEF ThreadInv

LEMMA StopReturnKeeps == ASSUME ThreadInv, NEW u \in Users, StopReturn(u) PROVE ThreadInv'
<1> USE UsersAssumption
<1>0. TypeOK /\ bExit = 1 /\ Doing = "polling" /\ Doing' = "idle"
  BY HolderDoes DEF ThreadInv, StopReturn, Doing, TypeOK
<1>1. TypeOK'
  BY <1>0 DEF TypeOK, StopReturn, Alive
<1>2. Locked'
  BY <1>0 DEF ThreadInv, Locked, StopReturn, TypeOK
<1>3. Made' /\ FirstExit'
  BY <1>0 DEF ThreadInv, Made, FirstExit, StopReturn
<1>4. 1 \notin Alive
  BY <1>0 DEF ThreadInv, FirstExit, Alive
<1>5. FirstStopJoins'
  BY <1>4 DEF ThreadInv, FirstStopJoins, StopReturn
<1>6. LastAlive'
  BY <1>0 DEF ThreadInv, LastAlive, Alive, StopReturn
<1> QED BY <1>1, <1>2, <1>3, <1>5, <1>6 DEF ThreadInv

\* A thread's own step leaves the other threads and the users alone.
LEMMA ThreadStepKeeps ==
    ASSUME ThreadInv, NEW t \in Threads,
           ThreadStart(t) \/ ThreadLeaves(t) \/ ThreadClears(t) \/ ThreadExit(t)
    PROVE  ThreadInv'
<1> USE MaxThreadsAssumption, UsersAssumption
<1>0. TypeOK
  BY DEF ThreadInv
<1>1. /\ \A s \in Threads : s # t => threadPc'[s] = threadPc[s]
      /\ UNCHANGED <<mutex, userPc, created, asked, early>>
      /\ \/ threadPc[t] = "created" /\ threadPc'[t] = "proc" /\ bRun' /\ UNCHANGED bExit
         \/ threadPc[t] = "proc" /\ threadPc'[t] = "leaving" /\ ~bRun /\ UNCHANGED <<bRun, bExit>>
         \/ threadPc[t] = "leaving" /\ threadPc'[t] = "cleared" /\ UNCHANGED bExit
         \/ threadPc[t] = "cleared" /\ threadPc'[t] = "gone" /\ UNCHANGED bRun /\ bExit' = 1
  BY <1>0 DEF ThreadStart, ThreadLeaves, ThreadClears, ThreadExit, TypeOK
<1>2. TypeOK'
  BY <1>0 DEF ThreadStart, ThreadLeaves, ThreadClears, ThreadExit, TypeOK
<1>3. Locked' /\ FirstStopJoins' /\ Doing' = Doing
  BY <1>1 DEF ThreadInv, Locked, FirstStopJoins, Doing
<1>4. Made'
  BY <1>1 DEF ThreadInv, Made
<1>5. bExit = 0 => t = 1
  BY <1>0, <1>1 DEF ThreadInv, Made, FirstExit, TypeOK
<1>6. FirstExit'
  BY <1>0, <1>1, <1>5 DEF ThreadInv, FirstExit, TypeOK
<1>7. LastAlive'
  <2> SUFFICES ASSUME early = {}
               PROVE  LastAlive'
    BY <1>1 DEF LastAlive
  <2>1. t \in Alive /\ t = created
    BY <1>1 DEF ThreadInv, LastAlive, Alive
  <2>2. \A s \in Threads : s # t => s \notin Alive'
    BY <1>1, <2>1 DEF ThreadInv, LastAlive, Alive
  <2>3. \A s \in Threads : s # t /\ threadPc'[s] = "gone" => s \in asked'
    BY <1>1 DEF ThreadInv, LastAlive
  <2>4. Doing \in {"idle", "created", "polling"}
    BY <1>0 DEF TypeOK, Doing
  <2>5. threadPc[t] \notin {"created", "proc"} => Doing = "polling"
    BY <2>1 DEF ThreadInv, LastAlive
  <2>6. threadPc'[t] = "leaving" => Doing = "polling"
    BY <1>1, <2>1 DEF ThreadInv, LastAlive
  <2>7. Doing = "polling" => t \in asked
    BY <2>1 DEF ThreadInv, LastAlive
  <2>8. Doing = "idle" => bRun
    BY <2>1 DEF ThreadInv, LastAlive
  <2> QED BY <1>1, <1>3, <2>1, <2>2, <2>3, <2>4, <2>5, <2>6, <2>7, <2>8 DEF LastAlive, Alive
<1> QED BY <1>2, <1>3, <1>4, <1>6, <1>7 DEF ThreadInv

LEMMA ThreadStep == ThreadInv /\ [Next]_vars => ThreadInv'
<1> SUFFICES ASSUME ThreadInv, [Next]_vars PROVE ThreadInv'
  OBVIOUS
<1>1. CASE \E u \in Users : Run(u) \/ RunReturn(u) \/ Stop(u) \/ StopReturn(u)
  BY <1>1, RunKeeps, RunReturnKeeps, StopKeeps, StopReturnKeeps
<1>2. CASE \E t \in Threads : \/ ThreadStart(t) \/ ThreadLeaves(t)
                              \/ ThreadClears(t) \/ ThreadExit(t)
  BY <1>2, ThreadStepKeeps
<1>3. CASE UNCHANGED vars
  BY <1>3 DEF vars, ThreadInv, TypeOK, Locked, Made, FirstExit, LastAlive, Alive, Doing,
              FirstStopJoins
<1> QED BY <1>1, <1>2, <1>3 DEF Next

LEMMA ThreadAlways == Spec => []ThreadInv
BY ThreadInit, ThreadStep, PTL DEF Spec

-----------------------------------------------------------------------------

\* Types, for any number of users and threads (LazyThread's members).
THEOREM TypeCorrect == Spec => []TypeOK
<1>1. ThreadInv => TypeOK
  BY DEF ThreadInv
<1> QED BY <1>1, ThreadAlways, PTL

\* Stop never returns before the thread of the first Run has set m_bExit.
THEOREM StopCorrect == Spec => []FirstStopJoins
<1>1. ThreadInv => FirstStopJoins
  BY DEF ThreadInv
<1> QED BY <1>1, ThreadAlways, PTL

\* ThreadProc ends only for a Stop, unless an earlier Stop returned too early.
THEOREM EndCorrect == Spec => []EndedByStop
<1>1. ThreadInv => EndedByStop
  <2> SUFFICES ASSUME ThreadInv, NEW t \in Threads, early = {},
                      threadPc[t] \in {"leaving", "cleared", "gone"}
               PROVE  t \in asked
    BY DEF EndedByStop
  <2> QED BY DEF ThreadInv, LastAlive, Alive
<1> QED BY <1>1, ThreadAlways, PTL
=============================================================================
