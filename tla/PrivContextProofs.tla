-------------------------- MODULE PrivContextProofs --------------------------
(***************************************************************************)
(* Proofs about PrivContext for any number of threads and daemons: what    *)
(* start_lock protects, the restart of an undisturbed call, and who waits  *)
(* for what when nobody can move.  A start that hangs keeps the lock, a    *)
(* daemon may never answer, read or end, and all of it holds the same.     *)
(* Nobody polls or retries: every step is progress.                        *)
(***************************************************************************)
EXTENDS PrivContext, FiniteSetTheorems, TLAPS

Place == {"idle", "running?", "stop?", "close", "shutdown", "join", "clear",
          "start?", "lock", "create", "publish", "hung", "use", "call", "send",
          "sending", "waiting"} \cup Ends

State == {"new", "eof", "crashed"} \cup Alive \cup Gone

\* Where a thread holds start_lock.
Inside == {"create", "publish", "hung"}

\* Where a thread has a channel object in hand.
Bound == {"send", "sending", "waiting", "shutdown", "join", "publish"}

\* The steps that change nothing but the thread's place.
LocalStep(t) == \/ WrapRunning(t) \/ WrapStart(t) \/ WrapUse(t)
                \/ SendBegin(t) \/ Sent(t) \/ SendRefused(t)
                \/ Answered(t) \/ SeesEof(t) \/ TimesOut(t)
                \/ StopTest(t) \/ StopJoin(t)

Begin(t) == WrapBegin(t) \/ StartBegin(t) \/ StopBegin(t)

\* The other steps of a thread, one by one.
LEMMA StepCases ==
    ASSUME NEW t, ThreadStep(t)
    PROVE  \/ LocalStep(t) \/ WrapCall(t) \/ StopClose(t) \/ HalfClose(t)
           \/ StopClear(t) \/ StartEnter(t) \/ StartCreate(t) \/ StartFails(t)
           \/ StartHangs(t) \/ StartPublish(t)
  BY Zenon DEF ThreadStep, OwedStep, LocalStep

\* What a local step does.
LEMMA LocalMoves ==
    ASSUME TypeOK, NEW t \in Thread, LocalStep(t)
    PROVE  /\ UNCHANGED <<channel, chans, startLock, target, calm>>
           /\ Goto(t, at'[t])
           /\ at[t] \in Place \ (Inside \cup Ends \cup {"idle"})
           /\ at'[t] \in Place \ (Inside \cup {"idle", "send", "shutdown", "join"})
<1> USE DEF Goto, TypeOK, Place, Inside, Ends
<1>1. CASE WrapRunning(t)
  BY <1>1 DEF WrapRunning
<1>2. CASE WrapStart(t) \/ WrapUse(t)
  BY <1>2 DEF WrapStart, WrapUse
<1>3. CASE SendBegin(t) \/ Sent(t) \/ SendRefused(t)
  BY <1>3 DEF SendBegin, Sent, SendRefused
<1>4. CASE Answered(t) \/ SeesEof(t) \/ TimesOut(t)
  BY <1>4 DEF Answered, SeesEof, TimesOut
<1>5. CASE StopTest(t) \/ StopJoin(t)
  BY <1>5 DEF StopTest, StopJoin, AfterStop
<1> QED  BY <1>1, <1>2, <1>3, <1>4, <1>5 DEF LocalStep

\* The first step of a call.
LEMMA BeginMoves ==
    ASSUME TypeOK, NEW t \in Thread, Begin(t)
    PROVE  /\ UNCHANGED <<channel, chans, startLock, target>> /\ calm' \in SUBSET Thread
           /\ Goto(t, at'[t]) /\ at[t] = "idle"
           /\ at'[t] \in {"start?", "running?", "stop?", "lock"}
           /\ at'[t] = "lock" => t \in Starter
           /\ at'[t] = "running?" => channel # None
           /\ at'[t] = "start?" => channel = None
  BY DEF Begin, WrapBegin, StopBegin, StartBegin, BeginCalm, Caller, Goto, TypeOK

-----------------------------------------------------------------------------
\* Between the two tests of start() nobody else gets a channel in place.
Owner == \A t \in Thread : /\ t \in startLock <=> at[t] \in Inside
                           /\ at[t] \in Inside => startLock = {t} /\ channel = None

LockInv == TypeOK /\ Owner

\* The initial state satisfies the invariant of the lock.
LEMMA LockInit == Init => LockInv
<1> SUFFICES ASSUME Init PROVE LockInv
  OBVIOUS
<1>1. TypeOK
  BY Zenon DEF Init, TypeOK
<1>2. Owner
  BY DEF Init, Owner, Inside
<1> QED  BY <1>1, <1>2 DEF LockInv

\* Every step preserves it.
LEMMA LockStep == LockInv /\ [Next]_vars => LockInv'
<1> SUFFICES ASSUME LockInv, [Next]_vars PROVE LockInv'
  OBVIOUS
<1> USE DEF LockInv
<1>1. ASSUME NEW t \in Thread, NEW p \in Place \ Inside,
             at[t] \notin Inside, Goto(t, p),
             UNCHANGED startLock, channel' \in {channel, None},
             chans' \in [ChannelNumber -> State],
             target' \in [Thread -> {None} \cup ChannelNumber],
             calm' \in SUBSET Thread
      PROVE  LockInv'
  <2>1. TypeOK'
    BY <1>1 DEF TypeOK, Goto, Place, State
  <2>2. Owner'
    BY <1>1 DEF TypeOK, Owner, Goto, Inside
  <2> QED  BY <2>1, <2>2
<1>2. ASSUME NEW t \in Thread, Begin(t) PROVE LockInv'
  <2>1. at'[t] \in Place \ Inside /\ at[t] \notin Inside
    BY <1>2, BeginMoves DEF Place, Inside
  <2> QED  BY <1>1, <1>2, <2>1, BeginMoves DEF TypeOK, State
<1>3. ASSUME NEW t \in Thread, LocalStep(t) PROVE LockInv'
  <2>1. at'[t] \in Place \ Inside /\ at[t] \notin Inside
    BY <1>3, LocalMoves
  <2> QED  BY <1>1, <1>3, <2>1, LocalMoves DEF TypeOK, State
<1>4. ASSUME NEW t \in Thread, WrapCall(t) \/ StopClose(t) PROVE LockInv'
  <2>1. /\ at[t] \in {"call", "close"}
        /\ target' \in [Thread -> {None} \cup ChannelNumber]
        /\ \E p \in {"attributeerror", "send", "shutdown"} : Goto(t, p)
        /\ UNCHANGED <<channel, chans, startLock, calm>>
    BY <1>4 DEF WrapCall, StopClose, TypeOK
  <2> QED  BY <1>1, <2>1 DEF Place, Inside, Ends, TypeOK, State
<1>5. ASSUME NEW t \in Thread, StopClear(t) PROVE LockInv'
  BY <1>1, <1>5 DEF StopClear, AfterStop, Place, Inside, Ends, TypeOK, State
<1>6. ASSUME NEW t \in Thread, HalfClose(t) PROVE LockInv'
  <2>1. chans' \in [ChannelNumber -> State]
    BY <1>6 DEF HalfClose, TypeOK, State, Alive
  <2> QED  BY <1>1, <1>6, <2>1 DEF HalfClose, Place, Inside, Ends, TypeOK
<1>7. ASSUME NEW t \in Thread, StartEnter(t) PROVE LockInv'
  <2>1. CASE channel = None
    <3>1. TypeOK'
      BY <1>7, <2>1 DEF StartEnter, LockFree, StillNone, Goto, TypeOK
    <3>2. Owner'
      BY <1>7, <2>1 DEF StartEnter, LockFree, StillNone, Goto, TypeOK, Owner, Inside
    <3> QED  BY <3>1, <3>2
  <2>2. CASE channel # None
    BY <1>1, <1>7, <2>2 DEF StartEnter, StillNone, AfterStart, Place, Inside, Ends, TypeOK, State
  <2> QED  BY <2>1, <2>2
<1>8. ASSUME NEW t \in Thread, StartCreate(t) PROVE LockInv'
  <2>1. PICK n \in ChannelNumber : /\ chans' = [chans EXCEPT ![n] = "up"]
                                   /\ target' = [target EXCEPT ![t] = n]
    BY <1>8 DEF StartCreate, Fresh
  <2>2. TypeOK'
    BY <1>8, <2>1 DEF StartCreate, Goto, TypeOK, Alive
  <2>3. Owner'
    BY <1>8 DEF StartCreate, Goto, TypeOK, Owner, Inside
  <2> QED  BY <2>2, <2>3
<1>9. ASSUME NEW t \in Thread, StartFails(t) \/ StartHangs(t) \/ StartPublish(t)
      PROVE  LockInv'
  <2>1. TypeOK'
    BY <1>9 DEF StartFails, StartHangs, StartPublish, AfterStart, Goto, TypeOK, Ends
  <2>2. Owner'
    BY <1>9 DEF StartFails, StartHangs, StartPublish, AfterStart, Goto, TypeOK, Owner, Inside
  <2> QED  BY <2>1, <2>2
<1>10. ASSUME NEW n \in ChannelNumber, DaemonEnds(n) \/ ReaderStep(n) PROVE LockInv'
  <2>1. TypeOK'
    BY <1>10 DEF DaemonEnds, ReaderStep, ReaderEof, ReaderCrashes, Gone, TypeOK
  <2>2. Owner'
    BY <1>10 DEF DaemonEnds, ReaderStep, ReaderEof, ReaderCrashes, Owner
  <2> QED  BY <2>1, <2>2
<1>11. CASE UNCHANGED vars
  BY <1>11 DEF vars, TypeOK, Owner
<1> QED
  BY <1>2, <1>3, <1>4, <1>5, <1>6, <1>7, <1>8, <1>9, <1>10, <1>11, StepCases
     DEF Next, Begin

\* LockInv holds in every reachable state.
THEOREM LockInvariance == Spec => []LockInv
  BY LockInit, LockStep, PTL DEF Spec

\* Types hold, whatever the threads do; start_lock has at most one holder.
THEOREM TypeCorrect == Spec => []TypeOK
  BY LockInvariance, PTL DEF LockInv

(***************************************************************************)
(* A channel in place is only ever taken away, never replaced by start().  *)
(***************************************************************************)
THEOREM NeverReplaced == Spec => StartNeverReplaces
<1>1. LockInv /\ [Next]_vars =>
          [channel # None => channel' \in {None, channel}]_channel
  <2> SUFFICES ASSUME LockInv, [Next]_vars, channel # None
               PROVE  channel' \in {None, channel}
    OBVIOUS
  <2>1. ASSUME NEW t \in Thread, StartPublish(t) PROVE FALSE
    BY <2>1 DEF StartPublish, LockInv, Owner, Inside
  <2>2. ASSUME NEW t \in Thread, ThreadStep(t) PROVE channel' \in {None, channel}
    BY <2>1, <2>2, StepCases, LocalMoves
       DEF LockInv, WrapCall, StopClose, HalfClose, StopClear, StartEnter, StartCreate,
           StartFails, StartHangs
  <2>3. ASSUME NEW t \in Thread, Begin(t) PROVE channel' \in {None, channel}
    BY <2>3, BeginMoves DEF LockInv
  <2> QED
    BY <2>2, <2>3 DEF Next, Begin, vars, DaemonEnds, ReaderStep, ReaderEof, ReaderCrashes
<1> QED  BY <1>1, LockInvariance, PTL DEF Spec, StartNeverReplaces

-----------------------------------------------------------------------------
(***************************************************************************)
(* The invariant behind CalmCallServed.  A channel that a thread has in    *)
(* place or in hand has been created (Made), and Serving says what a call  *)
(* that is alone knows of its channel at each of its steps.                *)
(***************************************************************************)
Made == /\ channel # None => chans[channel] # "new"
        /\ \A t \in Thread : at[t] \in Bound =>
              target[t] # None /\ chans[target[t]] # "new"

Serving(t) ==
    /\ InProgress = {t}
    /\ at[t] = "running?" => channel # None /\ chans[channel] \in {"up", "eof"}
    /\ at[t] = "close" => channel # None
    /\ at[t] \in {"shutdown", "join"} => target[t] = channel
    /\ at[t] = "clear" => channel # None /\ Ended(channel)
    /\ at[t] = "start?" => (channel # None => chans[channel] = "up")
    /\ at[t] \in {"use", "call"} => channel # None /\ chans[channel] = "up"
    /\ at[t] \in {"send", "sending", "waiting", "publish"} => chans[target[t]] = "up"
    /\ at[t] = "lock" /\ t \notin Starter => channel = None

CalmInv == /\ LockInv /\ Made /\ CalmCallServed
           /\ \A t \in calm : at[t] # "idle" /\ (t \in InProgress => Serving(t))

\* A step of a thread leaves the other threads and calm alone.
LEMMA OtherThreads ==
    ASSUME TypeOK, NEW t \in Thread, ThreadStep(t)
    PROVE  /\ t \in InProgress /\ at'[t] # "idle"
           /\ calm' = calm
           /\ \A u \in Thread \ {t} : at'[u] = at[u] /\ target'[u] = target[u]
<1> USE DEF Goto, InProgress, Ends
<1>1. CASE LocalStep(t)
  BY <1>1, LocalMoves DEF TypeOK
<1>2. CASE WrapCall(t) \/ StopClose(t)
  BY <1>2 DEF WrapCall, StopClose, TypeOK
<1>3. CASE HalfClose(t)
  BY <1>3 DEF HalfClose, TypeOK
<1>4. CASE StopClear(t) \/ StartEnter(t)
  BY <1>4 DEF StopClear, AfterStop, StartEnter, AfterStart, TypeOK
<1>5. CASE StartCreate(t)
  BY <1>5 DEF StartCreate, TypeOK
<1>6. CASE StartFails(t) \/ StartHangs(t) \/ StartPublish(t)
  BY <1>6 DEF StartFails, StartHangs, StartPublish, AfterStart, TypeOK
<1> QED  BY <1>1, <1>2, <1>3, <1>4, <1>5, <1>6, StepCases

\* A channel that is in place or in hand has been created.
LEMMA MadeStep ==
    ASSUME TypeOK, Made, NEW t \in Thread, ThreadStep(t)
    PROVE  Made'
<1>1. CASE LocalStep(t)
  <2>1. at'[t] \in Bound => at[t] \in Bound
    BY <1>1 DEF LocalStep, WrapRunning, WrapStart, WrapUse, SendBegin, Sent, SendRefused,
         Answered, SeesEof, TimesOut, StopTest, StopJoin, AfterStop, Goto, Bound, TypeOK
  <2> QED  BY <1>1, <2>1, LocalMoves, OtherThreads DEF Made
<1>2. CASE WrapCall(t) \/ StopClose(t)
  <2>1. /\ channel' = channel /\ chans' = chans
        /\ at'[t] \in Bound => channel # None /\ target'[t] = channel
    BY <1>2 DEF WrapCall, StopClose, Goto, Bound, TypeOK
  <2> QED  BY <2>1, OtherThreads DEF Made
<1>3. CASE HalfClose(t)
  <2>1. /\ target' = target /\ channel' = channel /\ at[t] \in Bound
        /\ \A n \in ChannelNumber : chans[n] # "new" => chans'[n] # "new"
    BY <1>3 DEF HalfClose, Bound, TypeOK
  <2> QED  BY <2>1, OtherThreads DEF Made, TypeOK
<1>4. CASE StartCreate(t)
  <2>1. PICK n \in ChannelNumber : /\ chans' = [chans EXCEPT ![n] = "up"]
                                   /\ target' = [target EXCEPT ![t] = n]
    BY <1>4 DEF StartCreate, Fresh
  <2>2. target'[t] # None /\ chans'[target'[t]] = "up"
    BY <2>1 DEF TypeOK, ChannelNumber, None
  <2>3. \A k \in ChannelNumber : chans[k] # "new" => chans'[k] # "new"
    BY <2>1 DEF TypeOK
  <2> QED  BY <1>4, <2>2, <2>3, OtherThreads DEF StartCreate, Made, TypeOK
<1>5. CASE StartPublish(t)
  <2>1. /\ chans' = chans /\ target' = target /\ channel' = target[t]
        /\ at[t] \in Bound /\ at'[t] \notin Bound
    BY <1>5 DEF StartPublish, AfterStart, Goto, Bound, TypeOK
  <2> QED  BY <2>1, OtherThreads DEF Made
<1>6. CASE StopClear(t) \/ StartEnter(t) \/ StartFails(t) \/ StartHangs(t)
  <2>1. /\ chans' = chans /\ target' = target /\ channel' \in {channel, None}
        /\ at'[t] \notin Bound
    BY <1>6 DEF StopClear, StartEnter, StartFails, StartHangs, AfterStart, AfterStop,
                Goto, Bound, TypeOK
  <2> QED  BY <2>1, OtherThreads DEF Made
<1> QED
  BY <1>1, <1>2, <1>3, <1>4, <1>5, <1>6, StepCases

\* What a calm call knows after its own step, and how it may end.
LEMMA AloneStep ==
    ASSUME LockInv, Made, NEW t \in Thread, ThreadStep(t), Serving(t)
    PROVE  \/ /\ at'[t] \in Ends
              /\ t \in Caller => \/ at'[t] \in {"reply", "notstarted"}
                                 \/ at'[t] = "timeout" /\ t \in Timed
           \/ Serving(t)'
<1>1. at'[t] \notin Ends => InProgress' = {t}
  <2>1. \A u \in Thread \ {t} : at[u] \in {"idle"} \cup Ends
    BY DEF Serving, InProgress
  <2> QED  BY <2>1, OtherThreads DEF InProgress, LockInv
<1>2. CASE LocalStep(t)
  <2>1. UNCHANGED <<channel, chans, target>>
    BY <1>2, LocalMoves DEF LockInv
  <2> USE <1>1, <2>1 DEF Serving, Goto, LockInv, TypeOK, Ends, Caller
  <2>2. CASE WrapRunning(t)
    BY <2>2 DEF WrapRunning, Running
  <2>3. CASE WrapStart(t) \/ WrapUse(t)
    BY <2>3 DEF WrapStart, WrapUse
  <2>4. CASE SendBegin(t) \/ Sent(t) \/ SendRefused(t)
    BY <2>4 DEF SendBegin, Sent, SendRefused
  <2>5. CASE Answered(t) \/ SeesEof(t) \/ TimesOut(t)
    BY <2>5 DEF Answered, SeesEof, TimesOut
  <2>6. CASE StopTest(t)
    BY <2>6 DEF StopTest, AfterStop
  <2>7. CASE StopJoin(t)
    BY <2>7 DEF StopJoin, Made, Bound, Ended
  <2> QED  BY <1>2, <2>2, <2>3, <2>4, <2>5, <2>6, <2>7 DEF LocalStep
<1> USE <1>1 DEF Serving, Goto, LockInv, TypeOK, Ends, Caller
<1>3. CASE WrapCall(t)
  BY <1>3 DEF WrapCall
<1>4. CASE StopClose(t)
  BY <1>4 DEF StopClose
<1>5. CASE HalfClose(t)
  BY <1>5 DEF HalfClose
<1>6. CASE StopClear(t)
  BY <1>6 DEF StopClear, AfterStop
<1>7. CASE StartEnter(t)
  BY <1>7 DEF StartEnter, StillNone, AfterStart
<1>8. CASE StartCreate(t)
  BY <1>8 DEF StartCreate, Fresh
<1>9. CASE StartFails(t) \/ StartHangs(t)
  BY <1>9 DEF StartFails, StartHangs
<1>10. CASE StartPublish(t)
  BY <1>10 DEF StartPublish, AfterStart, Made, Bound
<1> QED
  BY <1>2, <1>3, <1>4, <1>5, <1>6, <1>7, <1>8, <1>9, <1>10, StepCases

\* The initial state satisfies CalmInv.
LEMMA CalmInit == Init => CalmInv
<1> SUFFICES ASSUME Init PROVE CalmInv
  OBVIOUS
<1>1. Made
  BY DEF Init, Made, Bound
<1>2. calm = {}
  BY DEF Init
<1> QED  BY <1>1, <1>2, LockInit DEF CalmInv, CalmCallServed

\* Every step preserves it.
LEMMA CalmStep == CalmInv /\ [Next]_vars => CalmInv'
<1> SUFFICES ASSUME CalmInv, [Next]_vars PROVE CalmInv'
  OBVIOUS
<1>0. LockInv' /\ TypeOK
  BY LockStep DEF CalmInv, LockInv
<1>1. ASSUME NEW t \in Thread, ThreadStep(t) PROVE CalmInv'
  <2>1. Made'
    BY <1>0, <1>1, MadeStep DEF CalmInv
  <2>2. \A u \in Thread \ {t} : at'[u] = at[u]
    BY <1>0, <1>1, OtherThreads
  <2>3. calm' = calm /\ t \in InProgress /\ at'[t] # "idle"
    BY <1>0, <1>1, OtherThreads
  <2>4. ASSUME NEW u \in calm, u # t, u \in InProgress' PROVE FALSE
    <3>1. u \in InProgress
      BY <2>2, <2>4 DEF InProgress
    <3>2. InProgress = {u}
      BY <2>4, <3>1 DEF CalmInv, Serving
    <3> QED  BY <2>3, <2>4, <3>2
  <2>5. t \in calm => \/ /\ at'[t] \in Ends
                         /\ t \in Caller => \/ at'[t] \in {"reply", "notstarted"}
                                            \/ at'[t] = "timeout" /\ t \in Timed
                      \/ Serving(t)'
    BY <1>1, <2>3, AloneStep DEF CalmInv
  <2>6. \A u \in InProgress' : at'[u] \notin Ends
    BY DEF InProgress
  <2>7. CalmCallServed'
    <3>1. ASSUME NEW u \in calm \cap Caller, at'[u] \in Ends
          PROVE  \/ at'[u] \in {"reply", "notstarted"}
                 \/ at'[u] = "timeout" /\ u \in Timed
      <4>1. CASE u = t
        <5>1. Serving(t)' => at'[t] \notin Ends
          BY <2>6 DEF Serving
        <5> QED  BY <2>5, <3>1, <4>1, <5>1
      <4>2. CASE u # t
        <5>1. u \in Thread
          BY <1>0 DEF TypeOK
        <5> QED  BY <2>2, <3>1, <4>2, <5>1 DEF CalmInv, CalmCallServed
      <4> QED  BY <4>1, <4>2
    <3> QED  BY <2>3, <3>1 DEF CalmCallServed
  <2>8. \A u \in calm' : u \in InProgress' => Serving(u)'
    BY <2>3, <2>4, <2>5, <2>6
  <2>9. \A u \in calm' : at'[u] # "idle"
    BY <1>0, <2>2, <2>3 DEF CalmInv, TypeOK
  <2> QED  BY <1>0, <2>1, <2>7, <2>8, <2>9 DEF CalmInv
<1>2. ASSUME NEW t \in Thread, Begin(t) PROVE CalmInv'
  <2>1. /\ at[t] = "idle" /\ at'[t] \in {"start?", "running?", "stop?", "lock"}
        /\ at'[t] = "lock" => t \in Starter
        /\ at'[t] = "running?" => channel # None
        /\ at'[t] = "start?" => channel = None
        /\ \A u \in Thread \ {t} : at'[u] = at[u]
        /\ UNCHANGED <<channel, chans, target>>
    BY <1>0, <1>2, BeginMoves DEF Goto, TypeOK
  <2>2. Made'
    BY <2>1 DEF CalmInv, Made, Bound
  <2>3. t \in InProgress' /\ \A u \in Thread \ {t} : u \in InProgress' <=> u \in InProgress
    BY <2>1 DEF InProgress, Ends
  <2>4. CASE InProgress = {} /\ (channel # None => chans[channel] \in {"up", "eof"})
    <3>1. calm' = calm \cup {t}
      BY <1>2, <2>4 DEF Begin, WrapBegin, StopBegin, StartBegin, BeginCalm
    <3>2. InProgress' = {t}
      BY <2>3, <2>4 DEF InProgress
    <3>4. Serving(t)'
      BY <2>1, <2>4, <3>2 DEF Serving
    <3>5. CalmCallServed'
      BY <1>0, <2>1, <3>1 DEF CalmInv, CalmCallServed, TypeOK, Ends
    <3>6. \A u \in calm' : u \in InProgress' => Serving(u)'
      BY <3>2, <3>4
    <3>7. \A u \in calm' : at'[u] # "idle"
      BY <1>0, <2>1, <3>1 DEF CalmInv, TypeOK
    <3> QED  BY <1>0, <2>2, <3>5, <3>6, <3>7 DEF CalmInv
  <2>5. CASE ~(InProgress = {} /\ (channel # None => chans[channel] \in {"up", "eof"}))
    <3>1. calm' = calm \ InProgress
      BY <1>2, <2>5 DEF Begin, WrapBegin, StopBegin, StartBegin, BeginCalm
    <3>2. t \notin calm
      BY <2>1 DEF CalmInv
    <3>3. CalmCallServed'
      BY <1>0, <2>1, <3>1 DEF CalmInv, CalmCallServed, TypeOK, Ends
    <3>4. \A u \in calm' : u \notin InProgress' /\ at'[u] # "idle"
      BY <1>0, <2>1, <2>3, <3>1, <3>2 DEF TypeOK, CalmInv
    <3> QED  BY <1>0, <2>2, <3>3, <3>4 DEF CalmInv
  <2> QED  BY <2>4, <2>5
<1>3. ASSUME NEW n \in ChannelNumber, DaemonEnds(n) \/ ReaderStep(n) PROVE CalmInv'
  <2>1. /\ UNCHANGED <<channel, at, target>>
        /\ chans[n] \in Alive \cup Gone /\ chans'[n] \in Gone \cup {"eof", "crashed"}
        /\ \A k \in ChannelNumber \ {n} : chans'[k] = chans[k]
    BY <1>0, <1>3 DEF DaemonEnds, ReaderStep, ReaderEof, ReaderCrashes, Gone, TypeOK
  <2>2. Made'
    BY <1>0, <2>1 DEF CalmInv, Made, TypeOK, Gone
  <2>3. calm' \subseteq calm /\ (chans[n] = "up" => calm' = calm \ InProgress)
    BY <1>3 DEF DaemonEnds, ReaderStep, ReaderEof, ReaderCrashes
  <2>4. CalmCallServed'
    BY <2>1, <2>3 DEF CalmInv, CalmCallServed
  <2>5. ASSUME NEW u \in calm', u \in InProgress' PROVE Serving(u)'
    <3>1. u \in InProgress /\ InProgress' = InProgress
      BY <2>1, <2>5 DEF InProgress
    <3>2. chans[n] \in {"shut"} \cup Gone /\ Serving(u)
      BY <2>1, <2>3, <2>5, <3>1 DEF CalmInv, Alive
    <3>3. chans[n] \notin {"up", "eof", "crashed"}
      BY <3>2 DEF Gone
    <3>4. /\ channel # None => channel \in ChannelNumber
          /\ target[u] # None => target[u] \in ChannelNumber
      BY <1>0, <2>5, <3>1 DEF TypeOK, InProgress
    <3>5. at[u] \in Bound => target[u] # None
      BY <3>1 DEF CalmInv, Made, InProgress
    <3> QED  BY <2>1, <3>1, <3>2, <3>3, <3>4, <3>5 DEF Serving, Ended, Bound
  <2> QED  BY <1>0, <2>1, <2>2, <2>3, <2>4, <2>5 DEF CalmInv
<1>4. CASE UNCHANGED vars
  BY <1>0, <1>4 DEF vars, CalmInv, Made, CalmCallServed, Serving, InProgress, Ended
<1> QED  BY <1>1, <1>2, <1>3, <1>4 DEF Next, Begin

(***************************************************************************)
(* _wrap restarts the daemon where it must: a call that nothing disturbs   *)
(* and that finds running as it should be is answered or times out, unless *)
(* the daemon cannot be started.                                           *)
(***************************************************************************)
THEOREM CalmCallsServed == Spec => []CalmCallServed
<1>1. CalmInv => CalmCallServed
  BY DEF CalmInv
<1> QED  BY <1>1, CalmInit, CalmStep, PTL DEF Spec

-----------------------------------------------------------------------------
\* A step keeps every daemon in place or in hand while all calls are calm.
LEMMA RememberedStep ==
    CalmInv /\ NoDaemonForgotten /\ [Next]_vars => NoDaemonForgotten'
<1> SUFFICES ASSUME CalmInv, NoDaemonForgotten, [Next]_vars PROVE NoDaemonForgotten'
  OBVIOUS
<1>0. TypeOK /\ LockInv
  BY DEF CalmInv, LockInv
<1>1. ASSUME NEW t \in Thread, ThreadStep(t) PROVE NoDaemonForgotten'
  <2> SUFFICES ASSUME AllCalm', NEW n \in ChannelNumber, chans'[n] = "up"
               PROVE  \/ n = channel'
                      \/ \E u \in Thread : at'[u] = "publish" /\ target'[u] = n
    BY DEF NoDaemonForgotten
  <2>1. AllCalm /\ Serving(t)
    <3>1. /\ t \in InProgress /\ calm' = calm /\ at'[t] # "idle"
          /\ \A u \in Thread \ {t} : at'[u] = at[u]
      BY <1>0, <1>1, OtherThreads
    <3>2. t \in calm
      BY <3>1 DEF AllCalm
    <3> QED  BY <3>1, <3>2 DEF AllCalm, CalmInv
  <2>2. \A u \in Thread : at[u] = "publish" => u = t
    BY <2>1 DEF Serving, InProgress, Ends
  <2>3. CASE StartCreate(t)
    <3>1. PICK k \in ChannelNumber : /\ chans' = [chans EXCEPT ![k] = "up"]
                                     /\ target' = [target EXCEPT ![t] = k]
      BY <2>3 DEF StartCreate, Fresh
    <3>2. at'[t] = "publish" /\ target'[t] = k /\ channel' = channel /\ at[t] # "publish"
      BY <1>0, <2>3, <3>1 DEF StartCreate, Goto, TypeOK
    <3>3. n # k => chans[n] = "up"
      BY <1>0, <3>1 DEF TypeOK
    <3> QED  BY <2>1, <2>2, <3>2, <3>3 DEF NoDaemonForgotten
  <2>4. ASSUME ~StartCreate(t) PROVE chans[n] = "up"
    BY <1>0, <1>1, <2>4, StepCases, LocalMoves
       DEF WrapCall, StopClose, HalfClose, StopClear, StartEnter, StartFails, StartHangs,
           StartPublish, TypeOK
  <2>5. ASSUME chans[n] = "up"
        PROVE  n = channel \/ (at[t] = "publish" /\ target[t] = n)
    BY <2>1, <2>2, <2>5 DEF NoDaemonForgotten
  <2>6. CASE StopClear(t)
    <3>1. at[t] = "clear" /\ chans[channel] # "up"
      BY <2>1, <2>6 DEF StopClear, Serving, Ended
    <3>2. chans[n] = "up"
      BY <2>4, <3>1 DEF StartCreate
    <3> QED  BY <2>5, <3>1, <3>2
  <2>7. CASE StartPublish(t)
    <3>1. at[t] = "publish" /\ channel' = target[t] /\ channel = None
      BY <1>0, <2>7 DEF StartPublish, LockInv, Owner, Inside
    <3>2. n # None
      BY DEF ChannelNumber, None
    <3>3. chans[n] = "up"
      BY <2>4, <3>1 DEF StartCreate
    <3> QED  BY <2>5, <3>1, <3>2, <3>3
  <2>8. ASSUME ~StartCreate(t), ~StopClear(t), ~StartPublish(t)
        PROVE  channel' = channel /\ at[t] # "publish"
    BY <1>0, <1>1, <2>8, StepCases, LocalMoves
       DEF WrapCall, StopClose, HalfClose, StartEnter, StartFails, StartHangs, Inside
  <2> QED
    BY <2>3, <2>4, <2>5, <2>6, <2>7, <2>8
<1>2. ASSUME NEW t \in Thread, Begin(t) PROVE NoDaemonForgotten'
  <2>1. /\ UNCHANGED <<channel, chans, target>>
        /\ calm' \subseteq calm \cup {t} /\ at[t] = "idle"
        /\ \A u \in Thread \ {t} : at'[u] = at[u]
    BY <1>0, <1>2 DEF Begin, WrapBegin, StopBegin, StartBegin, BeginCalm, Goto, TypeOK
  <2>2. AllCalm' => AllCalm
    BY <2>1 DEF AllCalm
  <2> QED  BY <2>1, <2>2 DEF NoDaemonForgotten
<1>3. ASSUME NEW k \in ChannelNumber, DaemonEnds(k) \/ ReaderStep(k) PROVE NoDaemonForgotten'
  <2>1. /\ UNCHANGED <<channel, at, target>> /\ calm' \subseteq calm
        /\ \A n \in ChannelNumber : chans'[n] = "up" => chans[n] = "up"
    BY <1>0, <1>3 DEF DaemonEnds, ReaderStep, ReaderEof, ReaderCrashes, Gone, TypeOK
  <2> QED  BY <2>1 DEF NoDaemonForgotten, AllCalm
<1>4. CASE UNCHANGED vars
  BY <1>4 DEF vars, NoDaemonForgotten, AllCalm
<1> QED  BY <1>1, <1>2, <1>3, <1>4 DEF Next, Begin

(***************************************************************************)
(* stop() and the restart leave no daemon running that the context does    *)
(* not know, as long as calls do not overlap.                              *)
(***************************************************************************)
THEOREM NoneForgotten == Spec => []NoDaemonForgotten
<1>1. Init => NoDaemonForgotten
  BY DEF Init, NoDaemonForgotten
<1> QED  BY <1>1, CalmInit, CalmStep, RememberedStep, PTL DEF Spec

-----------------------------------------------------------------------------
(***************************************************************************)
(* What EveryCallEnds needs of the states: start_lock is held only by a    *)
(* thread that can release it or hangs (Owner), a thread in send_recv or   *)
(* close() has a channel (Made), and close() is joined only on a channel   *)
(* that it has half-closed, or whose daemon was gone before.               *)
(***************************************************************************)
Joined == \A t \in Thread : at[t] = "join" =>
              target[t] # None /\ chans[target[t]] \notin {"new", "up"}

\* Every step of a thread keeps it so.
LEMMA JoinedStep ==
    ASSUME TypeOK, Made, Joined, NEW t \in Thread, ThreadStep(t)
    PROVE  Joined'
<1>1. CASE HalfClose(t)
  <2>1. /\ target' = target /\ target[t] \in ChannelNumber /\ target[t] # None
        /\ chans' = [chans EXCEPT ![target[t]] = IF @ = "up" THEN "shut" ELSE @]
        /\ chans[target[t]] # "new"
    BY <1>1 DEF HalfClose, Made, Bound, TypeOK
  <2>2. chans'[target[t]] \notin {"new", "up"}
    BY <1>1, <2>1 DEF TypeOK
  <2>3. \A n \in ChannelNumber \ {target[t]} : chans'[n] = chans[n]
    BY <2>1 DEF TypeOK
  <2> QED  BY <2>1, <2>2, <2>3, OtherThreads DEF Joined, TypeOK
<1>2. CASE StartCreate(t)
  <2>1. PICK n \in Fresh : chans' = [chans EXCEPT ![n] = "up"]
    BY <1>2 DEF StartCreate
  <2>2. \A k \in ChannelNumber : chans[k] # "new" => chans'[k] = chans[k]
    BY <2>1 DEF Fresh, TypeOK
  <2>3. at'[t] = "publish"
    BY <1>2 DEF StartCreate, Goto, TypeOK
  <2> QED  BY <2>2, <2>3, OtherThreads DEF Joined, TypeOK
<1>3. CASE LocalStep(t)
  BY <1>3, LocalMoves, OtherThreads DEF Joined
<1>4. CASE \/ WrapCall(t) \/ StopClose(t) \/ StopClear(t) \/ StartEnter(t)
           \/ StartFails(t) \/ StartHangs(t) \/ StartPublish(t)
  <2>1. chans' = chans /\ at'[t] # "join"
    BY <1>4 DEF WrapCall, StopClose, StopClear, StartEnter, StartFails, StartHangs,
                StartPublish, AfterStop, AfterStart, Goto, TypeOK
  <2> QED  BY <2>1, OtherThreads DEF Joined
<1> QED  BY <1>1, <1>2, <1>3, <1>4, StepCases

\* And so does every other step.
LEMMA JoinedNext == CalmInv /\ Joined /\ [Next]_vars => Joined'
<1> SUFFICES ASSUME CalmInv, Joined, [Next]_vars PROVE Joined'
  OBVIOUS
<1>1. TypeOK /\ Made
  BY DEF CalmInv, LockInv
<1>2. ASSUME NEW t \in Thread, Begin(t) PROVE Joined'
  BY <1>1, <1>2, BeginMoves DEF Goto, TypeOK, Joined
<1>3. ASSUME NEW n \in ChannelNumber, DaemonEnds(n) \/ ReaderStep(n) PROVE Joined'
  BY <1>1, <1>3 DEF DaemonEnds, ReaderStep, ReaderEof, ReaderCrashes, Gone, TypeOK, Joined
<1>4. CASE UNCHANGED vars
  BY <1>4 DEF vars, Joined
<1> QED  BY <1>1, <1>2, <1>3, <1>4, JoinedStep DEF Next, Begin

(***************************************************************************)
(* When nobody owes a step, every call that has not ended is held up by a  *)
(* start that hangs, by a daemon that lives or by a dead reader thread:    *)
(* never by a lock that nobody will release, nor by a daemon that is gone. *)
(* It is what EveryCallEnds says of a state, without the fairness.         *)
(***************************************************************************)
THEOREM NobodyWaitsForNothing == Spec => [](Standstill => \A t \in InProgress : HeldUp(t))
<1>1. Init => Joined
  BY DEF Init, Joined
<1>2. CalmInv /\ Joined => (Standstill => \A t \in InProgress : HeldUp(t))
  <2> SUFFICES ASSUME CalmInv, Joined, Standstill, NEW t \in InProgress PROVE HeldUp(t)
    OBVIOUS
  <2>1. /\ TypeOK /\ Made /\ Waits(t) /\ t \in Thread
        /\ at[t] \notin {"idle"} \cup Ends
    BY DEF Standstill, InProgress, CalmInv, LockInv
  <2>2. at[t] \in Bound => target[t] \in ChannelNumber /\ chans[target[t]] # "new"
    BY <2>1 DEF Made, TypeOK
  <2>3. ASSUME NEW n \in ChannelNumber, ~Unlocked(n) PROVE chans[n] = "up"
    <3>1. PICK u \in Thread : at[u] = "sending" /\ target[u] = n
      BY <2>3 DEF Unlocked
    <3>2. Waits(u)
      BY DEF Standstill
    <3> QED  BY <3>1, <3>2 DEF Waits, Ends
  <2>4. \A n \in ChannelNumber : chans[n] \notin Gone
    BY <2>3 DEF Standstill, Gone
  <2>5. CASE at[t] = "hung"
    BY <2>1, <2>5 DEF HeldUp, StartHeldUp
  <2>6. CASE at[t] = "lock" /\ startLock # {}
    <3>1. PICK u \in Thread : u \in startLock
      BY <2>1, <2>6 DEF TypeOK
    <3>2. at[u] \in Inside /\ Waits(u)
      BY <3>1 DEF CalmInv, LockInv, Owner, Standstill
    <3>3. at[u] = "hung"
      BY <3>2 DEF Waits, Inside, Ends
    <3> QED  BY <2>6, <3>3 DEF HeldUp, StartHeldUp
  <2>7. CASE at[t] = "join" /\ ~Ended(target[t])
    <3>1. chans[target[t]] = "shut"
      BY <2>1, <2>2, <2>4, <2>7 DEF Joined, Ended, Bound, Gone, Alive, TypeOK
    <3> QED  BY <2>7, <3>1 DEF HeldUp, DaemonHolds
  <2>8. CASE at[t] \in {"send", "shutdown", "waiting"} /\ ~Unlocked(target[t])
    BY <2>2, <2>3, <2>8 DEF HeldUp, BehindSender, Bound
  <2>9. CASE at[t] = "sending" /\ chans[target[t]] = "up"
    BY <2>9 DEF HeldUp, DaemonHolds
  <2>10. CASE at[t] = "waiting" /\ t \notin Timed /\ chans[target[t]] # "eof"
    <3>1. chans[target[t]] \in Alive \cup {"crashed"}
      BY <2>1, <2>2, <2>4, <2>10 DEF Bound, TypeOK
    <3> QED  BY <2>10, <3>1 DEF HeldUp, DaemonHolds, ReaderLost
  <2> QED  BY <2>1, <2>5, <2>6, <2>7, <2>8, <2>9, <2>10 DEF Waits
<1> QED  BY <1>1, <1>2, CalmInit, CalmStep, JoinedNext, PTL DEF Spec

-----------------------------------------------------------------------------
(***************************************************************************)
(* Where a call and a channel stand on their way, and what lies ahead of   *)
(* them: _wrap, start() and stop() have no loop.                           *)
(***************************************************************************)
Rank(place) == CASE place = "idle" -> 0
                 [] place = "running?" -> 1
                 [] place = "stop?" -> 2
                 [] place = "close" -> 3
                 [] place = "shutdown" -> 4
                 [] place = "join" -> 5
                 [] place = "clear" -> 6
                 [] place = "start?" -> 7
                 [] place = "lock" -> 8
                 [] place = "create" -> 9
                 [] place \in {"publish", "hung"} -> 10
                 [] place = "use" -> 11
                 [] place = "call" -> 12
                 [] place = "send" -> 13
                 [] place = "sending" -> 14
                 [] place = "waiting" -> 15
                 [] OTHER -> 16

Age(state) == CASE state = "new" -> 0 [] state = "up" -> 1 [] state = "shut" -> 2
                [] state \in Gone -> 3 [] OTHER -> 4

ThreadAhead == {p \in Thread \X (1 .. 16) : Rank(at[p[1]]) < p[2]}
ChannelAhead == {p \in ChannelNumber \X (1 .. 4) : Age(chans[p[1]]) < p[2]}

\* How many steps can still be taken, at most.
Left == Cardinality(ThreadAhead) + Cardinality(ChannelAhead)

\* A proper subset of a finite set has fewer elements.
LEMMA Shrinks ==
    ASSUME NEW S, IsFiniteSet(S), NEW T \in SUBSET S
    PROVE  /\ Cardinality(S) \in Nat /\ Cardinality(T) \in Nat
           /\ Cardinality(T) <= Cardinality(S)
           /\ T # S => Cardinality(T) < Cardinality(S)
<1>1. IsFiniteSet(T) /\ Cardinality(T) <= Cardinality(S)
  BY FS_Subset
<1>2. T # S => Cardinality(T) # Cardinality(S)
  BY FS_Subset
<1>3. Cardinality(S) \in Nat /\ Cardinality(T) \in Nat
  BY <1>1, FS_CardinalityType
<1> QED  BY <1>1, <1>2, <1>3

\* Ranks are numbers that the two sets above reach.
LEMMA Ranked == /\ \A place : Rank(place) \in 0 .. 16
                /\ \A state : Age(state) \in 0 .. 4
<1>1. ASSUME NEW place PROVE Rank(place) \in 0 .. 16
  BY DEF Rank
<1>2. ASSUME NEW state PROVE Age(state) \in 0 .. 4
  BY DEF Age
<1> QED  BY <1>1, <1>2

\* Every step of a thread takes it further.
LEMMA ThreadMoves ==
    ASSUME TypeOK, NEW t \in Thread, ThreadStep(t) \/ Begin(t)
    PROVE  /\ Rank(at[t]) < Rank(at'[t])
           /\ \A u \in Thread \ {t} : at'[u] = at[u]
<1> USE DEF Goto, Rank, Ends, TypeOK
<1>1. CASE Begin(t)
  BY <1>1, BeginMoves
<1>2. CASE WrapRunning(t) \/ WrapStart(t)
  BY <1>2 DEF WrapRunning, WrapStart
<1>3. CASE WrapUse(t) \/ WrapCall(t)
  BY <1>3 DEF WrapUse, WrapCall
<1>4. CASE SendBegin(t) \/ Sent(t) \/ SendRefused(t)
  BY <1>4 DEF SendBegin, Sent, SendRefused
<1>5. CASE Answered(t) \/ SeesEof(t) \/ TimesOut(t)
  BY <1>5 DEF Answered, SeesEof, TimesOut
<1>6. CASE StopTest(t) \/ StopJoin(t) \/ StopClear(t)
  BY <1>6 DEF StopTest, StopJoin, StopClear, AfterStop
<1>7. CASE StopClose(t) \/ HalfClose(t)
  BY <1>7 DEF StopClose, HalfClose
<1>8. CASE StartEnter(t) \/ StartPublish(t)
  BY <1>8 DEF StartEnter, StartPublish, AfterStart
<1>9. CASE StartCreate(t) \/ StartFails(t) \/ StartHangs(t)
  BY <1>9 DEF StartCreate, StartFails, StartHangs
<1> QED
  BY <1>1, <1>2, <1>3, <1>4, <1>5, <1>6, <1>7, <1>8, <1>9, StepCases DEF LocalStep

\* No step takes a channel back.
LEMMA ChannelsMove ==
    ASSUME TypeOK, [Next]_vars
    PROVE  /\ \A n \in ChannelNumber : Age(chans[n]) <= Age(chans'[n])
           /\ \A n \in ChannelNumber :
                 DaemonEnds(n) \/ ReaderStep(n) => Age(chans[n]) < Age(chans'[n])
<1>0. \A n \in ChannelNumber : Age(chans[n]) \in Nat /\ Age(chans'[n]) \in Nat
  BY Ranked
<1>1. ASSUME NEW n \in ChannelNumber, DaemonEnds(n) \/ ReaderStep(n)
      PROVE  /\ Age(chans[n]) < Age(chans'[n])
             /\ \A k \in ChannelNumber \ {n} : chans'[k] = chans[k]
  <2>1. CASE DaemonEnds(n)
    BY <2>1 DEF DaemonEnds, Age, Alive, Gone, TypeOK
  <2>2. CASE ReaderStep(n)
    BY <2>2 DEF ReaderStep, ReaderEof, ReaderCrashes, Age, Gone, TypeOK
  <2> QED  BY <1>1, <2>1, <2>2
<1>2. ASSUME NEW t \in Thread, HalfClose(t), NEW n \in ChannelNumber
      PROVE  Age(chans[n]) <= Age(chans'[n])
  <2>1. chans'[n] \in {chans[n], IF chans[n] = "up" THEN "shut" ELSE chans[n]}
    BY <1>2 DEF HalfClose, TypeOK
  <2> QED  BY <1>0, <2>1 DEF Age, Gone
<1>3. ASSUME NEW t \in Thread, StartCreate(t), NEW n \in ChannelNumber
      PROVE  Age(chans[n]) <= Age(chans'[n])
  BY <1>3 DEF StartCreate, Fresh, Age, Gone, TypeOK
<1>4. ASSUME NEW t \in Thread, ThreadStep(t)
      PROVE  HalfClose(t) \/ StartCreate(t) \/ chans' = chans
  BY <1>4, StepCases, LocalMoves
     DEF WrapCall, StopClose, StopClear, StartEnter, StartFails, StartHangs, StartPublish
<1>5. ASSUME NEW t \in Thread, Begin(t) PROVE chans' = chans
  BY <1>5, BeginMoves
<1>6. \/ \E n \in ChannelNumber : DaemonEnds(n) \/ ReaderStep(n)
      \/ \E t \in Thread : HalfClose(t) \/ StartCreate(t)
      \/ chans' = chans
  BY <1>4, <1>5 DEF Next, Begin, vars
<1> QED  BY <1>0, <1>1, <1>2, <1>3, <1>6

(***************************************************************************)
(* Every step is progress, whichever thread takes it: there is no loop in  *)
(* which threads that start, stop and restart the daemon under each other  *)
(* could run for ever.  A run of n threads and m daemons is over after     *)
(* 16 * n + 4 * m steps, and then NobodyWaitsForNothing says who waits.    *)
(***************************************************************************)
THEOREM EveryStepIsProgress ==
    ASSUME IsFiniteSet(Thread)
    PROVE  Spec => /\ [](Left \in 0 .. (16 * Cardinality(Thread) + 4 * MaxChannel))
                   /\ [][Left' < Left]_vars
<1>1. /\ IsFiniteSet(Thread \X (1 .. 16)) /\ IsFiniteSet(ChannelNumber \X (1 .. 4))
      /\ Cardinality(Thread \X (1 .. 16)) = 16 * Cardinality(Thread)
      /\ Cardinality(ChannelNumber \X (1 .. 4)) = 4 * MaxChannel
  <2>1. ASSUME NEW n \in Nat PROVE IsFiniteSet(1 .. n) /\ Cardinality(1 .. n) = n
    <3>1. 1 \in Int /\ n \in Int
      OBVIOUS
    <3>2. /\ IsFiniteSet(1 .. n)
          /\ Cardinality(1 .. n) = IF 1 > n THEN 0 ELSE n - 1 + 1
      BY ONLY <3>1, FS_Interval
    <3> QED  BY <3>2
  <2>2. /\ IsFiniteSet(ChannelNumber) /\ Cardinality(ChannelNumber) = MaxChannel
        /\ IsFiniteSet(1 .. 16) /\ Cardinality(1 .. 16) = 16
        /\ IsFiniteSet(1 .. 4) /\ Cardinality(1 .. 4) = 4
    <3>1. 16 \in Nat /\ 4 \in Nat /\ MaxChannel \in Nat
      BY ContextAssumption
    <3> QED  BY <2>1, <3>1 DEF ChannelNumber
  <2>3. Cardinality(Thread) \in Nat
    BY FS_CardinalityType
  <2>4. /\ IsFiniteSet(Thread \X (1 .. 16)) /\ IsFiniteSet(ChannelNumber \X (1 .. 4))
        /\ Cardinality(Thread \X (1 .. 16)) = Cardinality(Thread) * Cardinality(1 .. 16)
        /\ Cardinality(ChannelNumber \X (1 .. 4))
             = Cardinality(ChannelNumber) * Cardinality(1 .. 4)
    BY <2>2, FS_Product
  <2> QED  BY <2>2, <2>3, <2>4, ContextAssumption
<1>2. Left \in 0 .. (16 * Cardinality(Thread) + 4 * MaxChannel)
  <2>1. /\ ThreadAhead \in SUBSET (Thread \X (1 .. 16))
        /\ ChannelAhead \in SUBSET (ChannelNumber \X (1 .. 4))
    BY DEF ThreadAhead, ChannelAhead
  <2>2. /\ Cardinality(ThreadAhead) \in Nat
        /\ Cardinality(ThreadAhead) <= Cardinality(Thread \X (1 .. 16))
        /\ Cardinality(ChannelAhead) \in Nat
        /\ Cardinality(ChannelAhead) <= Cardinality(ChannelNumber \X (1 .. 4))
    BY <1>1, <2>1, Shrinks
  <2>3. Cardinality(Thread) \in Nat /\ MaxChannel \in Nat
    BY FS_CardinalityType, ContextAssumption
  <2> QED  BY <1>1, <2>2, <2>3 DEF Left
<1>3. LockInv /\ [Next]_vars => [Left' < Left]_vars
  <2> SUFFICES ASSUME TypeOK, [Next]_vars, vars' # vars PROVE Left' < Left
    BY DEF LockInv
  <2>1. /\ IsFiniteSet(ThreadAhead) /\ IsFiniteSet(ChannelAhead)
    <3>1. /\ ThreadAhead \in SUBSET (Thread \X (1 .. 16))
          /\ ChannelAhead \in SUBSET (ChannelNumber \X (1 .. 4))
      BY DEF ThreadAhead, ChannelAhead
    <3> QED  BY <1>1, <3>1, FS_Subset
  <2>2. ChannelAhead' \in SUBSET ChannelAhead
    <3>1. ASSUME NEW p \in ChannelAhead' PROVE p \in ChannelAhead
      <4>1. p \in ChannelNumber \X (1 .. 4) /\ Age(chans'[p[1]]) < p[2]
        BY DEF ChannelAhead
      <4>2. /\ p[1] \in ChannelNumber /\ p[2] \in Nat
            /\ Age(chans[p[1]]) \in Nat /\ Age(chans'[p[1]]) \in Nat
        BY <4>1, Ranked
      <4>3. Age(chans[p[1]]) <= Age(chans'[p[1]])
        BY <4>2, ChannelsMove
      <4>4. Age(chans[p[1]]) < p[2]
        BY <4>1, <4>2, <4>3
      <4> QED  BY <4>1, <4>4 DEF ChannelAhead
    <3> QED  BY <3>1
  <2>3. ASSUME NEW t \in Thread, ThreadStep(t) \/ Begin(t) PROVE Left' < Left
    <3>1. /\ Rank(at[t]) < Rank(at'[t]) /\ \A u \in Thread \ {t} : at'[u] = at[u]
          /\ \A u : Rank(at[u]) \in 0 .. 16 /\ Rank(at'[u]) \in 0 .. 16
      BY <2>3, ThreadMoves, Ranked
    <3>2. ASSUME NEW p \in ThreadAhead' PROVE p \in ThreadAhead
      <4>1. p \in Thread \X (1 .. 16) /\ Rank(at'[p[1]]) < p[2]
        BY DEF ThreadAhead
      <4>2. p[1] \in Thread /\ p[2] \in Nat
        BY <4>1
      <4>3. Rank(at[p[1]]) <= Rank(at'[p[1]])
        BY <3>1, <4>2
      <4>4. Rank(at[p[1]]) < p[2]
        BY <3>1, <4>1, <4>2, <4>3
      <4> QED  BY <4>1, <4>4 DEF ThreadAhead
    <3>3. <<t, Rank(at'[t])>> \in ThreadAhead \ ThreadAhead'
      <4>1. <<t, Rank(at'[t])>> \in Thread \X (1 .. 16)
        BY <3>1
      <4> QED  BY <3>1, <4>1 DEF ThreadAhead
    <3>4. ThreadAhead' \in SUBSET ThreadAhead /\ ThreadAhead' # ThreadAhead
      BY <3>2, <3>3
    <3>5. /\ Cardinality(ThreadAhead') < Cardinality(ThreadAhead)
          /\ Cardinality(ThreadAhead) \in Nat /\ Cardinality(ThreadAhead') \in Nat
      BY <2>1, <3>4, Shrinks
    <3>6. /\ Cardinality(ChannelAhead') <= Cardinality(ChannelAhead)
          /\ Cardinality(ChannelAhead) \in Nat /\ Cardinality(ChannelAhead') \in Nat
      BY <2>1, <2>2, Shrinks
    <3> QED  BY <3>5, <3>6 DEF Left
  <2>4. ASSUME NEW n \in ChannelNumber, DaemonEnds(n) \/ ReaderStep(n) PROVE Left' < Left
    <3>1. ThreadAhead' = ThreadAhead
      BY <2>4 DEF DaemonEnds, ReaderStep, ReaderEof, ReaderCrashes, ThreadAhead
    <3>2. Age(chans[n]) < Age(chans'[n]) /\ Age(chans[n]) \in 0 .. 4 /\ Age(chans'[n]) \in 0 .. 4
      BY <2>4, ChannelsMove, Ranked
    <3>3. <<n, Age(chans'[n])>> \in ChannelNumber \X (1 .. 4)
      BY <3>2
    <3>4. <<n, Age(chans'[n])>> \in ChannelAhead \ ChannelAhead'
      BY <3>2, <3>3 DEF ChannelAhead
    <3>5. /\ Cardinality(ChannelAhead') < Cardinality(ChannelAhead)
          /\ Cardinality(ChannelAhead) \in Nat /\ Cardinality(ChannelAhead') \in Nat
      BY <2>1, <2>2, <3>4, Shrinks
    <3>6. Cardinality(ThreadAhead) \in Nat
      BY <2>1, FS_CardinalityType
    <3> QED  BY <3>1, <3>5, <3>6 DEF Left
  <2> QED  BY <2>3, <2>4 DEF Next, Begin
<1> QED  BY <1>2, <1>3, LockInit, LockStep, PTL DEF Spec
=============================================================================
