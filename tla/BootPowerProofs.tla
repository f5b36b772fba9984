--------------------------- MODULE BootPowerProofs ---------------------------
(***************************************************************************)
(* The panel and the USB detection share two timers with the interrupts    *)
(* that stop, release and request them.  Whatever the interrupts meet the  *)
(* main program at, even inside a call for a timer, neither ever holds a   *)
(* timer of the other, unless a change at the plug meets such a call.      *)
(* From this follows the order in which the panel's steps run.             *)
(***************************************************************************)
EXTENDS BootPower, SequenceTheorems, WellFoundedInduction, TLAPS

Handle == Timer \cup {NoTimer}

----------------------------------------------------------------------------
(* The operations of the timers: most change neither who owns a timer nor  *)
(* whom it calls.                                                          *)
Keeps(m, n) == n \in TimerState /\ n.used = m.used /\ n.func = m.func

LEMMA FuncTypes == /\ {OpenFn, CloseFn} \subseteq Func /\ UsbFn \in Func
                   /\ UsbFn \notin {OpenFn, CloseFn}
  BY FnAssumption

LEMMA IntKeeps ==
  ASSUME NEW m \in TimerState, NEW irq \in Irq
  PROVE  Keeps(m, EnableInt(m, irq)) /\ Keeps(m, DisableInt(m, irq))
  BY DEF Keeps, TimerState, EnableInt, DisableInt, WriteSetEnable

LEMMA TimerIrq == \A t \in Timer : TimerIrqNo(t) \in Irq
  BY DEF TimerIrqNo, Irq, Timer

LEMMA StatKeeps ==
  ASSUME NEW m \in TimerState, NEW t \in Timer
  PROVE  Keeps(m, ClearStat(m, t)) /\ Keeps(m, TakeTimerInt(m, t))
         /\ Keeps(m, Expire(m, t))
<1>1. Keeps(m, WriteStats(m, m.stats \cup {t}))
  BY DEF Keeps, TimerState, WriteStats
<1>2. Keeps(m, ClearStat(m, t))
  <2> DEFINE n == WriteStats(m, m.stats \cup {t})
             lost == (m.stats \cap m.ctrl) \ {t}
  <2>1. n \in TimerState /\ lost \subseteq Timer /\ n.used = m.used /\ n.func = m.func
    BY <1>1 DEF Keeps, TimerState
  <2>2. ClearStat(m, t) = [n EXCEPT !.lost = n.lost \cup lost]
    BY DEF ClearStat
  <2> HIDE DEF n, lost
  <2> QED
    BY <2>1, <2>2 DEF Keeps, TimerState
<1>3. Keeps(m, TakeTimerInt(m, t))
  BY <1>2, IntKeeps, TimerIrq DEF Keeps, TakeTimerInt
<1>4. Keeps(m, Expire(m, t))
  BY DEF Keeps, TimerState, Expire
<1> QED
  BY <1>2, <1>3, <1>4

LEMMA InUse ==
  ASSUME NEW m \in TimerState, NEW t \in Handle, t \in m.used
  PROVE  t \in Timer
  BY DEF TimerState

LEMMA StartStopKeeps ==
  ASSUME NEW m \in TimerState, NEW t \in Handle
  PROVE  Keeps(m, Start(m, t)) /\ Keeps(m, Stop(m, t))
<1>1. CASE t \notin m.used
  BY <1>1 DEF Start, Stop, Keeps
<1>2. CASE t \in m.used
  <2>1. t \in Timer /\ TimerIrqNo(t) \in Irq
    BY <1>2, InUse, TimerIrq
  <2>2. Keeps(m, Start(m, t))
    <3> DEFINE n == EnableInt(m, TimerIrqNo(t))
    <3>1. n \in TimerState /\ n.used = m.used /\ n.func = m.func
      BY <2>1, IntKeeps DEF Keeps
    <3>2. Start(m, t) = [n EXCEPT !.ctrl = n.ctrl \cup {t}, !.run = n.run \cup {t},
                                  !.fresh = n.fresh \cup {t}, !.lost = n.lost \ {t}]
      BY <1>2 DEF Start
    <3> HIDE DEF n
    <3>3. /\ n.ctrl \cup {t} \in SUBSET Timer /\ n.run \cup {t} \in SUBSET Timer
          /\ n.fresh \cup {t} \in SUBSET Timer /\ n.lost \ {t} \in SUBSET Timer
      BY <2>1, <3>1 DEF TimerState
    <3> QED
      BY <3>1, <3>2, <3>3 DEF Keeps, TimerState
  <2>3. Keeps(m, Stop(m, t))
    <3> DEFINE a == [m EXCEPT !.run = m.run \ {t}]
               n == DisableInt(ClearStat(a, t), TimerIrqNo(t))
    <3>1. a \in TimerState /\ a.used = m.used /\ a.func = m.func
      BY DEF TimerState
    <3>2. n \in TimerState /\ n.used = m.used /\ n.func = m.func
      <4> HIDE DEF a
      <4>1. Keeps(a, ClearStat(a, t))
        BY <2>1, <3>1, StatKeeps
      <4> QED
        BY <2>1, <3>1, <4>1, IntKeeps DEF Keeps
    <3>3. Stop(m, t) = [n EXCEPT !.ctrl = n.ctrl \ {t}]
      BY <1>2 DEF Stop
    <3> HIDE DEF n
    <3> QED
      BY <2>1, <3>2, <3>3 DEF Keeps, TimerState
  <2> QED
    BY <2>2, <2>3
<1> QED
  BY <1>1, <1>2

LEMMA Releases ==
  ASSUME NEW m \in TimerState, NEW t \in Handle
  PROVE  /\ Release(m, t) \in TimerState
         /\ Release(m, t).used = m.used \ {t}
         /\ Release(m, t).func = m.func
<1>1. CASE t \notin m.used
  BY <1>1 DEF Release
<1>2. CASE t \in m.used
  <2>1. t \in Timer /\ TimerIrqNo(t) \in Irq
    BY <1>2, InUse, TimerIrq
  <2> DEFINE a == [m EXCEPT !.run = m.run \ {t}, !.ctrl = m.ctrl \ {t}]
             n == DisableInt(a, TimerIrqNo(t))
  <2>2. a \in TimerState /\ a.used = m.used /\ a.func = m.func
    BY DEF TimerState
  <2>3. n \in TimerState /\ n.used = m.used /\ n.func = m.func
    <3> HIDE DEF a
    <3> QED
      BY <2>1, <2>2, IntKeeps DEF Keeps
  <2>4. Release(m, t) = [n EXCEPT !.used = n.used \ {t}]
    BY <1>2 DEF Release
  <2> HIDE DEF n
  <2> QED
    BY <2>3, <2>4 DEF TimerState
<1> QED
  BY <1>1, <1>2

\* A request gives out a free timer, and leaves those in use alone.
LEMMA Requests ==
  ASSUME NEW m \in TimerState, NEW f \in Func
  PROVE  /\ RequestHandle(m) \in Handle /\ RequestHandle(m) \notin m.used
         /\ Request(m, f) \in TimerState
         /\ RequestHandle(m) # NoTimer =>
              /\ RequestHandle(m) \in Request(m, f).used
              /\ Request(m, f).func[RequestHandle(m)] = f
         /\ \A s \in m.used : /\ s \in Request(m, f).used
                              /\ Request(m, f).func[s] = m.func[s]
<1>1. CASE FreeTimers(m) = {}
  <2>1. RequestHandle(m) = NoTimer /\ Request(m, f) = m
    BY <1>1 DEF RequestHandle, Request
  <2>2. NoTimer \notin m.used
    BY DEF TimerState, NoTimer, Timer
  <2> QED
    BY <2>1, <2>2 DEF Handle
<1>2. CASE FreeTimers(m) # {}
  <2>1. \E t \in FreeTimers(m) : \A s \in FreeTimers(m) : t <= s
    <3>1. FreeTimers(m) \subseteq {0, 1}
      BY DEF FreeTimers, Timer
    <3> QED
      BY <1>2, <3>1
  <2>2. RequestHandle(m) \in FreeTimers(m)
    BY <1>2, <2>1 DEF RequestHandle
  <2>3. RequestHandle(m) \in Timer /\ RequestHandle(m) \notin m.used
        /\ RequestHandle(m) # NoTimer
    BY <2>2 DEF FreeTimers, NoTimer, Timer
  <2> DEFINE h == RequestHandle(m)
  <2>4. Request(m, f) = [m EXCEPT !.used = m.used \cup {h}, !.ctrl = m.ctrl \ {h},
                                  !.run = m.run \ {h}, !.func = [m.func EXCEPT ![h] = f]]
    BY <2>3 DEF Request, TimerState
  <2> HIDE DEF h
  <2>5. /\ [m.func EXCEPT ![h] = f] \in [Timer -> Func \cup {NoFunc}]
        /\ h \in Timer => [m.func EXCEPT ![h] = f][h] = f
        /\ \A s \in Timer : s # h => [m.func EXCEPT ![h] = f][s] = m.func[s]
        /\ h \in Timer => m.used \cup {h} \in SUBSET Timer
        /\ m.ctrl \ {h} \in SUBSET Timer /\ m.run \ {h} \in SUBSET Timer
        /\ m.used \subseteq Timer
    BY DEF TimerState
  <2>6. h \in Timer /\ h \notin m.used
    BY <2>3 DEF h
  <2>7. /\ Request(m, f) \in TimerState
        /\ Request(m, f).used = m.used \cup {h}
        /\ Request(m, f).func = [m.func EXCEPT ![h] = f]
    BY <2>4, <2>5, <2>6 DEF TimerState
  <2>8. h \in Request(m, f).used /\ Request(m, f).func[h] = f
    BY <2>5, <2>6, <2>7
  <2>9. \A s \in m.used : s \in Request(m, f).used /\ Request(m, f).func[s] = m.func[s]
    BY <2>5, <2>6, <2>7
  <2> QED
    BY <2>3, <2>7, <2>8, <2>9 DEF Handle, h
<1> QED
  BY <1>1, <1>2


----------------------------------------------------------------------------
(* What the operations of the timers do to the registers; the control      *)
(* register is left out, since no call-back depends on it alone.           *)
\* Nothing but the interrupt enables and the history of losses.
Same(m, n) ==
  /\ n.used = m.used /\ n.func = m.func /\ n.run = m.run
  /\ n.stats = m.stats /\ n.fresh = m.fresh
\* Clearing one status bit clears all of them.
Cleared(m, n) ==
  /\ n.used = m.used /\ n.func = m.func /\ n.run = m.run
  /\ n.stats = {} /\ n.fresh = m.fresh
\* A start lets a timer in use count anew, and leaves its status bit.
Started(m, t, n) ==
  /\ n.used = m.used /\ n.func = m.func /\ n.stats = m.stats
  /\ n.run = (IF t \in m.used THEN m.run \cup {t} ELSE m.run)
  /\ n.fresh = (IF t \in m.used THEN m.fresh \cup {t} ELSE m.fresh)
\* A stop clears the status bits of both.
Stopped(m, t, n) ==
  /\ n.used = m.used /\ n.func = m.func /\ n.fresh = m.fresh
  /\ n.run = (IF t \in m.used THEN m.run \ {t} ELSE m.run)
  /\ n.stats = (IF t \in m.used THEN {} ELSE m.stats)
\* A release leaves the status bit.
Released(m, t, n) ==
  /\ n.used = m.used \ {t} /\ n.func = m.func
  /\ n.run = (IF t \in m.used THEN m.run \ {t} ELSE m.run)
  /\ n.stats = m.stats /\ n.fresh = m.fresh
\* A request takes a free timer, which counts no more but may have its status
\* bit set, or finds none.
Requested(m, f, t, n) ==
  \/ t = NoTimer /\ Same(m, n)
  \/ /\ t \in Timer \ m.used /\ n.used = m.used \cup {t}
     /\ n.func = [m.func EXCEPT ![t] = f] /\ n.run = m.run \ {t}
     /\ n.stats = m.stats /\ n.fresh = m.fresh

LEMMA IntSame ==
  ASSUME NEW m \in TimerState, NEW irq
  PROVE  Same(m, EnableInt(m, irq)) /\ Same(m, DisableInt(m, irq))
  BY DEF Same, TimerState, EnableInt, DisableInt, WriteSetEnable

\* The entry of a timer's handler clears the bits of both.
LEMMA ClearEffect ==
  ASSUME NEW m \in TimerState, NEW t \in Timer
  PROVE  Cleared(m, ClearStat(m, t)) /\ Cleared(m, TakeTimerInt(m, t))
<1> DEFINE n == WriteStats(m, m.stats \cup {t})
           lost == (m.stats \cap m.ctrl) \ {t}
<1>1. n = [m EXCEPT !.stats = {}]
  <2>1. n = [m EXCEPT !.stats = m.stats \ (m.stats \cup {t})]
    BY DEF WriteStats
  <2>2. m.stats \ (m.stats \cup {t}) = {}
    OBVIOUS
  <2> QED
    BY <2>1, <2>2
<1>2. ClearStat(m, t) = [n EXCEPT !.lost = n.lost \cup lost]
  BY DEF ClearStat
<1> HIDE DEF n, lost
<1>3. Cleared(m, ClearStat(m, t))
  BY <1>1, <1>2 DEF Cleared, TimerState
<1>4. Same(ClearStat(m, t), TakeTimerInt(m, t))
  BY StatKeeps, IntSame DEF TakeTimerInt, Keeps
<1> QED
  BY <1>3, <1>4 DEF Cleared, Same

LEMMA StartEffect ==
  ASSUME NEW m \in TimerState, NEW t \in Handle
  PROVE  Started(m, t, Start(m, t))
<1>1. CASE t \notin m.used
  BY <1>1 DEF Start, Started
<1>2. CASE t \in m.used
  <2> DEFINE n == EnableInt(m, TimerIrqNo(t))
  <2>1. Keeps(m, n) /\ Same(m, n)
    BY <1>2, InUse, TimerIrq, IntKeeps, IntSame
  <2>2. Start(m, t) = [n EXCEPT !.ctrl = n.ctrl \cup {t}, !.run = n.run \cup {t},
                                !.fresh = n.fresh \cup {t}, !.lost = n.lost \ {t}]
    BY <1>2 DEF Start
  <2> HIDE DEF n
  <2> QED
    BY <1>2, <2>1, <2>2 DEF Keeps, Same, Started, TimerState
<1> QED
  BY <1>1, <1>2

LEMMA StopEffect ==
  ASSUME NEW m \in TimerState, NEW t \in Handle
  PROVE  Stopped(m, t, Stop(m, t))
<1>1. CASE t \notin m.used
  BY <1>1 DEF Stop, Stopped
<1>2. CASE t \in m.used
  <2>1. t \in Timer
    BY <1>2, InUse
  <2> DEFINE a == [m EXCEPT !.run = m.run \ {t}]
             b == ClearStat(a, t)
             n == DisableInt(b, TimerIrqNo(t))
  <2>2. /\ a \in TimerState /\ a.used = m.used /\ a.func = m.func
        /\ a.run = m.run \ {t} /\ a.fresh = m.fresh
    BY DEF TimerState
  <2>3. Stop(m, t) = [n EXCEPT !.ctrl = n.ctrl \ {t}]
    BY <1>2 DEF Stop
  <2> HIDE DEF a
  <2>4. Keeps(a, b) /\ Cleared(a, b)
    BY <2>1, <2>2, StatKeeps, ClearEffect
  <2> HIDE DEF b
  <2>5. Keeps(b, n) /\ Same(b, n)
    BY <2>1, <2>4, IntKeeps, IntSame, TimerIrq DEF Keeps
  <2> HIDE DEF n
  <2> QED
    BY <1>2, <2>2, <2>3, <2>4, <2>5 DEF Keeps, Same, Cleared, Stopped, TimerState
<1> QED
  BY <1>1, <1>2

LEMMA ReleaseEffect ==
  ASSUME NEW m \in TimerState, NEW t \in Handle
  PROVE  Released(m, t, Release(m, t))
<1>1. CASE t \notin m.used
  BY <1>1 DEF Release, Released
<1>2. CASE t \in m.used
  <2>1. t \in Timer
    BY <1>2, InUse
  <2> DEFINE a == [m EXCEPT !.run = m.run \ {t}, !.ctrl = m.ctrl \ {t}]
             n == DisableInt(a, TimerIrqNo(t))
  <2>2. /\ a \in TimerState /\ a.used = m.used /\ a.func = m.func
        /\ a.run = m.run \ {t} /\ a.stats = m.stats /\ a.fresh = m.fresh
    BY DEF TimerState
  <2>3. Release(m, t) = [n EXCEPT !.used = n.used \ {t}]
    BY <1>2 DEF Release
  <2> HIDE DEF a
  <2>4. Keeps(a, n) /\ Same(a, n)
    BY <2>1, <2>2, IntKeeps, IntSame, TimerIrq
  <2> HIDE DEF n
  <2> QED
    BY <1>2, <2>2, <2>3, <2>4 DEF Keeps, Same, Released, TimerState
<1> QED
  BY <1>1, <1>2

LEMMA RequestEffect ==
  ASSUME NEW m \in TimerState, NEW f \in Func
  PROVE  Requested(m, f, RequestHandle(m), Request(m, f))
<1> DEFINE h == RequestHandle(m)
           n == Request(m, f)
<1>1. CASE h = NoTimer
  BY <1>1 DEF Request, Requested, Same
<1>2. CASE h # NoTimer
  <2>1. h \in Timer \ m.used
    BY <1>2, Requests DEF Handle
  <2>2. n = [m EXCEPT !.used = m.used \cup {h}, !.ctrl = m.ctrl \ {h},
                      !.run = m.run \ {h}, !.func = [m.func EXCEPT ![h] = f]]
    BY <1>2 DEF Request, TimerState
  <2> HIDE DEF h, n
  <2>3. /\ n.used = m.used \cup {h} /\ n.func = [m.func EXCEPT ![h] = f]
        /\ n.run = m.run \ {h} /\ n.stats = m.stats /\ n.fresh = m.fresh
    BY <2>2 DEF TimerState
  <2>4. Requested(m, f, h, n)
    BY <2>1, <2>3 DEF Requested
  <2> QED
    BY <2>4 DEF h, n
<1> QED
  BY <1>1, <1>2

\* Whom a requested timer calls, and that the others are left alone.
LEMMA RequestedFunc ==
  ASSUME NEW m \in TimerState, NEW f \in Func, NEW t, NEW n, Requested(m, f, t, n)
  PROVE  /\ t \in Handle /\ t \notin m.used
         /\ t # NoTimer => t \in n.used /\ n.func[t] = f
         /\ \A s \in Timer : s # t => n.func[s] = m.func[s]
         /\ \A s \in m.used : s \in n.used /\ n.func[s] = m.func[s]
<1>1. m.func \in [Timer -> Func \cup {NoFunc}] /\ m.used \subseteq Timer
  BY DEF TimerState
<1>2. NoTimer \notin Timer
  BY DEF NoTimer, Timer
<1>3. CASE t = NoTimer /\ Same(m, n)
  BY <1>1, <1>2, <1>3 DEF Same, Handle
<1>4. CASE /\ t \in Timer \ m.used /\ n.used = m.used \cup {t}
           /\ n.func = [m.func EXCEPT ![t] = f]
  BY <1>1, <1>2, <1>4 DEF Handle
<1> QED
  BY <1>3, <1>4 DEF Requested
----------------------------------------------------------------------------
(* A call of the main program for a timer is settled at its first step:    *)
(* Settled says what it leaves when it is done, and its further steps do   *)
(* not change that.  The invariants speak of this settled state, in which  *)
(* a call is one step; what an interrupt in the midst of a call does to it *)
(* is shown apart.                                                         *)
Settled(m, c) ==
  IF c.at = "take" THEN Stored(Taken(m, c), TakenCall(m, c))
  ELSE IF c.at = "store"
  THEN IF c.op = "release" THEN Freed(Stored(m, c), c) ELSE Stored(m, c)
  ELSE IF c.at = "free" THEN Freed(m, c) ELSE m
ts == Settled(tm, main.call)

CallAt(op) ==
  IF op = "request" THEN {"enter_store", "close_store"}
  ELSE IF op = "start" THEN {"enter_connect", "uninstall"}
  ELSE IF op = "stop" THEN {"leave_release"}
  ELSE {"leave_store", "wait_clear", "uninstall_clear"}
Calls == [op : {"none", "request", "start", "stop", "release"},
          at : {"none", "take", "store", "free"}, t : Handle,
          ctrl : SUBSET Timer, fn : Func \cup {NoFunc}]
IsCall(c) ==
  /\ c \in Calls
  /\ c = NoCall \/ /\ c.t \in Timer
                   /\ \/ c.op = "request" /\ c.at \in {"take", "store"} /\ c.fn \in Func
                      \/ c.op \in {"start", "stop"} /\ c.at = "store"
                      \/ c.op = "release" /\ c.at \in {"store", "free"}

\* The fields of what a store leaves.
LEMMA StoredFields ==
  ASSUME NEW m \in TimerState, NEW c, IsCall(c), c.at = "store"
  PROVE  /\ Stored(m, c) \in TimerState
         /\ Stored(m, c).used = m.used /\ Stored(m, c).stats = m.stats
         /\ Stored(m, c).func = IF c.op = "request" THEN [m.func EXCEPT ![c.t] = c.fn]
                                ELSE m.func
         /\ Stored(m, c).ctrl = IF c.op = "start" THEN c.ctrl \cup {c.t}
                                ELSE c.ctrl \ {c.t}
         /\ Stored(m, c).run = IF c.op = "request" THEN m.run \ {c.t}
                               ELSE IF c.op = "start" THEN m.run \cup {c.t} ELSE m.run
         /\ Stored(m, c).gic = IF c.op = "start" THEN m.gic \cup {TimerIrqNo(c.t)}
                               ELSE m.gic
         /\ Stored(m, c).fresh = IF c.op = "start" THEN m.fresh \cup {c.t} ELSE m.fresh
         /\ Stored(m, c).lost = IF c.op = "start" THEN m.lost \ {c.t} ELSE m.lost
<1> DEFINE ctrl == IF c.op = "start" THEN c.ctrl \cup {c.t} ELSE c.ctrl \ {c.t}
           n == [m EXCEPT !.ctrl = ctrl]
<1>1. c.t \in Timer /\ c.ctrl \in SUBSET Timer /\ TimerIrqNo(c.t) \in Irq
      /\ c.op \in {"request", "start", "stop", "release"}
      /\ (c.op = "request" => c.fn \in Func)
  BY TimerIrq DEF IsCall, NoCall, Calls
<1>2. n \in TimerState /\ n.ctrl = ctrl /\ n.used = m.used /\ n.func = m.func
      /\ n.run = m.run /\ n.stats = m.stats /\ n.gic = m.gic /\ n.fresh = m.fresh
      /\ n.lost = m.lost
  BY <1>1 DEF TimerState
<1> HIDE DEF n
<1>3. CASE c.op = "request"
  <2>1. Stored(m, c) = [n EXCEPT !.run = n.run \ {c.t}, !.func = [n.func EXCEPT ![c.t] = c.fn]]
    BY <1>3 DEF Stored, n
  <2>2. [n.func EXCEPT ![c.t] = c.fn] \in [Timer -> Func \cup {NoFunc}]
    BY <1>1, <1>2, <1>3 DEF TimerState
  <2>3. n.run \ {c.t} \in SUBSET Timer
    BY <1>2 DEF TimerState
  <2>4. /\ Stored(m, c) \in TimerState
        /\ Stored(m, c).used = n.used /\ Stored(m, c).stats = n.stats
        /\ Stored(m, c).func = [n.func EXCEPT ![c.t] = c.fn]
        /\ Stored(m, c).ctrl = n.ctrl /\ Stored(m, c).run = n.run \ {c.t}
        /\ Stored(m, c).gic = n.gic /\ Stored(m, c).fresh = n.fresh
        /\ Stored(m, c).lost = n.lost
    BY <1>2, <2>1, <2>2, <2>3 DEF TimerState
  <2> QED
    BY <1>2, <1>3, <2>4
<1>4. CASE c.op = "start"
  <2>1. Stored(m, c) = [EnableInt(n, TimerIrqNo(c.t)) EXCEPT
                          !.run = @ \cup {c.t}, !.fresh = @ \cup {c.t}, !.lost = @ \ {c.t}]
    BY <1>4 DEF Stored, n
  <2>2. Stored(m, c) = [n EXCEPT !.gic = n.gic \cup {TimerIrqNo(c.t)},
                          !.run = n.run \cup {c.t}, !.fresh = n.fresh \cup {c.t},
                          !.lost = n.lost \ {c.t}]
    BY <1>2, <2>1 DEF EnableInt, WriteSetEnable, TimerState
  <2>3. /\ n.gic \cup {TimerIrqNo(c.t)} \in SUBSET Irq /\ n.run \cup {c.t} \in SUBSET Timer
        /\ n.fresh \cup {c.t} \in SUBSET Timer /\ n.lost \ {c.t} \in SUBSET Timer
    BY <1>1, <1>2 DEF TimerState
  <2>4. /\ Stored(m, c) \in TimerState
        /\ Stored(m, c).used = n.used /\ Stored(m, c).stats = n.stats
        /\ Stored(m, c).func = n.func
        /\ Stored(m, c).ctrl = n.ctrl /\ Stored(m, c).run = n.run \cup {c.t}
        /\ Stored(m, c).gic = n.gic \cup {TimerIrqNo(c.t)}
        /\ Stored(m, c).fresh = n.fresh \cup {c.t}
        /\ Stored(m, c).lost = n.lost \ {c.t}
    BY <1>2, <2>2, <2>3 DEF TimerState
  <2> QED
    BY <1>2, <1>4, <2>4
<1>5. CASE c.op \in {"stop", "release"}
  <2>1. Stored(m, c) = DisableInt(n, TimerIrqNo(c.t))
    BY <1>5 DEF Stored, n
  <2>2. Stored(m, c) = [n EXCEPT !.gic = n.gic]
    BY <1>2, <2>1 DEF DisableInt, WriteSetEnable, TimerState
  <2>3. /\ Stored(m, c) \in TimerState
        /\ Stored(m, c).used = n.used /\ Stored(m, c).stats = n.stats
        /\ Stored(m, c).func = n.func /\ Stored(m, c).ctrl = n.ctrl
        /\ Stored(m, c).run = n.run /\ Stored(m, c).gic = n.gic
        /\ Stored(m, c).fresh = n.fresh /\ Stored(m, c).lost = n.lost
    BY <1>2, <2>2 DEF TimerState
  <2> QED
    BY <1>2, <1>5, <2>3
<1> QED
  BY <1>1, <1>3, <1>4, <1>5

LEMMA SettledNone ==
  ASSUME NEW m PROVE Settled(m, NoCall) = m
  BY DEF Settled, NoCall

\* The fields of the settled state, from those of the registers.
LEMMA SettledFields ==
  ASSUME NEW m \in TimerState, NEW c, IsCall(c), c # NoCall
  PROVE  /\ Settled(m, c) \in TimerState
         /\ Settled(m, c).used = IF c.op = "release" THEN m.used \ {c.t}
                                 ELSE IF c.at = "take" THEN m.used \cup {c.t} ELSE m.used
         /\ Settled(m, c).func = IF c.op = "request" THEN [m.func EXCEPT ![c.t] = c.fn]
                                 ELSE m.func
         /\ Settled(m, c).stats = m.stats
         /\ Settled(m, c).ctrl = IF c.at = "take" THEN m.ctrl \ {c.t}
                                 ELSE IF c.at = "free" THEN m.ctrl
                                 ELSE IF c.op = "start" THEN c.ctrl \cup {c.t}
                                 ELSE c.ctrl \ {c.t}
         /\ Settled(m, c).run = IF c.op = "request" THEN m.run \ {c.t}
                                ELSE IF c.op = "start" THEN m.run \cup {c.t} ELSE m.run
         /\ Settled(m, c).gic = IF c.op = "start" THEN m.gic \cup {TimerIrqNo(c.t)}
                                ELSE m.gic
         /\ Settled(m, c).fresh = IF c.op = "start" THEN m.fresh \cup {c.t} ELSE m.fresh
         /\ Settled(m, c).lost = IF c.op = "start" THEN m.lost \ {c.t} ELSE m.lost
<1>1. c.t \in Timer /\ c \in Calls
  BY DEF IsCall
<1>2. CASE c.at = "take"
  <2> DEFINE n == Taken(m, c)
             d == TakenCall(m, c)
  <2>1. c.op = "request" /\ c.fn \in Func
    BY <1>2 DEF IsCall, NoCall
  <2>2. n \in TimerState /\ n.used = m.used \cup {c.t} /\ n.func = m.func
        /\ n.stats = m.stats /\ n.ctrl = m.ctrl /\ n.run = m.run /\ n.gic = m.gic
        /\ n.fresh = m.fresh /\ n.lost = m.lost
    BY <1>1 DEF Taken, TimerState
  <2>3. d \in Calls /\ d.at = "store" /\ d.op = "request" /\ d.t = c.t /\ d.fn = c.fn
        /\ d.ctrl = m.ctrl
    BY <1>1, <2>1 DEF TakenCall, Calls, TimerState
  <2>4. IsCall(d) /\ Settled(m, c) = Stored(n, d)
    BY <1>1, <1>2, <2>1, <2>3 DEF IsCall, Settled
  <2> HIDE DEF n, d
  <2>5. /\ Stored(n, d) \in TimerState
        /\ Stored(n, d).used = n.used /\ Stored(n, d).stats = n.stats
        /\ Stored(n, d).func = (IF d.op = "request" THEN [n.func EXCEPT ![d.t] = d.fn] ELSE n.func)
        /\ Stored(n, d).ctrl = (IF d.op = "start" THEN d.ctrl \cup {d.t} ELSE d.ctrl \ {d.t})
        /\ Stored(n, d).run = (IF d.op = "request" THEN n.run \ {d.t}
                          ELSE IF d.op = "start" THEN n.run \cup {d.t} ELSE n.run)
        /\ Stored(n, d).gic = (IF d.op = "start" THEN n.gic \cup {TimerIrqNo(d.t)} ELSE n.gic)
        /\ Stored(n, d).fresh = (IF d.op = "start" THEN n.fresh \cup {d.t} ELSE n.fresh)
        /\ Stored(n, d).lost = (IF d.op = "start" THEN n.lost \ {d.t} ELSE n.lost)
    BY <2>2, <2>3, <2>4, StoredFields
  <2> DEFINE q == Stored(n, d)
  <2>6. d.op = "request" /\ d.op # "start"
    BY <2>3
  <2>7. /\ q \in TimerState
        /\ q.used = n.used /\ q.stats = n.stats
        /\ q.func = [n.func EXCEPT ![d.t] = d.fn]
        /\ q.ctrl = d.ctrl \ {d.t} /\ q.run = n.run \ {d.t}
        /\ q.gic = n.gic /\ q.fresh = n.fresh
        /\ q.lost = n.lost
    <3> HIDE DEF q
    <3> QED
      BY <2>5, <2>6 DEF q
  <2> DEFINE o == Settled(m, c)
  <2>8. /\ o \in TimerState
        /\ o.used = m.used \cup {c.t} /\ o.stats = m.stats
        /\ o.func = [m.func EXCEPT ![c.t] = c.fn]
        /\ o.ctrl = m.ctrl \ {c.t} /\ o.run = m.run \ {c.t}
        /\ o.gic = m.gic /\ o.fresh = m.fresh /\ o.lost = m.lost
    <3> HIDE DEF q
    <3> QED
      BY <2>2, <2>3, <2>4, <2>7 DEF q
  <2> HIDE DEF o
  <2> QED
    BY <1>2, <2>1, <2>8 DEF o
<1>3. CASE c.at = "store"
  <2>1. CASE c.op = "release"
    <3>1. Settled(m, c) = [Stored(m, c) EXCEPT !.used = Stored(m, c).used \ {c.t}]
      BY <1>3, <2>1 DEF Settled, Freed
    <3> DEFINE n == Stored(m, c)
    <3>2. /\ n \in TimerState /\ n.func = m.func /\ n.used = m.used /\ n.stats = m.stats
          /\ n.ctrl = c.ctrl \ {c.t} /\ n.run = m.run /\ n.gic = m.gic
          /\ n.fresh = m.fresh /\ n.lost = m.lost
      BY <1>3, <2>1, StoredFields
    <3> HIDE DEF n
    <3>3. n.used \ {c.t} \in SUBSET Timer /\ Settled(m, c) = [n EXCEPT !.used = n.used \ {c.t}]
      BY <3>1, <3>2 DEF TimerState, n
    <3>4. /\ Settled(m, c) \in TimerState /\ Settled(m, c).used = n.used \ {c.t}
          /\ Settled(m, c).func = n.func /\ Settled(m, c).stats = n.stats
          /\ Settled(m, c).ctrl = n.ctrl /\ Settled(m, c).run = n.run
          /\ Settled(m, c).gic = n.gic /\ Settled(m, c).fresh = n.fresh
          /\ Settled(m, c).lost = n.lost
      BY <3>2, <3>3 DEF TimerState
    <3> QED
      BY <1>3, <2>1, <3>2, <3>4
  <2>2. CASE c.op # "release"
    <3>1. Settled(m, c) = Stored(m, c)
      BY <1>3, <2>2 DEF Settled
    <3>2. /\ Stored(m, c) \in TimerState
          /\ Stored(m, c).used = m.used /\ Stored(m, c).stats = m.stats
          /\ Stored(m, c).func = (IF c.op = "request" THEN [m.func EXCEPT ![c.t] = c.fn] ELSE m.func)
          /\ Stored(m, c).ctrl = (IF c.op = "start" THEN c.ctrl \cup {c.t} ELSE c.ctrl \ {c.t})
          /\ Stored(m, c).run = (IF c.op = "request" THEN m.run \ {c.t}
                            ELSE IF c.op = "start" THEN m.run \cup {c.t} ELSE m.run)
          /\ Stored(m, c).gic = (IF c.op = "start" THEN m.gic \cup {TimerIrqNo(c.t)} ELSE m.gic)
          /\ Stored(m, c).fresh = (IF c.op = "start" THEN m.fresh \cup {c.t} ELSE m.fresh)
          /\ Stored(m, c).lost = (IF c.op = "start" THEN m.lost \ {c.t} ELSE m.lost)
      BY <1>3, StoredFields
    <3> DEFINE n == Settled(m, c)
    <3>3. n = Stored(m, c)
      BY <3>1
    <3>4. c.at # "take" /\ c.at # "free"
      BY <1>3
    <3> HIDE DEF n
    <3>5. /\ n \in TimerState
          /\ n.used = m.used /\ n.stats = m.stats
          /\ n.func = (IF c.op = "request" THEN [m.func EXCEPT ![c.t] = c.fn] ELSE m.func)
          /\ n.ctrl = (IF c.op = "start" THEN c.ctrl \cup {c.t} ELSE c.ctrl \ {c.t})
          /\ n.run = (IF c.op = "request" THEN m.run \ {c.t}
                            ELSE IF c.op = "start" THEN m.run \cup {c.t} ELSE m.run)
          /\ n.gic = (IF c.op = "start" THEN m.gic \cup {TimerIrqNo(c.t)} ELSE m.gic)
          /\ n.fresh = (IF c.op = "start" THEN m.fresh \cup {c.t} ELSE m.fresh)
          /\ n.lost = (IF c.op = "start" THEN m.lost \ {c.t} ELSE m.lost)
      BY <3>2, <3>3
    <3> QED
      BY <2>2, <3>4, <3>5 DEF n
  <2> QED
    BY <2>1, <2>2
<1>4. CASE c.at = "free"
  <2>1. Settled(m, c) = [m EXCEPT !.used = m.used \ {c.t}] /\ c.op = "release"
        /\ m.used \ {c.t} \in SUBSET Timer
    BY <1>4 DEF Settled, Freed, IsCall, NoCall, TimerState
  <2>2. /\ Settled(m, c) \in TimerState /\ Settled(m, c).used = m.used \ {c.t}
        /\ Settled(m, c).func = m.func /\ Settled(m, c).stats = m.stats
        /\ Settled(m, c).ctrl = m.ctrl /\ Settled(m, c).run = m.run
        /\ Settled(m, c).gic = m.gic /\ Settled(m, c).fresh = m.fresh
        /\ Settled(m, c).lost = m.lost
    BY <2>1 DEF TimerState
  <2> QED
    BY <1>4, <2>1, <2>2
<1> QED
  BY <1>2, <1>3, <1>4 DEF IsCall

\* What the first step of a call has done already.
LEMMA EnteredFields ==
  ASSUME NEW m \in TimerState, NEW op, NEW t \in Handle
  PROVE  LET n == Entered(m, op, t)
             off == t \in m.used /\ op # "request" IN
         /\ n \in TimerState /\ n.used = m.used /\ n.func = m.func /\ n.fresh = m.fresh
         /\ n.run = (IF off THEN m.run \ {t} ELSE m.run)
         /\ n.stats = (IF off /\ op = "stop" THEN {} ELSE m.stats)
<1>1. CASE op = "request" \/ t \notin m.used
  BY <1>1 DEF Entered
<1>2. CASE op # "request" /\ t \in m.used
  <2> DEFINE a == [m EXCEPT !.run = m.run \ {t}]
  <2>1. t \in Timer
    BY <1>2, InUse
  <2>2. /\ a \in TimerState /\ a.used = m.used /\ a.func = m.func /\ a.fresh = m.fresh
        /\ a.run = m.run \ {t} /\ a.stats = m.stats
    BY DEF TimerState
  <2>3. Entered(m, op, t) = IF op = "stop" THEN ClearStat(a, t) ELSE a
    BY <1>2 DEF Entered
  <2> HIDE DEF a
  <2>4. Keeps(a, ClearStat(a, t)) /\ Cleared(a, ClearStat(a, t))
    BY <2>1, <2>2, StatKeeps, ClearEffect
  <2>5. CASE op = "stop"
    BY <1>2, <2>2, <2>3, <2>4, <2>5 DEF Keeps, Cleared
  <2>6. CASE op # "stop"
    BY <1>2, <2>2, <2>3, <2>6
  <2> QED
    BY <2>5, <2>6
<1> QED
  BY <1>1, <1>2

\* The settled state after the first step of a call is what the whole call
\* makes of the registers.
Settles(m, op, t, f, n) ==
  IF op = "request" THEN Requested(m, f, t, n)
  ELSE IF op = "start" THEN Started(m, t, n)
  ELSE IF op = "stop" THEN Stopped(m, t, n) ELSE Released(m, t, n)
LEMMA CallBegins ==
  ASSUME NEW m \in TimerState, NEW op \in {"request", "start", "stop", "release"},
         NEW t \in Handle, NEW f \in Func \cup {NoFunc},
         op = "request" => t = RequestHandle(m) /\ f \in Func,
         NEW e, e = Entered(m, op, t), NEW c, c = CallOf(m, op, t, f),
         NEW n, n = Settled(e, c)
  PROVE  /\ e \in TimerState /\ n \in TimerState /\ IsCall(c)
         /\ c # NoCall => c.op = op /\ c.t = t /\ c.fn = f
         /\ Settles(m, op, t, f, n)
<1> DEFINE off == t \in m.used /\ op # "request"
<1>1. /\ e \in TimerState /\ e.used = m.used /\ e.func = m.func /\ e.fresh = m.fresh
      /\ e.run = (IF off THEN m.run \ {t} ELSE m.run)
      /\ e.stats = (IF off /\ op = "stop" THEN {} ELSE m.stats)
  BY EnteredFields
<1>2. CASE ~Enters(m, op, t)
  <2>1. c = NoCall /\ n = e
    BY <1>2, SettledNone DEF CallOf
  <2>2. ~off /\ (op # "request" => t \notin m.used) /\ (op = "request" => t = NoTimer)
    BY <1>2 DEF Enters
  <2>3. IsCall(c)
    BY <2>1 DEF IsCall, Calls, NoCall, Handle
  <2>4. Same(m, n)
    BY <1>1, <2>1, <2>2 DEF Same
  <2>5. Settles(m, op, t, f, n)
    BY <2>2, <2>4 DEF Settles, Requested, Started, Stopped, Released, Same
  <2> QED
    BY <1>1, <2>1, <2>3, <2>5
<1>3. CASE Enters(m, op, t)
  <2>1. c = [op |-> op, at |-> IF op = "request" THEN "take" ELSE "store",
             t |-> t, ctrl |-> IF op = "request" THEN {} ELSE m.ctrl, fn |-> f]
    BY <1>3 DEF CallOf
  <2>2. /\ c.op = op /\ c.t = t /\ c.fn = f
        /\ c.at = (IF op = "request" THEN "take" ELSE "store")
    BY <2>1
  <2>3. t \in Timer /\ (op # "request" => off) /\ (op = "request" => t \notin m.used)
    BY <1>3, InUse, Requests DEF Enters, Handle
  <2>4. IsCall(c)
    <3>1. {} \in SUBSET Timer /\ m.ctrl \in SUBSET Timer
      BY DEF TimerState
    <3>2. c \in Calls
      BY <2>1, <3>1 DEF Calls
    <3> QED
      BY <2>2, <2>3, <3>2 DEF IsCall
  <2>5. c # NoCall
    BY <2>2 DEF NoCall
  <2>6. /\ n \in TimerState
        /\ n.used = (IF c.op = "release" THEN e.used \ {c.t}
                     ELSE IF c.at = "take" THEN e.used \cup {c.t} ELSE e.used)
        /\ n.func = (IF c.op = "request" THEN [e.func EXCEPT ![c.t] = c.fn] ELSE e.func)
        /\ n.stats = e.stats
        /\ n.run = (IF c.op = "request" THEN e.run \ {c.t}
                    ELSE IF c.op = "start" THEN e.run \cup {c.t} ELSE e.run)
        /\ n.fresh = (IF c.op = "start" THEN e.fresh \cup {c.t} ELSE e.fresh)
    <3>1. e \in TimerState
      BY <1>1
    <3>2. /\ Settled(e, c) \in TimerState
          /\ Settled(e, c).used = (IF c.op = "release" THEN e.used \ {c.t}
                                  ELSE IF c.at = "take" THEN e.used \cup {c.t} ELSE e.used)
          /\ Settled(e, c).func = (IF c.op = "request" THEN [e.func EXCEPT ![c.t] = c.fn]
                                  ELSE e.func)
      BY ONLY <2>4, <2>5, <3>1, SettledFields, Zenon
    <3>3. /\ Settled(e, c).stats = e.stats
          /\ Settled(e, c).run = (IF c.op = "request" THEN e.run \ {c.t}
                                 ELSE IF c.op = "start" THEN e.run \cup {c.t} ELSE e.run)
          /\ Settled(e, c).fresh = (IF c.op = "start" THEN e.fresh \cup {c.t} ELSE e.fresh)
      BY ONLY <2>4, <2>5, <3>1, SettledFields, Zenon
    <3> QED
      BY <3>2, <3>3
  <2>7. Settles(m, op, t, f, n)
    <3>1. CASE op = "request"
      BY <1>1, <2>2, <2>3, <2>6, <3>1 DEF Settles, Requested
    <3>2. CASE op = "start"
      <4>1. (m.run \ {t}) \cup {t} = m.run \cup {t}
        OBVIOUS
      <4> QED
        BY <1>1, <2>2, <2>3, <2>6, <3>2, <4>1 DEF Settles, Started
    <3>3. CASE op = "stop"
      BY <1>1, <2>2, <2>3, <2>6, <3>3 DEF Settles, Stopped
    <3>4. CASE op = "release"
      BY <1>1, <2>2, <2>3, <2>6, <3>4 DEF Settles, Released
    <3> QED
      BY <3>1, <3>2, <3>3, <3>4
  <2> QED
    BY <1>1, <2>2, <2>4, <2>6, <2>7
<1> QED
  BY <1>2, <1>3

\* The further steps of a call leave the settled state as it is.
LEMMA CallGoes ==
  ASSUME NEW m \in TimerState, NEW c, IsCall(c), c # NoCall, NEW n, NEW d,
         \/ c.at = "take" /\ n = Taken(m, c) /\ d = TakenCall(m, c)
         \/ c.at = "store" /\ n = Stored(m, c) /\ d = StoredCall(c)
         \/ c.at = "free" /\ n = Freed(m, c) /\ d = NoCall
  PROVE  /\ n \in TimerState /\ IsCall(d) /\ Settled(n, d) = Settled(m, c)
         /\ d # NoCall => d.op = c.op /\ d.t = c.t /\ d.fn = c.fn
<1>1. c.t \in Timer /\ c \in Calls /\ m.ctrl \in SUBSET Timer
  BY DEF IsCall, TimerState
<1>2. IsCall(NoCall)
  BY DEF IsCall, Calls, NoCall, Handle
<1>3. CASE c.at = "take" /\ n = Taken(m, c) /\ d = TakenCall(m, c)
  <2>1. n \in TimerState
    BY <1>1, <1>3 DEF Taken, TimerState
  <2>2. /\ d \in Calls /\ d.at = "store" /\ d.op = c.op /\ d.t = c.t /\ d.fn = c.fn
        /\ c.op = "request" /\ c.fn \in Func
    BY <1>1, <1>3 DEF TakenCall, Calls, IsCall, NoCall
  <2>3. IsCall(d)
    BY <1>1, <2>2 DEF IsCall
  <2>4. Settled(m, c) = Stored(n, d)
    BY <1>3 DEF Settled
  <2>5. Settled(n, d) = Stored(n, d)
    BY <2>2 DEF Settled
  <2> QED
    BY <2>1, <2>2, <2>3, <2>4, <2>5
<1>4. CASE c.at = "store" /\ n = Stored(m, c) /\ d = StoredCall(c)
  <2>1. n \in TimerState
    BY <1>4, StoredFields
  <2>2. CASE c.op # "release"
    <3>1. d = NoCall
      BY <1>4, <2>2 DEF StoredCall
    <3>2. Settled(m, c) = n
      BY <1>4, <2>2 DEF Settled
    <3>3. Settled(n, d) = n
      BY <3>1, SettledNone
    <3> QED
      BY <1>2, <2>1, <3>1, <3>2, <3>3
  <2>3. CASE c.op = "release"
    <3>1. d = [c EXCEPT !.at = "free"]
      BY <1>4, <2>3 DEF StoredCall
    <3>2. /\ d \in Calls /\ d.at = "free" /\ d.op = c.op /\ d.t = c.t /\ d.fn = c.fn
      BY <1>1, <3>1 DEF Calls
    <3>3. IsCall(d)
      BY <1>1, <2>3, <3>2 DEF IsCall
    <3>4. Settled(n, d) = Freed(n, d)
      BY <3>2 DEF Settled
    <3>5. Settled(m, c) = Freed(n, c)
      BY <1>4, <2>3 DEF Settled
    <3>6. Freed(n, d) = Freed(n, c)
      BY <3>2 DEF Freed
    <3> QED
      BY <2>1, <3>2, <3>3, <3>4, <3>5, <3>6
  <2> QED
    BY <2>2, <2>3
<1>5. CASE c.at = "free" /\ n = Freed(m, c) /\ d = NoCall
  <2>1. n \in TimerState
    BY <1>5 DEF Freed, TimerState
  <2>2. Settled(m, c) = n
    BY <1>5 DEF Settled
  <2>3. Settled(n, d) = n
    BY <1>5, SettledNone
  <2> QED
    BY <1>2, <1>5, <2>1, <2>2, <2>3
<1> QED
  BY <1>3, <1>4, <1>5

\* A start and a stop leave the owners alone.
LEMMA SettlesKeeps ==
  ASSUME NEW m \in TimerState, NEW op \in {"start", "stop"}, NEW t, NEW f,
         NEW n \in TimerState, Settles(m, op, t, f, n)
  PROVE  Keeps(m, n)
  BY DEF Settles, Started, Stopped, Keeps

\* What an interrupt in the midst of a call does to the settled state.
LEMMA SettledKeeps ==
  ASSUME NEW m \in TimerState, NEW n, Keeps(m, n), NEW c, IsCall(c)
  PROVE  Keeps(Settled(m, c), Settled(n, c))
<1>1. n \in TimerState /\ n.used = m.used /\ n.func = m.func
  BY DEF Keeps
<1>2. CASE c = NoCall
  BY <1>1, <1>2, SettledNone DEF Keeps
<1>3. CASE c # NoCall
  <2>1. /\ Settled(m, c).used = (IF c.op = "release" THEN m.used \ {c.t}
                                 ELSE IF c.at = "take" THEN m.used \cup {c.t} ELSE m.used)
        /\ Settled(m, c).func = (IF c.op = "request" THEN [m.func EXCEPT ![c.t] = c.fn]
                                 ELSE m.func)
    BY ONLY <1>3, SettledFields, m \in TimerState, IsCall(c), Zenon
  <2>2. /\ Settled(n, c) \in TimerState
        /\ Settled(n, c).used = (IF c.op = "release" THEN n.used \ {c.t}
                                 ELSE IF c.at = "take" THEN n.used \cup {c.t} ELSE n.used)
        /\ Settled(n, c).func = (IF c.op = "request" THEN [n.func EXCEPT ![c.t] = c.fn]
                                 ELSE n.func)
    BY ONLY <1>1, <1>3, SettledFields, IsCall(c), Zenon
  <2> QED
    BY <1>1, <2>1, <2>2 DEF Keeps
<1> QED
  BY <1>2, <1>3

LEMMA SettledExit ==
  ASSUME NEW m \in TimerState, NEW n \in TimerState, NEW u,
         n.used = m.used \ {u}, n.func = m.func,
         NEW c, IsCall(c), c.op = "request" => u # c.t
  PROVE  /\ Settled(n, c) \in TimerState
         /\ Settled(n, c).used = Settled(m, c).used \ {u}
         /\ Settled(n, c).func = Settled(m, c).func
<1>1. CASE c = NoCall
  BY <1>1, SettledNone
<1>2. CASE c # NoCall
  <2>1. /\ Settled(m, c).used = (IF c.op = "release" THEN m.used \ {c.t}
                                 ELSE IF c.at = "take" THEN m.used \cup {c.t} ELSE m.used)
        /\ Settled(m, c).func = (IF c.op = "request" THEN [m.func EXCEPT ![c.t] = c.fn]
                                 ELSE m.func)
    BY ONLY <1>2, SettledFields, m \in TimerState, IsCall(c), Zenon
  <2>2. /\ Settled(n, c) \in TimerState
        /\ Settled(n, c).used = (IF c.op = "release" THEN n.used \ {c.t}
                                 ELSE IF c.at = "take" THEN n.used \cup {c.t} ELSE n.used)
        /\ Settled(n, c).func = (IF c.op = "request" THEN [n.func EXCEPT ![c.t] = c.fn]
                                 ELSE n.func)
    BY ONLY <1>2, SettledFields, n \in TimerState, IsCall(c), Zenon
  <2>3. c.at = "take" => c.op = "request"
    BY <1>2 DEF IsCall
  <2> QED
    BY <2>1, <2>2, <2>3
<1> QED
  BY <1>1, <1>2

----------------------------------------------------------------------------
(* The invariant.  Types says that every part of the state is a record of  *)
(* its fields and that a call under way is one the main program makes      *)
(* there; Owners who holds which timer: the detection (u), the panel (l),  *)
(* and the main program at p, which keeps a handle (h) while it sets the   *)
(* detection up and takes it down and while it closes the panel.           *)
(*                                                                         *)
(* What the main program holds in between is the point: between the        *)
(* request and the store nobody else has its timer, and what it is about   *)
(* to release may have been released, and given out again, already, but    *)
(* only to the detection.                                                  *)
\* Places where the main program holds no handle of its own.
Plain == {"display", "power", "wait", "register", "enter", "enter_set",
          "enter_request", "leave", "leave_clock", "release", "clear_short",
          "clear_vbus", "charge", "detect", "battery", "poll", "standby",
          "asleep", "case8", "delay", "os", "exit", "close", "close_first",
          "uninstall", "done", ""}
\* Places where the handle it keeps is one of the detection's.
Handing == {"enter_start", "enter_connect", "leave_stop", "leave_release",
            "leave_store"}
\* Places where the panel's timer is released and its handle still there.
Clearing == {"wait_clear", "uninstall_clear"}
Place == Plain \cup Handing \cup Clearing \cup {"enter_store", "close_store"}

IsLcd(l) == /\ l = [hd |-> l.hd, cnt |-> l.cnt, fin |-> l.fin, done |-> l.done,
                    mixed |-> l.mixed]
            /\ l.hd \in Handle
IsUsb(u) == u \in [hd : Handle, working : BOOLEAN, conn : BOOLEAN, seen : BOOLEAN,
                   young : SUBSET Handle, limit : {"pc", "dc"}]
IsPmu(p) == p \in [working : BOOLEAN, nmi : {"off", "on", "left"},
                   latch : SUBSET Event]
IsPlug(p) == /\ p = [is |-> p.is, events |-> p.events, torn |-> p.torn,
                     raced |-> p.raced]
             /\ p.torn \in BOOLEAN /\ p.raced \in BOOLEAN
IsMain(n) == n \in [pc : Place, then : Plain, seen : SUBSET Flag, hd : Handle,
                    ret : Int, screen : BOOLEAN, panel : BOOLEAN, call : Calls]
Fits(n) ==
  /\ IsCall(n.call)
  /\ n.call # NoCall =>
       /\ n.pc \in CallAt(n.call.op) /\ n.call.t = n.hd
       /\ n.pc = "enter_store" => n.call.fn = UsbFn
       /\ n.pc = "close_store" => n.call.fn = CloseFn
Types ==
  /\ tm \in TimerState
  /\ IsLcd(lcd) /\ IsUsb(usb) /\ IsPmu(pmu) /\ IsPlug(plug)
  /\ IsMain(main) /\ Fits(main) /\ (main.pc \in Clearing => lcd.fin)
  /\ flags \subseteq Flag

Owners(u, l, p, h, m) ==
  /\ u # NoTimer => /\ m.func[u] = UsbFn
                    /\ p # "leave_store" => u \in m.used
  /\ l # NoTimer /\ p \notin Clearing =>
       l \in m.used /\ m.func[l] \in {OpenFn, CloseFn}
  /\ p = "enter_store" /\ h # NoTimer =>
       h \in m.used /\ m.func[h] = UsbFn /\ u # h
  /\ p = "close_store" /\ h # NoTimer =>
       h \in m.used /\ m.func[h] = CloseFn /\ l # h
  /\ p \in Handing /\ h # NoTimer => m.func[h] = UsbFn

Own == Owners(usb.hd, lcd.hd, main.pc, main.hd, ts)
IInv == Types /\ (~plug.raced => Own)

\* Steps of the timers that keep the owners, and steps of the main program
\* between places where it holds nothing.
LEMMA OwnersKept ==
  ASSUME NEW u, NEW l, NEW p, NEW h, NEW m, NEW n,
         Owners(u, l, p, h, m), Keeps(m, n)
  PROVE  Owners(u, l, p, h, n)
  BY DEF Owners, Keeps

LEMMA OwnersMoved ==
  ASSUME NEW u, NEW l, NEW p, NEW h, NEW m, NEW q \in Plain, NEW g,
         Owners(u, l, p, h, m), p # "leave_store", p \notin Clearing
  PROVE  Owners(u, l, q, g, m)
<1>1. q \notin Handing /\ q \notin {"enter_store", "close_store"}
  BY DEF Plain, Handing
<1> QED
  BY <1>1 DEF Owners

\* The detection's timer is released ...
LEMMA OwnersExit ==
  ASSUME NEW u \in Handle, NEW l \in Handle, NEW p, NEW h \in Handle,
         NEW m \in TimerState, NEW n,
         Owners(u, l, p, h, m), n.used = m.used \ {u}, n.func = m.func
  PROVE  Owners(NoTimer, l, p, h, n)
<1>1. u # NoTimer /\ l # NoTimer /\ p \notin Clearing => u # l
  BY FuncTypes DEF Owners
<1>2. p = "enter_store" /\ h # NoTimer => u # h
  BY DEF Owners
<1>3. p = "close_store" /\ h # NoTimer => u # h
  BY FuncTypes DEF Owners
<1>4. l # NoTimer /\ p \notin Clearing => l \in n.used /\ n.func[l] \in {OpenFn, CloseFn}
  BY <1>1 DEF Owners
<1>5. p = "enter_store" /\ h # NoTimer => h \in n.used /\ n.func[h] = UsbFn
  BY <1>2 DEF Owners
<1>6. p = "close_store" /\ h # NoTimer => h \in n.used /\ n.func[h] = CloseFn /\ l # h
  BY <1>3 DEF Owners
<1>7. p \in Handing /\ h # NoTimer => n.func[h] = UsbFn
  BY DEF Owners
<1> QED
  BY <1>4, <1>5, <1>6, <1>7 DEF Owners

\* ... or one is requested for it.
LEMMA OwnersEnter ==
  ASSUME NEW l \in Handle, NEW p, NEW h \in Handle, NEW m \in TimerState,
         NEW r, NEW n, Owners(NoTimer, l, p, h, m), Requested(m, UsbFn, r, n)
  PROVE  Owners(r, l, p, h, n)
<1>1. /\ r \in Handle /\ r \notin m.used
      /\ r # NoTimer => r \in n.used /\ n.func[r] = UsbFn
      /\ \A s \in Timer : s # r => n.func[s] = m.func[s]
      /\ \A s \in m.used : s \in n.used /\ n.func[s] = m.func[s]
  BY RequestedFunc, FuncTypes
<1>2. p \in Handing /\ h # NoTimer => n.func[h] = UsbFn
  BY <1>1 DEF Owners, Handle
<1> QED
  BY <1>1, <1>2 DEF Owners

\* The panel asks for a timer while the main program holds none.
LEMMA OwnersPanel ==
  ASSUME NEW u \in Handle, NEW l, NEW p \in Plain, NEW h, NEW m \in TimerState,
         NEW r, NEW n, NEW f \in {OpenFn, CloseFn},
         Owners(u, l, p, h, m), Requested(m, f, r, n)
  PROVE  Owners(u, r, p, h, n)
<1>1. /\ r # NoTimer => r \in n.used /\ n.func[r] = f
      /\ \A s \in m.used : s \in n.used /\ n.func[s] = m.func[s]
  BY RequestedFunc, FuncTypes
<1>2. p \notin Handing /\ p \notin {"enter_store", "close_store"}
  BY DEF Plain, Handing
<1>3. u # NoTimer => u \in m.used /\ m.func[u] = UsbFn
  BY <1>2 DEF Owners, Handing
<1> QED
  BY <1>1, <1>2, <1>3 DEF Owners

\* The panel moves on with its flow.
LEMMA FlowKeeps ==
  ASSUME NEW l, IsLcd(l), NEW m \in TimerState, NEW f
  PROVE  /\ IsLcd(FlowLcd(l, f)) /\ FlowLcd(l, f).hd = l.hd
         /\ l.fin => FlowLcd(l, f).fin
         /\ Keeps(m, FlowTm(l, f, m))
<1>1. IsLcd(FlowLcd(l, f)) /\ FlowLcd(l, f).hd = l.hd /\ (l.fin => FlowLcd(l, f).fin)
  <2>1. CASE l.cnt > Len(Flow(f))
    BY <2>1 DEF FlowLcd, IsLcd
  <2>2. CASE ~(l.cnt > Len(Flow(f)))
    <3> DEFINE j == StopsAt(f, l.cnt)
    <3>1. FlowLcd(l, f) = [l EXCEPT !.cnt = j + 1, !.fin = (l.fin \/ j = Len(Flow(f))),
                                    !.done = l.done \o Steps(f, l.cnt, j)]
      BY <2>2 DEF FlowLcd
    <3> HIDE DEF j
    <3> QED
      BY <3>1 DEF IsLcd
  <2> QED
    BY <2>1, <2>2
<1>2. Keeps(m, FlowTm(l, f, m))
  BY StartStopKeeps DEF FlowTm, Keeps, IsLcd
<1> QED
  BY <1>1, <1>2

\* The whole exit and the whole entry, with interrupts closed.
LEMMA ExitFields ==
  ASSUME NEW u, IsUsb(u), NEW m \in TimerState
  PROVE  /\ IsUsb(ExitUsb(u)) /\ ExitUsb(u).hd = NoTimer
         /\ ExitTm(u, m) \in TimerState
         /\ ExitTm(u, m).used = m.used \ {u.hd} /\ ExitTm(u, m).func = m.func
<1>1. IsUsb(ExitUsb(u)) /\ ExitUsb(u).hd = NoTimer
  <2>1. NoTimer \in Handle /\ {} \in SUBSET Handle
    BY DEF Handle
  <2> QED
    BY <2>1 DEF IsUsb, ExitUsb
<1> DEFINE a == DisableInt(m, "usb")
           b == Stop(a, u.hd)
<1>2. u.hd \in Handle /\ "usb" \in Irq
  BY DEF IsUsb, Irq
<1>3. Keeps(m, a)
  BY <1>2, IntKeeps
<1>4. Keeps(a, b)
  BY <1>2, <1>3, StartStopKeeps DEF Keeps
<1>5. b \in TimerState /\ b.used = m.used /\ b.func = m.func /\ ExitTm(u, m) = Release(b, u.hd)
  BY <1>3, <1>4 DEF Keeps, ExitTm
<1> HIDE DEF a, b
<1>6. /\ Release(b, u.hd) \in TimerState
      /\ Release(b, u.hd).used = b.used \ {u.hd} /\ Release(b, u.hd).func = b.func
  BY <1>2, <1>5, Releases
<1> QED
  BY <1>1, <1>5, <1>6

LEMMA ExitOwners ==
  ASSUME NEW u, IsUsb(u), NEW l \in Handle, NEW p, NEW h \in Handle,
         NEW m \in TimerState, Owners(u.hd, l, p, h, m)
  PROVE  Owners(ExitUsb(u).hd, l, p, h, ExitTm(u, m))
<1>1. u.hd \in Handle
  BY DEF IsUsb
<1> QED
  BY <1>1, ExitFields, OwnersExit

LEMMA EnterFields ==
  ASSUME NEW u, IsUsb(u), NEW m \in TimerState,
         NEW r, r = (IF u.hd = NoTimer THEN RequestHandle(m) ELSE u.hd),
         NEW a, a = (IF u.hd = NoTimer THEN Request(m, UsbFn) ELSE m)
  PROVE  /\ r \in Handle /\ a \in TimerState
         /\ IsUsb(EnterUsb(u, m)) /\ EnterUsb(u, m).hd = r
         /\ Keeps(a, EnterTm(u, m))
<1>1. r \in Handle /\ a \in TimerState
  BY Requests, FuncTypes DEF IsUsb
<1>2. EnterUsb(u, m) = [u EXCEPT !.working = TRUE, !.conn = TRUE, !.seen = FALSE,
                                 !.hd = r, !.young = u.young \cup {r}]
      /\ EnterTm(u, m) = EnableInt(Start(a, EnterUsb(u, m).hd), "usb")
  BY DEF EnterUsb, EnterTm
<1>3. IsUsb(EnterUsb(u, m)) /\ EnterUsb(u, m).hd = r
  <2>1. u.young \cup {r} \in SUBSET Handle
    BY <1>1 DEF IsUsb
  <2> QED
    BY <1>1, <1>2, <2>1 DEF IsUsb
<1>4. Keeps(a, Start(a, r)) /\ "usb" \in Irq
  BY <1>1, StartStopKeeps DEF Irq
<1>5. Keeps(Start(a, r), EnterTm(u, m))
  BY <1>2, <1>3, <1>4, IntKeeps DEF Keeps
<1> QED
  BY <1>1, <1>3, <1>4, <1>5 DEF Keeps

LEMMA EnterOwners ==
  ASSUME NEW u, IsUsb(u), NEW l \in Handle, NEW p, NEW h \in Handle,
         NEW m \in TimerState
  PROVE  /\ IsUsb(EnterUsb(u, m)) /\ EnterTm(u, m) \in TimerState
         /\ Owners(u.hd, l, p, h, m)
              => Owners(EnterUsb(u, m).hd, l, p, h, EnterTm(u, m))
<1> DEFINE r == IF u.hd = NoTimer THEN RequestHandle(m) ELSE u.hd
           a == IF u.hd = NoTimer THEN Request(m, UsbFn) ELSE m
<1>1. /\ r \in Handle /\ a \in TimerState
      /\ IsUsb(EnterUsb(u, m)) /\ EnterUsb(u, m).hd = r /\ Keeps(a, EnterTm(u, m))
  BY EnterFields
<1>2. ASSUME Owners(u.hd, l, p, h, m) PROVE Owners(r, l, p, h, a)
  <2>1. CASE u.hd = NoTimer
    <3>1. Requested(m, UsbFn, RequestHandle(m), Request(m, UsbFn))
      BY FuncTypes, RequestEffect
    <3> QED
      BY <1>2, <2>1, <3>1, OwnersEnter
  <2>2. CASE u.hd # NoTimer
    BY <1>2, <2>2
  <2> QED
    BY <2>1, <2>2
<1> HIDE DEF r, a
<1> QED
  BY <1>1, <1>2, OwnersKept DEF Keeps

----------------------------------------------------------------------------
(* Steps of the main program outside its calls for a timer.                *)
Free(n) == IsMain(n) /\ n.call = NoCall
LEMMA FreeFits ==
  /\ IsCall(NoCall)
  /\ \A n : n.call = NoCall => Fits(n)
  /\ main.call = NoCall => ts = tm
  /\ main'.call = NoCall => ts' = tm'
<1>1. IsCall(NoCall)
  BY DEF IsCall, Calls, NoCall, Handle
<1> QED
  BY <1>1, SettledNone DEF Fits, ts

LEMMA Places ==
  /\ Plain \subseteq Place /\ Handing \subseteq Place /\ Clearing \subseteq Place
  /\ {"enter_store", "close_store"} \subseteq Place
  /\ \A p \in Plain : /\ p \notin Handing /\ p \notin Clearing
                      /\ p \notin {"enter_store", "close_store", "leave_store"}
  BY DEF Plain, Handing, Clearing, Place

LEMMA Going ==
  ASSUME Free(main)
  PROVE  /\ \A q \in Place :
              Goto(q) => Free(main') /\ main'.pc = q /\ main'.hd = main.hd
         /\ \A q \in Place, r \in Plain :
              Call(q, r) => Free(main') /\ main'.pc = q /\ main'.hd = main.hd
         /\ Back => Free(main') /\ main'.pc \in Plain
         /\ \A q \in Place, x \in Int :
              Return(x, q) => Free(main') /\ main'.pc = q /\ main'.hd = main.hd
         /\ \A q \in Plain : LoadFlags(q) /\ flags \subseteq Flag
                               => Free(main') /\ main'.pc = q
<1>1. NoTimer \in Handle /\ Plain \subseteq Place /\ "" \in Plain
  BY DEF Handle, Plain, Place
<1>2. ASSUME NEW q \in Place
      PROVE  Goto(q) => Free(main') /\ main'.pc = q /\ main'.hd = main.hd
  BY DEF Free, IsMain, Goto
<1>3. ASSUME NEW q \in Place, NEW r \in Plain
      PROVE  Call(q, r) => Free(main') /\ main'.pc = q /\ main'.hd = main.hd
  BY DEF Free, IsMain, Call
<1>4. Back => Free(main') /\ main'.pc \in Plain
  BY <1>1 DEF Free, IsMain, Back
<1>5. ASSUME NEW q \in Place, NEW x \in Int
      PROVE  Return(x, q) => Free(main') /\ main'.pc = q /\ main'.hd = main.hd
  BY DEF Free, IsMain, Return
<1>6. ASSUME NEW q \in Plain, LoadFlags(q), flags \subseteq Flag
      PROVE  Free(main') /\ main'.pc = q
  BY <1>1, <1>6 DEF Free, IsMain, LoadFlags
<1> QED
  BY <1>2, <1>3, <1>4, <1>5, <1>6

\* A step between two places outside the calls ...
LEMMA Ends ==
  ASSUME IInv, Free(main), Free(main'), main'.pc \notin Clearing,
         tm' \in TimerState, IsUsb(usb'), IsLcd(lcd'), IsPmu(pmu'), IsPlug(plug'),
         plug'.raced = plug.raced, flags' \subseteq Flag,
         Owners(usb.hd, lcd.hd, main.pc, main.hd, tm)
           => Owners(usb'.hd, lcd'.hd, main'.pc, main'.hd, tm')
  PROVE  IInv'
<1>1. ts = tm /\ ts' = tm' /\ Fits(main')
  BY FreeFits DEF Free
<1>2. Types'
  BY <1>1 DEF Types, Free
<1>3. ~plug'.raced => Own'
  BY <1>1 DEF IInv, Own
<1> QED
  BY <1>2, <1>3 DEF IInv

\* ... one that gives nothing away and takes nothing ...
LEMMA Calm ==
  ASSUME IInv, Free(main), main.pc # "leave_store", main.pc \notin Clearing,
         Free(main'), main'.pc \in Plain,
         Keeps(tm, tm'), IsUsb(usb'), usb'.hd = usb.hd, IsLcd(lcd'), lcd'.hd = lcd.hd,
         IsPmu(pmu'), IsPlug(plug'), plug'.raced = plug.raced, flags' \subseteq Flag
  PROVE  IInv'
<1>1. ASSUME Owners(usb.hd, lcd.hd, main.pc, main.hd, tm)
      PROVE  Owners(usb'.hd, lcd'.hd, main'.pc, main'.hd, tm')
  <2>1. Owners(usb.hd, lcd.hd, main'.pc, main'.hd, tm)
    BY <1>1, OwnersMoved
  <2> QED
    BY <2>1, OwnersKept
<1> QED
  BY <1>1, Ends, Places DEF Keeps

\* ... and one into a call.
LEMMA Begun ==
  ASSUME Types, Free(main), NEW op \in {"request", "start", "stop", "release"},
         NEW h \in Handle, NEW f \in Func \cup {NoFunc}, NEW p \in Place,
         CallTimer(op, h, f, p), op = "request" => h = RequestHandle(tm) /\ f \in Func,
         p \in CallAt(op), p = "enter_store" => f = UsbFn, p = "close_store" => f = CloseFn
  PROVE  /\ tm' \in TimerState /\ ts' \in TimerState /\ Settles(tm, op, h, f, ts')
         /\ IsMain(main') /\ Fits(main') /\ main'.pc = p /\ main'.hd = h
         /\ main'.call # NoCall => main'.call.op = op /\ main'.call.t = h
         /\ UNCHANGED <<main.then, main.ret, main.seen, main.screen, main.panel>>
<1> DEFINE c == CallOf(tm, op, h, f)
<1>1. /\ tm' = Entered(tm, op, h) /\ main' = [main EXCEPT !.pc = p, !.hd = h, !.call = c]
  BY DEF CallTimer
<1>2. /\ tm' \in TimerState /\ Settled(tm', c) \in TimerState /\ IsCall(c)
      /\ c # NoCall => c.op = op /\ c.t = h /\ c.fn = f
      /\ Settles(tm, op, h, f, Settled(tm', c))
  BY <1>1, CallBegins DEF Types
<1> HIDE DEF c
<1>3. /\ IsMain(main') /\ main'.pc = p /\ main'.hd = h /\ main'.call = c
      /\ UNCHANGED <<main.then, main.ret, main.seen, main.screen, main.panel>>
  BY <1>1, <1>2 DEF Free, IsMain, IsCall
<1>4. Fits(main')
  BY <1>2, <1>3 DEF Fits
<1> QED
  BY <1>2, <1>3, <1>4 DEF ts

LEMMA CallMade ==
  ASSUME IInv, Free(main), NEW op \in {"request", "start", "stop", "release"},
         NEW h \in Handle, NEW f \in Func \cup {NoFunc}, NEW p \in Place,
         CallTimer(op, h, f, p), op = "request" => h = RequestHandle(tm) /\ f \in Func,
         p \in CallAt(op), p = "enter_store" => f = UsbFn, p = "close_store" => f = CloseFn,
         p \in Clearing => lcd'.fin,
         UNCHANGED <<flags, pmu, plug>>, IsUsb(usb'), IsLcd(lcd'),
         \A n \in TimerState :
           Owners(usb.hd, lcd.hd, main.pc, main.hd, tm) /\ Settles(tm, op, h, f, n)
             => Owners(usb'.hd, lcd'.hd, p, h, n)
  PROVE  IInv'
<1>1. /\ tm' \in TimerState /\ ts' \in TimerState /\ Settles(tm, op, h, f, ts')
      /\ IsMain(main') /\ Fits(main') /\ main'.pc = p /\ main'.hd = h
  BY Begun DEF IInv
<1>2. Types'
  BY <1>1 DEF IInv, Types
<1>3. ASSUME ~plug.raced PROVE Own'
  <2>1. Owners(usb.hd, lcd.hd, main.pc, main.hd, tm)
    BY <1>3, FreeFits DEF IInv, Own, Free
  <2> QED
    BY <1>1, <2>1 DEF Own
<1> QED
  BY <1>2, <1>3 DEF IInv

\* What the lemmas on steps need of the state.
LEMMA Known ==
  ASSUME IInv, main.call = NoCall
  PROVE  /\ Free(main) /\ IsUsb(usb) /\ IsLcd(lcd) /\ tm \in TimerState
         /\ IsPmu(pmu) /\ IsPlug(plug) /\ flags \subseteq Flag /\ Keeps(tm, tm)
         /\ usb.hd \in Handle /\ lcd.hd \in Handle /\ main.hd \in Handle
         /\ (main.pc \in Clearing => lcd.fin)
  BY DEF IInv, Types, Free, IsMain, IsUsb, IsLcd, Keeps

\* Steps that touch neither timers nor handles.
Quiet ==
  \/ CheckPower \/ WaitGivesUp \/ EnterTest \/ StartCharge \/ FirstDetect \/ Battery
  \/ PollShort \/ PollEnds \/ StandbyVbus \/ Case8 \/ Delay8
  \/ StoreFlags("short", "clear_short", "poll")
  \/ StoreFlags("vbus", "clear_vbus", "case8")
  \/ DetectOs \/ PanelOff

LEMMA QuietStep ==
  ASSUME IInv, main.call = NoCall, Quiet
  PROVE  IInv'
<1>1. /\ Free(main) /\ IsUsb(usb) /\ IsLcd(lcd) /\ IsPmu(pmu) /\ IsPlug(plug)
      /\ flags \subseteq Flag /\ Keeps(tm, tm)
  BY Known
<1>2. /\ \A q \in Plain :
           /\ Goto(q) => Free(main') /\ main'.pc \in Plain
           /\ LoadFlags(q) => Free(main') /\ main'.pc \in Plain
           /\ \A r \in Plain : Call(q, r) => Free(main') /\ main'.pc \in Plain
           /\ \A x \in Int : Return(x, q) => Free(main') /\ main'.pc \in Plain
      /\ Back => Free(main') /\ main'.pc \in Plain
  BY <1>1, Going, Places
<1>3. /\ UNCHANGED <<tm, lcd, usb, pmu, plug>>
      /\ main.pc # "leave_store" /\ main.pc \notin Clearing
      /\ Free(main') /\ main'.pc \in Plain /\ flags' \subseteq Flag
  <2>1. CASE CheckPower
    <3>1. {"exit", "os", "wait", "charge"} \subseteq Plain /\ -1 \in Int /\ 0 \in Int
      BY DEF Plain
    <3> QED
      BY <1>1, <1>2, <2>1, <3>1 DEF CheckPower, Clearing
  <2>2. CASE WaitGivesUp \/ EnterTest \/ StartCharge \/ FirstDetect
    BY <1>1, <1>2, <2>2 DEF WaitGivesUp, EnterTest, StartCharge, FirstDetect, Plain, Clearing
  <2>3. CASE Battery \/ PollEnds \/ Case8 \/ Delay8
    BY <1>1, <1>2, <2>3 DEF Battery, PollEnds, Case8, Delay8, Plain, Clearing
  <2>4. CASE PollShort \/ StandbyVbus
    BY <1>1, <1>2, <2>4 DEF PollShort, StandbyVbus, Plain, Clearing
  <2>5. ASSUME NEW b, NEW q \in {"clear_short", "clear_vbus"}, NEW p \in {"poll", "case8"},
               StoreFlags(b, q, p)
        PROVE  /\ UNCHANGED <<tm, lcd, usb, pmu, plug>>
               /\ main.pc # "leave_store" /\ main.pc \notin Clearing
               /\ Free(main') /\ main'.pc \in Plain /\ flags' \subseteq Flag
    <3>1. main' = [main EXCEPT !.pc = p, !.seen = {}] /\ flags' = main.seen \ {b}
          /\ main.pc = q /\ UNCHANGED <<tm, lcd, usb, pmu, plug>>
      BY <2>5 DEF StoreFlags
    <3>2. p \in Plain /\ p \in Place /\ {} \in SUBSET Flag
      BY Places DEF Plain
    <3>3. Free(main') /\ main'.pc = p /\ flags' \subseteq Flag
      BY <1>1, <3>1, <3>2 DEF Free, IsMain
    <3> QED
      BY <3>1, <3>2, <3>3 DEF Clearing
  <2>6. CASE DetectOs
    <3>1. ASSUME main' = [main EXCEPT !.pc = "wait", !.then = "exit", !.ret = 0]
          PROVE  Free(main') /\ main'.pc \in Plain
      <4>1. "wait" \in Place /\ "wait" \in Plain /\ "exit" \in Plain /\ 0 \in Int
        BY DEF Place, Plain
      <4> QED
        BY <1>1, <3>1, <4>1 DEF Free, IsMain
    <3>2. "exit" \in Plain /\ -2 \in Int
      BY DEF Plain
    <3> QED
      BY <1>1, <1>2, <2>6, <3>1, <3>2 DEF DetectOs, Clearing
  <2>7. CASE PanelOff
    <3>1. ASSUME NEW q \in {"uninstall", "close"}, Exit(q)
          PROVE  Free(main') /\ main'.pc \in Plain
      <4>1. {"uninstall", "close"} \subseteq Plain /\ 0 \in Int
        BY DEF Plain
      <4>2. q \in Place /\ q \in Plain
        BY <3>1, <4>1, Places
      <4> QED
        BY <1>1, <3>1, <4>1, <4>2 DEF Free, IsMain, Exit
    <3> QED
      BY <1>1, <2>7, <3>1 DEF PanelOff, Clearing
  <2> QED
    BY <2>1, <2>2, <2>3, <2>4, <2>5, <2>6, <2>7 DEF Quiet
<1> QED
  BY <1>1, <1>3, Calm DEF Keeps

\* The detection is set up: between the request and the store the timer is
\* the main program's alone.
LEMMA EnterStep ==
  ASSUME IInv, main.call = NoCall,
         EnterSet \/ EnterRequest \/ EnterStore \/ EnterStart \/ EnterConnect
  PROVE  IInv'
<1>1. /\ Free(main) /\ IsUsb(usb) /\ IsLcd(lcd) /\ tm \in TimerState
      /\ IsPmu(pmu) /\ IsPlug(plug) /\ flags \subseteq Flag /\ Keeps(tm, tm)
      /\ usb.hd \in Handle /\ lcd.hd \in Handle /\ main.hd \in Handle
  BY Known
<1>2. NoFunc \in Func \cup {NoFunc} /\ UsbFn \in Func
  BY FuncTypes
<1>3. CASE EnterSet
  <2>1. IsUsb(usb') /\ usb'.hd = usb.hd
        /\ UNCHANGED <<tm, lcd, flags, pmu, plug>> /\ main.pc = "enter_set"
    BY <1>1, <1>3 DEF IsUsb, EnterSet
  <2>2. CASE usb.hd = NoTimer
    <3>1. Free(main') /\ main'.pc \in Plain
      BY <1>1, <1>3, <2>2, Going DEF EnterSet, Plain, Place
    <3> QED
      BY <1>1, <2>1, <3>1, Calm DEF Clearing
  <2>3. CASE usb.hd # NoTimer
    <3>1. main' = [main EXCEPT !.pc = "enter_start", !.hd = usb.hd]
      BY <1>3, <2>3 DEF EnterSet
    <3>2. Free(main') /\ main'.pc = "enter_start" /\ main'.hd = usb.hd
      BY <1>1, <3>1 DEF Free, IsMain, Place, Handing
    <3>3. Owners(usb.hd, lcd.hd, main.pc, main.hd, tm)
            => Owners(usb.hd, lcd.hd, "enter_start", usb.hd, tm)
      BY <2>1, <2>3 DEF Owners, Handing, Clearing
    <3> QED
      BY <1>1, <2>1, <3>2, <3>3, Ends DEF Clearing
  <2> QED
    BY <2>2, <2>3
<1>4. CASE EnterRequest
  <2>1. /\ CallTimer("request", RequestHandle(tm), UsbFn, "enter_store")
        /\ UNCHANGED <<lcd, usb, flags, pmu, plug>> /\ main.pc = "enter_request"
    BY <1>4 DEF EnterRequest
  <2>2. RequestHandle(tm) \in Handle
    BY <1>1, <1>2, Requests
  <2>3. ASSUME NEW n \in TimerState, Owners(usb.hd, lcd.hd, main.pc, main.hd, tm),
               Settles(tm, "request", RequestHandle(tm), UsbFn, n)
        PROVE  Owners(usb.hd, lcd.hd, "enter_store", RequestHandle(tm), n)
    <3> DEFINE r == RequestHandle(tm)
    <3>1. /\ r \notin tm.used
          /\ r # NoTimer => r \in n.used /\ n.func[r] = UsbFn
          /\ \A s \in tm.used : s \in n.used /\ n.func[s] = tm.func[s]
      BY <1>1, <1>2, <2>3, RequestedFunc DEF Settles
    <3> HIDE DEF r
    <3>2. Owners(usb.hd, lcd.hd, "enter_request", main.hd, tm)
      BY <2>1, <2>3
    <3> QED
      BY <3>1, <3>2 DEF Owners, Handing, Clearing, r
  <2>4. "enter_store" \in Place /\ "enter_store" \in CallAt("request")
        /\ "enter_store" \notin Clearing
    BY DEF Place, CallAt, Clearing
  <2> QED
    BY <1>1, <1>2, <2>1, <2>2, <2>3, <2>4, CallMade
<1>5. CASE EnterStore
  <2>1. usb' = [usb EXCEPT !.hd = main.hd] /\ Goto("enter_start")
        /\ UNCHANGED <<tm, lcd, flags, pmu, plug>> /\ main.pc = "enter_store"
    BY <1>5 DEF EnterStore
  <2>2. IsUsb(usb') /\ usb'.hd = main.hd
    BY <1>1, <2>1 DEF IsUsb
  <2>3. Free(main') /\ main'.pc = "enter_start" /\ main'.hd = main.hd
    BY <1>1, <2>1, Going DEF Place, Handing
  <2>4. Owners(usb.hd, lcd.hd, "enter_store", main.hd, tm)
          => Owners(main.hd, lcd.hd, "enter_start", main.hd, tm)
    BY DEF Owners, Handing, Clearing
  <2> QED
    BY <1>1, <2>1, <2>2, <2>3, <2>4, Ends DEF Clearing
<1>6. CASE EnterStart
  <2>1. /\ CallTimer("start", main.hd, NoFunc, "enter_connect")
        /\ usb' = [usb EXCEPT !.young = usb.young \cup {main.hd}]
        /\ UNCHANGED <<lcd, flags, pmu, plug>> /\ main.pc = "enter_start"
    BY <1>6 DEF EnterStart
  <2>2. IsUsb(usb') /\ usb'.hd = usb.hd
    <3>1. usb.young \cup {main.hd} \in SUBSET Handle
      BY <1>1 DEF IsUsb
    <3> QED
      BY <1>1, <2>1, <3>1 DEF IsUsb
  <2>3. ASSUME NEW n \in TimerState, Owners(usb.hd, lcd.hd, main.pc, main.hd, tm),
               Settles(tm, "start", main.hd, NoFunc, n)
        PROVE  Owners(usb.hd, lcd.hd, "enter_connect", main.hd, n)
    <3>1. Owners(usb.hd, lcd.hd, "enter_connect", main.hd, tm)
      BY <2>1, <2>3 DEF Owners, Handing, Clearing
    <3> QED
      BY <1>1, <2>3, <3>1, SettlesKeeps, OwnersKept
  <2>4. "enter_connect" \in Place /\ "enter_connect" \in CallAt("start")
        /\ "enter_connect" \notin Clearing
    BY DEF Place, Handing, CallAt, Clearing
  <2> QED
    BY <1>1, <1>2, <2>1, <2>2, <2>3, <2>4, CallMade
<1>7. CASE EnterConnect
  <2>1. usb' = [usb EXCEPT !.conn = TRUE] /\ Back /\ tm' = EnableInt(tm, "usb")
        /\ UNCHANGED <<lcd, flags, pmu, plug>> /\ main.pc = "enter_connect"
    BY <1>7 DEF EnterConnect
  <2>2. IsUsb(usb') /\ usb'.hd = usb.hd
    BY <1>1, <2>1 DEF IsUsb
  <2>3. Keeps(tm, tm')
    BY <1>1, <2>1, IntKeeps DEF Irq
  <2>4. Free(main') /\ main'.pc \in Plain
    BY <1>1, <2>1, Going
  <2> QED
    BY <1>1, <2>1, <2>2, <2>3, <2>4, Calm DEF Clearing
<1> QED
  BY <1>3, <1>4, <1>5, <1>6, <1>7

\* The detection is taken down, around interrupts that may do the same.
LEMMA LeaveStep ==
  ASSUME IInv, main.call = NoCall,
         ExitClear \/ ExitClock \/ ExitStop \/ ExitRelease \/ ExitStore
  PROVE  IInv'
<1>1. /\ Free(main) /\ IsUsb(usb) /\ IsLcd(lcd) /\ tm \in TimerState
      /\ IsPmu(pmu) /\ IsPlug(plug) /\ flags \subseteq Flag /\ Keeps(tm, tm)
      /\ usb.hd \in Handle /\ lcd.hd \in Handle /\ main.hd \in Handle
  BY Known
<1>2. NoFunc \in Func \cup {NoFunc}
  OBVIOUS
<1>3. CASE ExitClear
  <2>1. usb' = [usb EXCEPT !.working = FALSE] /\ Goto("leave_clock")
        /\ UNCHANGED <<tm, lcd, flags, pmu, plug>> /\ main.pc = "leave"
    BY <1>3 DEF ExitClear
  <2>2. IsUsb(usb') /\ usb'.hd = usb.hd
    BY <1>1, <2>1 DEF IsUsb
  <2>3. Free(main') /\ main'.pc \in Plain
    BY <1>1, <2>1, Going DEF Plain, Place
  <2> QED
    BY <1>1, <2>1, <2>2, <2>3, Calm DEF Clearing
<1>4. CASE ExitClock
  <2>1. usb' = [usb EXCEPT !.conn = FALSE] /\ tm' = DisableInt(tm, "usb")
        /\ UNCHANGED <<lcd, flags, pmu, plug>> /\ main.pc = "leave_clock"
    BY <1>4 DEF ExitClock
  <2>2. IsUsb(usb') /\ usb'.hd = usb.hd
    BY <1>1, <2>1 DEF IsUsb
  <2>3. Keeps(tm, tm')
    BY <1>1, <2>1, IntKeeps DEF Irq
  <2>4. CASE usb.hd = NoTimer
    <3>1. Free(main') /\ main'.pc \in Plain
      BY <1>1, <1>4, <2>4, Going DEF ExitClock
    <3> QED
      BY <1>1, <2>1, <2>2, <2>3, <3>1, Calm DEF Clearing
  <2>5. CASE usb.hd # NoTimer
    <3>1. main' = [main EXCEPT !.pc = "leave_stop", !.hd = usb.hd]
      BY <1>4, <2>5 DEF ExitClock
    <3>2. Free(main') /\ main'.pc = "leave_stop" /\ main'.hd = usb.hd
      BY <1>1, <3>1 DEF Free, IsMain, Place, Handing
    <3>3. ASSUME Owners(usb.hd, lcd.hd, main.pc, main.hd, tm)
          PROVE  Owners(usb.hd, lcd.hd, "leave_stop", usb.hd, tm')
      <4>1. Owners(usb.hd, lcd.hd, "leave_stop", usb.hd, tm)
        BY <2>1, <3>3 DEF Owners, Handing, Clearing
      <4> QED
        BY <2>3, <4>1, OwnersKept
    <3> QED
      BY <1>1, <2>1, <2>2, <2>3, <3>2, <3>3, Ends DEF Clearing, Keeps
  <2> QED
    BY <2>4, <2>5
<1>5. CASE ExitStop
  <2>1. /\ CallTimer("stop", main.hd, NoFunc, "leave_release")
        /\ UNCHANGED <<lcd, usb, flags, pmu, plug>> /\ main.pc = "leave_stop"
    BY <1>5 DEF ExitStop
  <2>2. ASSUME NEW n \in TimerState, Owners(usb.hd, lcd.hd, main.pc, main.hd, tm),
               Settles(tm, "stop", main.hd, NoFunc, n)
        PROVE  Owners(usb.hd, lcd.hd, "leave_release", main.hd, n)
    <3>1. Owners(usb.hd, lcd.hd, "leave_release", main.hd, tm)
      BY <2>1, <2>2 DEF Owners, Handing, Clearing
    <3> QED
      BY <1>1, <2>2, <3>1, SettlesKeeps, OwnersKept
  <2>3. "leave_release" \in Place /\ "leave_release" \in CallAt("stop")
        /\ "leave_release" \notin Clearing
    BY DEF Place, Handing, CallAt, Clearing
  <2> QED
    BY <1>1, <1>2, <2>1, <2>2, <2>3, CallMade
<1>6. CASE ExitRelease
  <2>1. /\ CallTimer("release", main.hd, NoFunc, "leave_store")
        /\ UNCHANGED <<lcd, usb, flags, pmu, plug>> /\ main.pc = "leave_release"
    BY <1>6 DEF ExitRelease
  <2>2. ASSUME NEW n \in TimerState, Owners(usb.hd, lcd.hd, main.pc, main.hd, tm),
               Settles(tm, "release", main.hd, NoFunc, n)
        PROVE  Owners(usb.hd, lcd.hd, "leave_store", main.hd, n)
    <3>1. Owners(usb.hd, lcd.hd, "leave_release", main.hd, tm)
      BY <2>1, <2>2
    <3>2. n.used = tm.used \ {main.hd} /\ n.func = tm.func
      BY <2>2 DEF Settles, Released
    <3>3. lcd.hd # NoTimer => lcd.hd # main.hd
      BY <3>1, FuncTypes DEF Owners, Handing, Clearing
    <3> QED
      BY <3>1, <3>2, <3>3 DEF Owners, Handing, Clearing
  <2>3. "leave_store" \in Place /\ "leave_store" \in CallAt("release")
        /\ "leave_store" \notin Clearing
    BY DEF Place, Handing, CallAt, Clearing
  <2> QED
    BY <1>1, <1>2, <2>1, <2>2, <2>3, CallMade
<1>7. CASE ExitStore
  <2>1. usb' = [usb EXCEPT !.hd = NoTimer] /\ Back
        /\ UNCHANGED <<tm, lcd, flags, pmu, plug>> /\ main.pc = "leave_store"
    BY <1>7 DEF ExitStore
  <2>2. IsUsb(usb') /\ usb'.hd = NoTimer
    BY <1>1, <2>1 DEF IsUsb, Handle
  <2>3. Free(main') /\ main'.pc \in Plain
    BY <1>1, <2>1, Going
  <2>4. Owners(usb.hd, lcd.hd, "leave_store", main.hd, tm)
          => Owners(NoTimer, lcd.hd, main'.pc, main'.hd, tm)
    BY <2>3, Places DEF Owners, Clearing
  <2> QED
    BY <1>1, <2>1, <2>2, <2>3, <2>4, Places, Ends
<1> QED
  BY <1>3, <1>4, <1>5, <1>6, <1>7

\* The power interrupt is set up and given back, and both with the detection
\* where the main program closes the interrupts.
LEMMA Switched ==
  ASSUME IsPmu(pmu), IsPlug(plug), NEW w \in BOOLEAN, NEW k \in {"on", "off"},
         SwitchPower(w, k)
  PROVE  IsPmu(pmu') /\ IsPlug(plug') /\ plug'.raced = plug.raced
         /\ plug'.torn = plug.torn
<1>1. IsPmu(pmu')
  BY DEF SwitchPower, IsPmu
<1>2. IsPlug(plug') /\ plug'.raced = plug.raced /\ plug'.torn = plug.torn
  BY DEF SwitchPower, IsPlug
<1> QED
  BY <1>1, <1>2

LEMMA BothReleased ==
  ASSUME IInv, main.call = NoCall, ReleaseBoth
  PROVE  /\ IsUsb(usb') /\ tm' \in TimerState /\ flags' \subseteq Flag
         /\ IsPmu(pmu') /\ IsPlug(plug') /\ plug'.raced = plug.raced
         /\ Owners(usb.hd, lcd.hd, main.pc, main.hd, tm)
              => Owners(usb'.hd, lcd.hd, main.pc, main.hd, tm')
<1>1. /\ Free(main) /\ IsUsb(usb) /\ tm \in TimerState /\ IsPmu(pmu) /\ IsPlug(plug)
      /\ lcd.hd \in Handle /\ main.hd \in Handle
  BY Known
<1> DEFINE n == DisableInt(tm, "nmi")
<1>2. Keeps(tm, n)
  BY <1>1, IntKeeps DEF Irq
<1>3. tm' = ExitTm(usb, n) /\ usb' = ExitUsb(usb) /\ SwitchPower(FALSE, "off") /\ flags' = {}
  BY DEF ReleaseBoth
<1> HIDE DEF n
<1>4. n \in TimerState
  BY <1>2 DEF Keeps
<1>5. IsUsb(usb') /\ tm' \in TimerState
  BY <1>1, <1>3, <1>4, ExitFields
<1>6. ASSUME Owners(usb.hd, lcd.hd, main.pc, main.hd, tm)
      PROVE  Owners(usb'.hd, lcd.hd, main.pc, main.hd, tm')
  <2>1. Owners(usb.hd, lcd.hd, main.pc, main.hd, n)
    BY <1>2, <1>6, OwnersKept
  <2> QED
    BY <1>1, <1>3, <1>4, <2>1, ExitOwners
<1>7. IsPmu(pmu') /\ IsPlug(plug') /\ plug'.raced = plug.raced
  BY <1>1, <1>3, Switched
<1> QED
  BY <1>3, <1>5, <1>6, <1>7

LEMMA PowerStep ==
  ASSUME IInv, main.call = NoCall,
         RegisterPower \/ ReleasePower \/ PollLong \/ StandbyEnter \/ Wake
  PROVE  IInv'
<1>1. /\ Free(main) /\ IsUsb(usb) /\ IsLcd(lcd) /\ tm \in TimerState
      /\ IsPmu(pmu) /\ IsPlug(plug) /\ flags \subseteq Flag /\ Keeps(tm, tm)
      /\ usb.hd \in Handle /\ lcd.hd \in Handle /\ main.hd \in Handle
  BY Known
<1>2. \A irq \in Irq : Keeps(tm, EnableInt(tm, irq)) /\ Keeps(tm, DisableInt(tm, irq))
  BY <1>1, IntKeeps
<1>3. "nmi" \in Irq
  BY DEF Irq
<1>4. {"register", "enter", "os", "exit", "poll", "delay", "standby", "asleep", "leave"}
        \subseteq Plain /\ Plain \subseteq Place
  BY DEF Plain, Place
<1>5. /\ \A q \in Plain : Goto(q) => Free(main') /\ main'.pc \in Plain
      /\ \A q, r \in Plain : Call(q, r) => Free(main') /\ main'.pc \in Plain
      /\ Back => Free(main') /\ main'.pc \in Plain
  BY <1>1, <1>4, Going
<1>6. CASE RegisterPower
  <2>1. /\ Free(main') /\ main'.pc \in Plain /\ main.pc = "register"
        /\ UNCHANGED <<lcd, usb>>
    BY <1>5, <1>6 DEF RegisterPower
  <2>2. Keeps(tm, tm') /\ flags' \subseteq Flag
    BY <1>1, <1>2, <1>3, <1>6 DEF RegisterPower
  <2>3. IsPmu(pmu') /\ IsPlug(plug') /\ plug'.raced = plug.raced
    BY <1>1, <1>6, Switched DEF RegisterPower
  <2> QED
    BY <1>1, <2>1, <2>2, <2>3, Calm DEF Clearing
<1>7. CASE ReleasePower
  <2>1. /\ Free(main') /\ main'.pc \in Plain /\ main.pc = "release"
        /\ UNCHANGED <<lcd, usb>>
    BY <1>4, <1>5, <1>7 DEF ReleasePower
  <2>2. Keeps(tm, tm') /\ flags' \subseteq Flag
    BY <1>2, <1>3, <1>7 DEF ReleasePower
  <2>3. IsPmu(pmu') /\ IsPlug(plug') /\ plug'.raced = plug.raced
    BY <1>1, <1>7, Switched DEF ReleasePower
  <2> QED
    BY <1>1, <2>1, <2>2, <2>3, Calm DEF Clearing
<1>8. CASE PollLong \/ StandbyEnter
  <2>1. ReleaseBoth /\ lcd' = lcd /\ main.pc \in Plain
        /\ (Call("register", "os") \/ Goto("asleep"))
    BY <1>8 DEF PollLong, StandbyEnter, Plain
  <2>2. Free(main') /\ main'.pc \in Plain
    BY <1>4, <1>5, <2>1
  <2>3. /\ IsUsb(usb') /\ tm' \in TimerState /\ flags' \subseteq Flag
        /\ IsPmu(pmu') /\ IsPlug(plug') /\ plug'.raced = plug.raced
        /\ Owners(usb.hd, lcd.hd, main.pc, main.hd, tm)
             => Owners(usb'.hd, lcd.hd, main.pc, main.hd, tm')
    BY <2>1, BothReleased
  <2>4. Owners(usb'.hd, lcd.hd, main.pc, main.hd, tm')
          => Owners(usb'.hd, lcd.hd, main'.pc, main'.hd, tm')
    BY <2>1, <2>2, Places, OwnersMoved
  <2> QED
    BY <1>1, <2>1, <2>2, <2>3, <2>4, Places, Ends
<1>9. CASE Wake
  <2>1. Free(main') /\ main'.pc \in Plain /\ main.pc = "asleep"
    <3>1. ASSUME main' = [main EXCEPT !.pc = "register", !.then = "exit", !.ret = -1]
          PROVE  Free(main') /\ main'.pc = "register"
      <4>1. "register" \in Place /\ "exit" \in Plain /\ -1 \in Int
        BY <1>4
      <4> QED
        BY <1>1, <3>1, <4>1 DEF Free, IsMain
    <3> QED
      BY <1>4, <1>5, <1>9, <3>1 DEF Wake
  <2>2. IsUsb(usb') /\ usb'.hd = usb.hd /\ UNCHANGED <<lcd, flags>>
    BY <1>1, <1>9 DEF Wake, IsUsb
  <2>3. Keeps(tm, tm')
    <3>1. tm' = DisableInt(EnableInt(tm, "nmi"), "nmi")
      BY <1>9 DEF Wake
    <3>2. Keeps(tm, EnableInt(tm, "nmi"))
      BY <1>2, <1>3
    <3>3. Keeps(EnableInt(tm, "nmi"), DisableInt(EnableInt(tm, "nmi"), "nmi"))
      BY <1>3, <3>2, IntKeeps DEF Keeps
    <3> QED
      BY <3>1, <3>2, <3>3 DEF Keeps
  <2>4. IsPmu(pmu') /\ IsPlug(plug') /\ plug'.raced = plug.raced
    <3>1. Standby
      BY <1>9 DEF Wake
    <3>2. IsPmu(pmu')
      <4>1. CASE UNCHANGED <<pmu, plug>>
        BY <1>1, <4>1
      <4>2. ASSUME NEW e \in {{}, pmu.latch}, NEW k \in {"off", "left"},
                   pmu' = [pmu EXCEPT !.nmi = k, !.latch = e]
            PROVE  IsPmu(pmu')
        <5>1. e \in SUBSET Event
          BY <1>1 DEF IsPmu
        <5> QED
          BY <1>1, <4>2, <5>1 DEF IsPmu
      <4> QED
        BY <3>1, <4>1, <4>2 DEF Standby
    <3>3. IsPlug(plug') /\ plug'.raced = plug.raced
      BY <1>1, <3>1 DEF Standby, IsPlug
    <3> QED
      BY <3>2, <3>3
  <2> QED
    BY <1>1, <2>1, <2>2, <2>3, <2>4, Calm DEF Clearing
<1> QED
  BY <1>6, <1>7, <1>8, <1>9

\* The panel's steps.
LEMMA OpenStep ==
  ASSUME IInv, main.call = NoCall, OpenDisplay
  PROVE  IInv'
<1>1. /\ Free(main) /\ IsUsb(usb) /\ IsLcd(lcd) /\ tm \in TimerState
      /\ IsPmu(pmu) /\ IsPlug(plug) /\ flags \subseteq Flag /\ Keeps(tm, tm)
      /\ usb.hd \in Handle /\ lcd.hd \in Handle /\ main.hd \in Handle
  BY Known
<1>2. main.pc = "display" /\ UNCHANGED <<usb, flags, pmu, plug>>
  BY DEF OpenDisplay
<1>3. "power" \in Plain /\ "power" \in Place /\ "display" \in Plain
  BY DEF Plain, Place
<1>4. ASSUME NEW d \in BOOLEAN, main' = [main EXCEPT !.pc = "power", !.screen = d],
             UNCHANGED <<tm, lcd>>
      PROVE  IInv'
  <2>1. Free(main') /\ main'.pc = "power"
    BY <1>1, <1>3, <1>4 DEF Free, IsMain
  <2> QED
    BY <1>1, <1>2, <1>3, <1>4, <2>1, Calm DEF Clearing
<1> DEFINE l == [lcd EXCEPT !.hd = RequestHandle(tm)]
           n == Request(tm, OpenFn)
<1>5. CASE /\ main' = [main EXCEPT !.pc = "power", !.screen = TRUE, !.panel = TRUE]
           /\ lcd' = FlowLcd(l, OpenFn) /\ tm' = FlowTm(l, OpenFn, n)
  <2>1. Free(main') /\ main'.pc = "power"
    BY <1>1, <1>3, <1>5 DEF Free, IsMain
  <2>2. RequestHandle(tm) \in Handle /\ n \in TimerState
        /\ Requested(tm, OpenFn, RequestHandle(tm), n)
    BY <1>1, Requests, RequestEffect, FuncTypes
  <2>3. IsLcd(l) /\ l.hd = RequestHandle(tm)
    BY <1>1, <2>2 DEF IsLcd
  <2> HIDE DEF l, n
  <2>4. IsLcd(lcd') /\ lcd'.hd = RequestHandle(tm) /\ Keeps(n, tm')
    BY <1>5, <2>2, <2>3, FlowKeeps
  <2>5. ASSUME Owners(usb.hd, lcd.hd, main.pc, main.hd, tm)
        PROVE  Owners(usb.hd, lcd'.hd, main'.pc, main'.hd, tm')
    <3>1. Owners(usb.hd, lcd'.hd, main.pc, main.hd, n)
      BY <1>1, <1>2, <1>3, <2>2, <2>4, <2>5, OwnersPanel
    <3>2. Owners(usb.hd, lcd'.hd, main'.pc, main'.hd, n)
      BY <1>2, <1>3, <2>1, <3>1, OwnersMoved DEF Clearing
    <3> QED
      BY <2>4, <3>2, OwnersKept
  <2> QED
    BY <1>1, <1>2, <2>1, <2>4, <2>5, Ends DEF Keeps, Clearing
<1> QED
  BY <1>4, <1>5 DEF OpenDisplay

\* When its flow is over the panel gives its timer back.
LEMMA ClearStep ==
  ASSUME IInv, main.call = NoCall,
         WaitFinished \/ WaitClear \/ Uninstall \/ UninstallClear
  PROVE  IInv'
<1>1. /\ Free(main) /\ IsUsb(usb) /\ IsLcd(lcd) /\ tm \in TimerState
      /\ IsPmu(pmu) /\ IsPlug(plug) /\ flags \subseteq Flag /\ Keeps(tm, tm)
      /\ usb.hd \in Handle /\ lcd.hd \in Handle /\ main.hd \in Handle
      /\ (main.pc \in Clearing => lcd.fin)
  BY Known
<1>2. "release" \in Plain /\ "done" \in Plain /\ "release" \in Place
      /\ "wait" \in Plain /\ "uninstall" \in Plain
  BY DEF Plain, Place
<1>3. ASSUME NEW p \in Clearing, main.pc \in Plain, lcd.fin,
             CallTimer("release", lcd.hd, NoFunc, p), UNCHANGED <<lcd, usb, flags, pmu, plug>>
      PROVE  IInv'
  <2>1. ASSUME NEW n \in TimerState, Owners(usb.hd, lcd.hd, main.pc, main.hd, tm),
               Settles(tm, "release", lcd.hd, NoFunc, n)
        PROVE  Owners(usb.hd, lcd.hd, p, lcd.hd, n)
    <3>1. n.used = tm.used \ {lcd.hd} /\ n.func = tm.func
      BY <2>1 DEF Settles, Released
    <3>2. main.pc \notin Clearing /\ main.pc # "leave_store"
      BY <1>3, Places
    <3>3. usb.hd # NoTimer => usb.hd # lcd.hd /\ usb.hd \in tm.used /\ tm.func[usb.hd] = UsbFn
      BY <2>1, <3>2, FuncTypes DEF Owners
    <3>4. p \notin Handing /\ p \notin {"enter_store", "close_store"}
      BY DEF Clearing, Handing
    <3> QED
      BY <3>1, <3>3, <3>4 DEF Owners
  <2>2. p \in Place /\ p \in CallAt("release") /\ p \notin {"enter_store", "close_store"}
    BY DEF Clearing, Place, CallAt
  <2>3. NoFunc \in Func \cup {NoFunc} /\ lcd'.fin
    BY <1>3
  <2> QED
    BY <1>1, <1>3, <2>1, <2>2, <2>3, CallMade
<1>4. CASE WaitFinished
  BY <1>2, <1>3, <1>4 DEF WaitFinished, Clearing
<1>5. CASE Uninstall
  <2>1. CASE lcd.fin
    BY <1>2, <1>3, <1>5, <2>1 DEF Uninstall, Clearing
  <2>2. CASE ~lcd.fin
    <3>1. /\ Call("release", "done") /\ main.pc = "uninstall"
          /\ UNCHANGED <<tm, lcd, usb, flags, pmu, plug>>
      BY <1>5, <2>2 DEF Uninstall
    <3>2. Free(main') /\ main'.pc \in Plain
      BY <1>1, <1>2, <3>1, Going
    <3> QED
      BY <1>1, <3>1, <3>2, Calm DEF Clearing
  <2> QED
    BY <2>1, <2>2
<1>6. CASE WaitClear \/ UninstallClear
  <2>1. /\ lcd' = CheckedLcd(lcd) /\ main.pc \in Clearing
        /\ Back \/ Call("release", "done")
        /\ UNCHANGED <<tm, usb, flags, pmu, plug>>
    BY <1>6 DEF WaitClear, UninstallClear, Clearing
  <2>2. lcd' = [lcd EXCEPT !.hd = NoTimer]
    BY <1>1, <2>1 DEF CheckedLcd
  <2>3. IsLcd(lcd') /\ lcd'.hd = NoTimer
    BY <1>1, <2>2 DEF IsLcd, Handle
  <2>4. Free(main') /\ main'.pc \in Plain
    BY <1>1, <1>2, <2>1, Going
  <2>5. main.pc # "leave_store"
    BY <2>1 DEF Clearing
  <2>6. Owners(usb.hd, lcd.hd, main.pc, main.hd, tm)
          => Owners(usb.hd, NoTimer, main'.pc, main'.hd, tm)
    BY <2>4, <2>5, Places DEF Owners
  <2> QED
    BY <1>1, <2>1, <2>3, <2>4, <2>6, Places, Ends
<1> QED
  BY <1>4, <1>5, <1>6

\* The panel is switched off.
LEMMA CloseStep ==
  ASSUME IInv, main.call = NoCall, CloseRequest \/ CloseStore \/ CloseFirst
  PROVE  IInv'
<1>1. /\ Free(main) /\ IsUsb(usb) /\ IsLcd(lcd) /\ tm \in TimerState
      /\ IsPmu(pmu) /\ IsPlug(plug) /\ flags \subseteq Flag /\ Keeps(tm, tm)
      /\ usb.hd \in Handle /\ lcd.hd \in Handle /\ main.hd \in Handle
  BY Known
<1>2. NoFunc \in Func \cup {NoFunc} /\ CloseFn \in Func
  BY FuncTypes
<1>3. CASE CloseRequest
  <2>1. /\ CallTimer("request", RequestHandle(tm), CloseFn, "close_store")
        /\ lcd' = [lcd EXCEPT !.cnt = 0, !.fin = FALSE,
                     !.mixed = lcd.mixed \/ (main.panel /\ ~lcd.fin)]
        /\ UNCHANGED <<usb, flags, pmu, plug>> /\ main.pc = "close"
    BY <1>3 DEF CloseRequest
  <2>2. RequestHandle(tm) \in Handle
    BY <1>1, <1>2, Requests
  <2>3. IsLcd(lcd') /\ lcd'.hd = lcd.hd
    BY <1>1, <2>1 DEF IsLcd
  <2>4. ASSUME NEW n \in TimerState, Owners(usb.hd, lcd.hd, main.pc, main.hd, tm),
               Settles(tm, "request", RequestHandle(tm), CloseFn, n)
        PROVE  Owners(usb.hd, lcd.hd, "close_store", RequestHandle(tm), n)
    <3> DEFINE r == RequestHandle(tm)
    <3>1. /\ r \notin tm.used
          /\ r # NoTimer => r \in n.used /\ n.func[r] = CloseFn
          /\ \A s \in tm.used : s \in n.used /\ n.func[s] = tm.func[s]
      BY <1>1, <1>2, <2>4, RequestedFunc DEF Settles
    <3> HIDE DEF r
    <3>2. Owners(usb.hd, lcd.hd, "close", main.hd, tm)
      BY <2>1, <2>4
    <3> QED
      BY <3>1, <3>2 DEF Owners, Handing, Clearing, r
  <2>5. "close_store" \in Place /\ "close_store" \in CallAt("request")
        /\ "close_store" \notin Clearing
    BY DEF Place, CallAt, Clearing
  <2> QED
    BY <1>1, <1>2, <2>1, <2>2, <2>3, <2>4, <2>5, CallMade
<1>4. CASE CloseStore
  <2>1. lcd' = [lcd EXCEPT !.hd = main.hd] /\ Goto("close_first")
        /\ UNCHANGED <<tm, usb, flags, pmu, plug>> /\ main.pc = "close_store"
    BY <1>4 DEF CloseStore
  <2>2. IsLcd(lcd') /\ lcd'.hd = main.hd
    BY <1>1, <2>1 DEF IsLcd
  <2>3. Free(main') /\ main'.pc = "close_first" /\ main'.hd = main.hd
    BY <1>1, <2>1, Going DEF Place, Plain
  <2>4. Owners(usb.hd, lcd.hd, "close_store", main.hd, tm)
          => Owners(usb.hd, main.hd, "close_first", main.hd, tm)
    BY DEF Owners, Handing, Clearing
  <2> QED
    BY <1>1, <2>1, <2>2, <2>3, <2>4, Ends DEF Clearing
<1>5. CASE CloseFirst
  <2>1. lcd' = FlowLcd(lcd, CloseFn) /\ UNCHANGED <<usb, flags, pmu, plug>>
        /\ main.pc = "close_first"
    BY <1>5 DEF CloseFirst
  <2>2. IsLcd(lcd') /\ lcd'.hd = lcd.hd
    BY <1>1, <2>1, FlowKeeps
  <2>3. CASE Goto("uninstall") /\ UNCHANGED tm
    <3>1. Free(main') /\ main'.pc \in Plain
      BY <1>1, <2>3, Going DEF Plain, Place
    <3> QED
      BY <1>1, <2>1, <2>2, <2>3, <3>1, Calm DEF Clearing
  <2>4. CASE CallTimer("start", lcd.hd, NoFunc, "uninstall")
    <3>1. ASSUME NEW n \in TimerState, Owners(usb.hd, lcd.hd, main.pc, main.hd, tm),
                 Settles(tm, "start", lcd.hd, NoFunc, n)
          PROVE  Owners(usb.hd, lcd.hd, "uninstall", lcd.hd, n)
      <4>1. Owners(usb.hd, lcd.hd, "uninstall", lcd.hd, tm)
        BY <2>1, <3>1 DEF Owners, Handing, Clearing
      <4> QED
        BY <1>1, <3>1, <4>1, SettlesKeeps, OwnersKept
    <3>2. "uninstall" \in Place /\ "uninstall" \in CallAt("start")
          /\ "uninstall" \notin Clearing
      BY DEF Place, Plain, CallAt, Clearing
    <3> QED
      BY <1>1, <1>2, <2>1, <2>2, <2>4, <3>1, <3>2, CallMade
  <2> QED
    BY <1>5, <2>3, <2>4 DEF CloseFirst
<1> QED
  BY <1>3, <1>4, <1>5

\* The further steps of a call change nothing that is settled.
LEMMA CallStep ==
  ASSUME Types, CallTake \/ CallStore \/ CallFree
  PROVE  /\ ts' = ts /\ tm' \in TimerState
         /\ main' = [main EXCEPT !.call = main'.call]
         /\ IsMain(main') /\ Fits(main')
         /\ main.call # NoCall
         /\ main'.call # NoCall => main'.call.op = main.call.op /\ main'.call.t = main.call.t
         /\ UNCHANGED <<lcd, usb, flags, pmu, plug>>
<1> DEFINE c == main.call
           d == main'.call
<1>1. tm \in TimerState /\ IsMain(main) /\ Fits(main) /\ IsCall(c)
  BY DEF Types, Fits
<1>2. /\ \/ c.at = "take" /\ tm' = Taken(tm, c) /\ main' = [main EXCEPT !.call = TakenCall(tm, c)]
         \/ c.at = "store" /\ tm' = Stored(tm, c) /\ main' = [main EXCEPT !.call = StoredCall(c)]
         \/ c.at = "free" /\ tm' = Freed(tm, c) /\ main' = [main EXCEPT !.call = NoCall]
      /\ UNCHANGED <<lcd, usb, flags, pmu, plug>>
  BY DEF CallTake, CallStore, CallFree
<1>3. c # NoCall
  BY <1>2 DEF NoCall
<1>4. \/ c.at = "take" /\ tm' = Taken(tm, c) /\ d = TakenCall(tm, c)
      \/ c.at = "store" /\ tm' = Stored(tm, c) /\ d = StoredCall(c)
      \/ c.at = "free" /\ tm' = Freed(tm, c) /\ d = NoCall
  BY <1>1, <1>2 DEF IsMain
<1>5. main' = [main EXCEPT !.call = d]
  BY <1>1, <1>2, <1>4 DEF IsMain
<1> HIDE DEF c, d
<1>6. /\ tm' \in TimerState /\ IsCall(d) /\ Settled(tm', d) = Settled(tm, c)
      /\ d # NoCall => d.op = c.op /\ d.t = c.t /\ d.fn = c.fn
  BY <1>1, <1>3, <1>4, CallGoes
<1>7. d \in Calls
  BY <1>6 DEF IsCall
<1>8. /\ IsMain(main') /\ main'.pc = main.pc /\ main'.hd = main.hd
  BY <1>1, <1>5, <1>7 DEF IsMain
<1>9. Fits(main')
  <2>1. main'.call = d /\ main.call = c
    BY DEF c, d
  <2> QED
    BY <1>1, <1>3, <1>6, <1>8, <2>1 DEF Fits
<1>10. ts' = ts
  BY <1>6 DEF ts, c, d
<1> QED
  BY <1>2, <1>3, <1>5, <1>6, <1>8, <1>9, <1>10 DEF c, d

LEMMA CallInv ==
  ASSUME IInv, CallTake \/ CallStore \/ CallFree
  PROVE  IInv'
<1>1. /\ ts' = ts /\ tm' \in TimerState /\ IsMain(main') /\ Fits(main')
      /\ main' = [main EXCEPT !.call = main'.call]
      /\ UNCHANGED <<lcd, usb, flags, pmu, plug>>
  BY CallStep DEF IInv
<1>2. main'.pc = main.pc /\ main'.hd = main.hd
  BY <1>1 DEF IInv, Types, IsMain
<1> QED
  BY <1>1, <1>2 DEF IInv, Types, Own

----------------------------------------------------------------------------
(* The world and the interrupts, which leave the main program where it is, *)
(* in a call or not.                                                       *)
LEMMA SettledType == Types => ts \in TimerState
  BY SettledKeeps DEF Types, Fits, Keeps, ts

LEMMA Meets ==
  ASSUME IInv, UNCHANGED main, tm' \in TimerState, IsUsb(usb'), IsLcd(lcd'),
         lcd.fin => lcd'.fin, IsPmu(pmu'), IsPlug(plug'), flags' \subseteq Flag,
         ~plug'.raced =>
           /\ ~plug.raced
           /\ Own => Owners(usb'.hd, lcd'.hd, main.pc, main.hd, ts')
  PROVE  IInv'
  BY DEF IInv, Types, Own

LEMMA MeetsKeeping ==
  ASSUME IInv, UNCHANGED main, Keeps(tm, tm'), IsUsb(usb'), usb'.hd = usb.hd,
         IsLcd(lcd'), lcd'.hd = lcd.hd, lcd.fin => lcd'.fin,
         IsPmu(pmu'), IsPlug(plug'), plug'.raced = plug.raced, flags' \subseteq Flag
  PROVE  IInv'
<1>1. tm \in TimerState /\ IsCall(main.call)
  BY DEF IInv, Types, Fits
<1>2. Keeps(ts, ts')
  BY <1>1, SettledKeeps DEF ts
<1>3. Own => Owners(usb.hd, lcd.hd, main.pc, main.hd, ts')
  BY <1>2, OwnersKept DEF Own
<1> QED
  BY <1>3, Meets DEF Keeps

LEMMA WorldStep ==
  ASSUME IInv,
         \/ ChangePlug \/ PressKey \/ TimePasses
         \/ \E t \in Timer : TimerExpires(t)
  PROVE  IInv'
<1>1. /\ IsUsb(usb) /\ IsLcd(lcd) /\ tm \in TimerState /\ IsPmu(pmu) /\ IsPlug(plug)
      /\ flags \subseteq Flag /\ Keeps(tm, tm)
  BY DEF IInv, Types, Keeps
<1>2. \A e \in Event : Latch(e) => IsPmu(pmu')
  <2>1. ASSUME NEW e \in Event, pmu' = [pmu EXCEPT !.latch = pmu.latch \cup {e}]
        PROVE  IsPmu(pmu')
    <3>1. pmu.latch \cup {e} \in SUBSET Event
      BY <1>1 DEF IsPmu
    <3> QED
      BY <1>1, <2>1, <3>1 DEF IsPmu
  <2> QED
    BY <1>1, <2>1 DEF Latch
<1>3. CASE ChangePlug
  <2>1. \E e \in Event : Latch(e)
    BY <1>3 DEF ChangePlug, Event, PlugEvents
  <2>2. IsPmu(pmu') /\ UNCHANGED <<tm, lcd, usb, flags, main>>
    BY <1>2, <1>3, <2>1 DEF ChangePlug
  <2>3. IsPlug(plug') /\ plug'.raced = plug.raced
    BY <1>1, <1>3 DEF ChangePlug, IsPlug
  <2> QED
    BY <1>1, <2>2, <2>3, MeetsKeeping
<1>4. CASE PressKey
  <2>1. \E e \in Event : Latch(e)
    BY <1>4 DEF PressKey, Event
  <2>2. IsPmu(pmu') /\ UNCHANGED <<tm, lcd, usb, flags, main>>
    BY <1>2, <1>4, <2>1 DEF PressKey
  <2>3. IsPlug(plug') /\ plug'.raced = plug.raced
    BY <1>1, <1>4 DEF PressKey, IsPlug
  <2> QED
    BY <1>1, <2>2, <2>3, MeetsKeeping
<1>5. CASE TimePasses
  <2>1. IsUsb(usb') /\ usb'.hd = usb.hd /\ UNCHANGED <<tm, lcd, flags, pmu, plug, main>>
    <3>1. {} \in SUBSET Handle
      OBVIOUS
    <3> QED
      BY <1>1, <1>5, <3>1 DEF TimePasses, IsUsb
  <2> QED
    BY <1>1, <2>1, MeetsKeeping
<1>6. ASSUME NEW t \in Timer, TimerExpires(t) PROVE IInv'
  <2>1. Keeps(tm, tm') /\ UNCHANGED <<lcd, usb, flags, pmu, plug, main>>
    BY <1>1, <1>6, StatKeeps DEF TimerExpires
  <2> QED
    BY <1>1, <2>1, MeetsKeeping
<1> QED
  BY <1>3, <1>4, <1>5, <1>6

LEMMA TimerStep ==
  ASSUME IInv, NEW t \in Timer, PanelTimer(t) \/ UsbTimer(t)
  PROVE  IInv'
<1>1. /\ IsUsb(usb) /\ IsLcd(lcd) /\ tm \in TimerState /\ IsPmu(pmu) /\ IsPlug(plug)
      /\ flags \subseteq Flag
  BY DEF IInv, Types
<1>2. Keeps(tm, TakeTimerInt(tm, t))
  BY <1>1, StatKeeps
<1>3. CASE PanelTimer(t)
  <2>1. PICK f : /\ lcd' = FlowLcd(lcd, f) /\ tm' = FlowTm(lcd, f, TakeTimerInt(tm, t))
                 /\ UNCHANGED <<usb, flags, pmu, plug, main>>
    BY <1>3 DEF PanelTimer
  <2>2. /\ IsLcd(lcd') /\ lcd'.hd = lcd.hd /\ (lcd.fin => lcd'.fin)
        /\ Keeps(TakeTimerInt(tm, t), tm')
    BY <1>1, <1>2, <2>1, FlowKeeps DEF Keeps
  <2>3. Keeps(tm, tm')
    BY <1>2, <2>2 DEF Keeps
  <2> QED
    BY <1>1, <2>1, <2>2, <2>3, MeetsKeeping
<1>4. CASE UsbTimer(t)
  <2>1. UNCHANGED <<lcd, pmu, plug, main>> /\ flags' \subseteq Flag
    BY <1>1, <1>4 DEF UsbTimer
  <2>2. IsUsb(usb') /\ usb'.hd = usb.hd
    BY <1>1, <1>4 DEF UsbTimer, IsUsb
  <2>3. Keeps(tm, tm')
    <3>1. \/ tm' = TakeTimerInt(tm, t)
          \/ tm' = DisableInt(TakeTimerInt(tm, t), "usb")
      BY <1>4 DEF UsbTimer
    <3>2. Keeps(TakeTimerInt(tm, t), DisableInt(TakeTimerInt(tm, t), "usb"))
      BY <1>2, IntKeeps DEF Keeps, Irq
    <3> QED
      BY <1>2, <3>1, <3>2 DEF Keeps
  <2> QED
    BY <1>1, <2>1, <2>2, <2>3, MeetsKeeping
<1> QED
  BY <1>3, <1>4

\* The host's reset gives the detection's timer back even in the midst of a
\* call of the main program for another one.
LEMMA ResetStep ==
  ASSUME IInv, UsbReset
  PROVE  IInv'
<1>1. /\ IsUsb(usb) /\ IsLcd(lcd) /\ tm \in TimerState /\ IsPmu(pmu) /\ IsPlug(plug)
      /\ flags \subseteq Flag /\ IsCall(main.call) /\ Fits(main)
      /\ usb.hd \in Handle /\ lcd.hd \in Handle /\ main.hd \in Handle /\ ts \in TimerState
  BY SettledType DEF IInv, Types, Fits, IsMain, IsLcd, IsUsb
<1>2. /\ tm' \in TimerState /\ tm'.used = tm.used \ {usb.hd} /\ tm'.func = tm.func
  BY <1>1, ExitFields DEF UsbReset, ExitTm
<1>3. IsUsb(usb') /\ usb'.hd = NoTimer
  <2>1. NoTimer \in Handle
    BY DEF Handle
  <2> QED
    BY <1>1, <2>1 DEF UsbReset, IsUsb
<1>4. flags' \subseteq Flag /\ UNCHANGED <<lcd, pmu, main>>
  BY <1>1 DEF UsbReset, Flag
<1>5. IsPlug(plug') /\ plug'.raced = plug.raced
  BY <1>1 DEF UsbReset, IsPlug
<1>6. ASSUME Own PROVE Owners(NoTimer, lcd.hd, main.pc, main.hd, ts')
  <2>1. main.call.op = "request" => usb.hd # main.call.t
    <3> SUFFICES ASSUME main.call.op = "request" PROVE usb.hd # main.call.t
      OBVIOUS
    <3>1. /\ main.pc \in {"enter_store", "close_store"} /\ main.call.t = main.hd
          /\ main.hd \in Timer
      BY <1>1 DEF IsCall, NoCall, Fits, CallAt
    <3>2. main.hd # NoTimer
      BY <3>1 DEF Timer, NoTimer
    <3> QED
      BY <1>6, <3>1, <3>2, FuncTypes DEF Own, Owners
  <2>2. /\ ts' \in TimerState /\ ts'.used = ts.used \ {usb.hd} /\ ts'.func = ts.func
    <3>1. ts = Settled(tm, main.call) /\ ts' = Settled(tm', main.call)
      BY <1>4 DEF ts
    <3> QED
      BY <1>1, <1>2, <2>1, <3>1, SettledExit
  <2> QED
    BY <1>1, <1>6, <2>2, OwnersExit DEF Own
<1> QED
  BY <1>1, <1>2, <1>3, <1>4, <1>5, <1>6, Meets

\* What the events of the power chip do to the detection.
LEMMA Handled ==
  ASSUME Types, NEW s, HandlePower(s)
  PROVE  /\ IsUsb(usb') /\ tm' \in TimerState /\ flags' \subseteq Flag
         /\ Owners(usb.hd, lcd.hd, main.pc, main.hd, tm)
              => Owners(usb'.hd, lcd.hd, main.pc, main.hd, tm')
<1>1. /\ IsUsb(usb) /\ tm \in TimerState /\ flags \subseteq Flag
      /\ lcd.hd \in Handle /\ main.hd \in Handle
  BY DEF Types, IsMain, IsLcd
<1>2. KeyFlags(s) \subseteq Flag /\ "vbus" \in Flag
  BY DEF KeyFlags, Flag
<1>3. flags' \subseteq Flag
  BY <1>1, <1>2 DEF HandlePower
<1>4. /\ IsUsb(ExitUsb(usb)) /\ ExitTm(usb, tm) \in TimerState
      /\ Owners(usb.hd, lcd.hd, main.pc, main.hd, tm)
           => Owners(ExitUsb(usb).hd, lcd.hd, main.pc, main.hd, ExitTm(usb, tm))
  BY <1>1, ExitFields, ExitOwners
<1>5. /\ IsUsb(EnterUsb(usb, tm)) /\ EnterTm(usb, tm) \in TimerState
      /\ Owners(usb.hd, lcd.hd, main.pc, main.hd, tm)
           => Owners(EnterUsb(usb, tm).hd, lcd.hd, main.pc, main.hd, EnterTm(usb, tm))
  BY <1>1, EnterOwners
<1>6. CASE usb' = [ExitUsb(usb) EXCEPT !.limit = "pc"] /\ tm' = ExitTm(usb, tm)
  <2>1. IsUsb(usb') /\ usb'.hd = ExitUsb(usb).hd
    BY <1>4, <1>6 DEF IsUsb
  <2> QED
    BY <1>3, <1>4, <1>6, <2>1
<1>7. CASE usb' = EnterUsb(usb, tm) /\ tm' = EnterTm(usb, tm)
  BY <1>3, <1>5, <1>7
<1>8. CASE UNCHANGED <<usb, tm>>
  BY <1>1, <1>3, <1>8
<1> QED
  BY <1>6, <1>7, <1>8 DEF HandlePower

\* A change at the plug that meets a call of the main program is excluded;
\* keys do not touch the timers.
LEMMA EventStep ==
  ASSUME IInv, NEW s, NEW e, NEW n, HandlePower(s), Note(e, n),
         e \cap PlugEvents = {} => s \cap PlugEvents = {},
         UNCHANGED <<lcd, main>>, IsPmu(pmu')
  PROVE  IInv' /\ IsPlug(plug')
<1>1. Types /\ IsPlug(plug) /\ IsLcd(lcd) /\ tm \in TimerState
  BY DEF IInv, Types
<1>2. /\ IsUsb(usb') /\ tm' \in TimerState /\ flags' \subseteq Flag
      /\ Owners(usb.hd, lcd.hd, main.pc, main.hd, tm)
           => Owners(usb'.hd, lcd.hd, main.pc, main.hd, tm')
  BY <1>1, Handled
<1>3. /\ IsPlug(plug')
      /\ plug'.raced = (plug.raced \/ (e \cap PlugEvents # {} /\ InCall))
  BY <1>1 DEF Note, IsPlug
<1>4. ASSUME ~plug'.raced, Own PROVE Owners(usb'.hd, lcd.hd, main.pc, main.hd, ts')
  <2>1. CASE main.call = NoCall
    <3>1. ts = tm /\ ts' = tm'
      BY <2>1, FreeFits
    <3> QED
      BY <1>2, <1>4, <3>1 DEF Own
  <2>2. CASE main.call # NoCall
    <3>1. s \cap PlugEvents = {}
      BY <1>3, <1>4, <2>2 DEF InCall
    <3>2. "remove" \notin s /\ "insert" \notin s
      BY <3>1 DEF PlugEvents
    <3>3. UNCHANGED <<usb, tm>>
      BY <3>2 DEF HandlePower
    <3>4. UNCHANGED ts
      BY <3>3 DEF ts
    <3> QED
      BY <1>4, <3>3, <3>4 DEF Own
  <2> QED
    BY <2>1, <2>2
<1> QED
  BY <1>1, <1>2, <1>3, <1>4, Meets

LEMMA InterruptStep ==
  ASSUME IInv, PowerInt \/ PowerIntFails
  PROVE  IInv'
<1>1. IsPmu(pmu)
  BY DEF IInv, Types
<1>2. CASE PowerInt
  <2>1. IsPmu(pmu')
    BY <1>1, <1>2 DEF PowerInt, IsPmu
  <2> QED
    BY <1>2, <2>1, EventStep DEF PowerInt
<1>3. CASE PowerIntFails
  <2>1. PICK keys \in SUBSET (Event \ PlugEvents),
             got \in {{}, pmu.latch \cap PlugEvents, pmu.latch},
             gone \in {{}, pmu.latch \cap PlugEvents, pmu.latch} :
          /\ HandlePower((got \cap PlugEvents) \cup keys) /\ Note(got, 1)
          /\ pmu' = [pmu EXCEPT !.latch = pmu.latch \ gone]
    BY <1>3 DEF PowerIntFails
  <2>2. IsPmu(pmu')
    <3>1. pmu.latch \ gone \in SUBSET Event
      BY <1>1 DEF IsPmu
    <3> QED
      BY <1>1, <2>1, <3>1 DEF IsPmu
  <2>3. got \cap PlugEvents = {} => ((got \cap PlugEvents) \cup keys) \cap PlugEvents = {}
    OBVIOUS
  <2>4. UNCHANGED <<lcd, main>>
    BY <1>3 DEF PowerIntFails
  <2> QED
    BY <2>1, <2>2, <2>3, <2>4, EventStep
<1> QED
  BY <1>2, <1>3

----------------------------------------------------------------------------
LEMMA InitInv == Init => IInv
<1> SUFFICES ASSUME Init PROVE IInv
  OBVIOUS
<1>1. tm \in TimerState
  BY DEF Init, TimerInit, TimerState
<1>2. NoTimer \in Handle /\ {} \in SUBSET Handle /\ {} \in SUBSET Flag /\ NoCall \in Calls
      /\ "" \in Plain /\ "display" \in Place
  BY FreeFits DEF Handle, Plain, Place, IsCall
<1>3. IsLcd(lcd) /\ lcd.hd = NoTimer
  BY <1>2 DEF Init, IsLcd
<1>4. IsUsb(usb) /\ usb.hd = NoTimer
  BY <1>2 DEF Init, IsUsb
<1>5. IsMain(main) /\ main.pc = "display" /\ main.call = NoCall
  <2>1. main = [pc |-> "display", then |-> "", seen |-> {}, hd |-> NoTimer,
                ret |-> 0, screen |-> FALSE, panel |-> FALSE, call |-> NoCall]
    BY DEF Init
  <2>2. 0 \in Int /\ FALSE \in BOOLEAN
    OBVIOUS
  <2> QED
    BY <1>2, <2>1, <2>2 DEF IsMain
<1>6. flags \subseteq Flag /\ IsPmu(pmu)
  <2>1. pmu = [working |-> FALSE, nmi |-> "off", latch |-> {}] /\ flags = {}
    BY DEF Init
  <2>2. {} \in SUBSET Event
    OBVIOUS
  <2> QED
    BY <2>1, <2>2 DEF IsPmu
<1>7. IsPlug(plug)
  <2>1. PICK p \in Plug : plug = [is |-> p, events |-> 0, torn |-> FALSE, raced |-> FALSE]
    BY DEF Init
  <2>2. /\ plug.is = p /\ plug.events = 0 /\ plug.torn = FALSE /\ plug.raced = FALSE
    BY <2>1
  <2> QED
    BY <2>1, <2>2 DEF IsPlug
<1>8. main.pc \notin Clearing /\ main.pc \notin Handing
      /\ main.pc \notin {"enter_store", "close_store"}
  BY <1>5 DEF Clearing, Handing
<1>9. Own
  BY <1>3, <1>4, <1>8 DEF Own, Owners
<1> QED
  BY <1>1, <1>3, <1>4, <1>5, <1>6, <1>7, <1>8, <1>9, FreeFits DEF IInv, Types

\* Every step keeps the invariant.
LEMMA StepInv == IInv /\ [Next]_vars => IInv'
<1> SUFFICES ASSUME IInv, [Next]_vars PROVE IInv'
  OBVIOUS
<1>1. CASE Main
  <2>1. CASE CallTake \/ CallStore \/ CallFree
    BY <2>1, CallInv
  <2>2. CASE main.call = NoCall /\ Step
    BY <2>2, QuietStep, EnterStep, LeaveStep, PowerStep, OpenStep, ClearStep, CloseStep
    DEF Step, Quiet
  <2> QED
    BY <1>1, <2>1, <2>2 DEF Main, InCall
<1>2. CASE Interrupt
  BY <1>2, TimerStep, ResetStep, InterruptStep DEF Interrupt
<1>3. CASE ChangePlug \/ PressKey \/ TimePasses \/ \E t \in Timer : TimerExpires(t)
  BY <1>3, WorldStep
<1>4. CASE UNCHANGED vars
  BY <1>4 DEF vars, IInv, Types, Own, ts
<1> QED
  BY <1>1, <1>2, <1>3, <1>4 DEF Next

LEMMA Inductive == Spec => []IInv
  BY InitInv, StepInv, PTL DEF Spec

\* Registers, handles and flags keep their ranges.
THEOREM TypesKept == Spec => []TypeOK
<1>1. IInv => TypeOK
  <2> SUFFICES ASSUME IInv PROVE TypeOK
    OBVIOUS
  <2>1. tm \in TimerState /\ flags \subseteq Flag
    BY DEF IInv, Types
  <2>2. lcd.hd \in Handle /\ usb.hd \in Handle /\ pmu.latch \subseteq Event
    BY DEF IInv, Types, IsLcd, IsUsb, IsPmu
  <2> QED
    BY <2>1, <2>2 DEF TypeOK, PowerOk, Handle
<1> QED
  BY Inductive, <1>1, PTL

\* What is so of the settled state is so in the midst of the call.
LEMMA SettledOwns ==
  ASSUME Types, Own
  PROVE  /\ main.pc # "leave_store" => Owns(usb.hd, {UsbFn})
         /\ main.pc \notin Clearing => Owns(lcd.hd, {OpenFn, CloseFn})
<1> DEFINE c == main.call
<1>1. /\ tm \in TimerState /\ IsCall(c) /\ Fits(main) /\ usb.hd \in Handle /\ lcd.hd \in Handle
      /\ ts = Settled(tm, c)
  BY DEF Types, Fits, IsLcd, IsUsb, ts
<1>2. CASE c = NoCall
  BY <1>2, FreeFits DEF Own, Owners, Owns
<1>3. CASE c # NoCall
  <2>1. /\ ts.used = (IF c.op = "release" THEN tm.used \ {c.t}
                      ELSE IF c.at = "take" THEN tm.used \cup {c.t} ELSE tm.used)
        /\ ts.func = (IF c.op = "request" THEN [tm.func EXCEPT ![c.t] = c.fn] ELSE tm.func)
    <3>1. /\ Settled(tm, c).used = (IF c.op = "release" THEN tm.used \ {c.t}
                                    ELSE IF c.at = "take" THEN tm.used \cup {c.t} ELSE tm.used)
          /\ Settled(tm, c).func = (IF c.op = "request" THEN [tm.func EXCEPT ![c.t] = c.fn]
                                    ELSE tm.func)
      BY ONLY <1>1, <1>3, SettledFields, Zenon
    <3> QED
      BY <1>1, <3>1
  <2>2. CASE c.op = "request"
    <3>1. /\ main.pc \in {"enter_store", "close_store"} /\ c.t = main.hd /\ c.t \in Timer
          /\ main.hd # NoTimer
          /\ main.pc = "enter_store" => c.fn = UsbFn
          /\ main.pc = "close_store" => c.fn = CloseFn
      BY <1>1, <1>3, <2>2 DEF IsCall, Fits, CallAt, Timer, NoTimer
    <3>2. ts.func[c.t] = c.fn /\ \A s \in Timer : s # c.t => ts.func[s] = tm.func[s]
      BY <1>1, <2>1, <2>2, <3>1 DEF TimerState
    <3>3. \A s \in Timer : s # c.t => (s \in ts.used => s \in tm.used)
      BY <2>1, <2>2
    <3>4. main.pc \notin Clearing /\ main.pc # "leave_store"
      BY <3>1 DEF Clearing
    <3>5. usb.hd # NoTimer => usb.hd # c.t /\ usb.hd \in ts.used /\ ts.func[usb.hd] = UsbFn
      BY <3>1, <3>4, FuncTypes DEF Own, Owners
    <3>6. lcd.hd # NoTimer => /\ lcd.hd # c.t /\ lcd.hd \in ts.used
                              /\ ts.func[lcd.hd] \in {OpenFn, CloseFn}
      <4>1. lcd.hd # NoTimer => lcd.hd \in ts.used /\ ts.func[lcd.hd] \in {OpenFn, CloseFn}
        BY <3>4 DEF Own, Owners
      <4>2. CASE main.pc = "enter_store"
        BY <3>1, <3>2, <4>1, <4>2, FuncTypes
      <4>3. CASE main.pc = "close_store"
        BY <3>1, <4>1, <4>3 DEF Own, Owners
      <4> QED
        BY <3>1, <4>1, <4>2, <4>3
    <3> QED
      BY <1>1, <3>2, <3>3, <3>5, <3>6 DEF Owns, Handle
  <2>3. CASE c.op # "request"
    <3>1. ts.used \subseteq tm.used /\ ts.func = tm.func
      <4>1. c.at = "take" => c.op = "request"
        BY <1>1, <1>3 DEF IsCall
      <4> QED
        BY <2>1, <2>3, <4>1
    <3> QED
      BY <3>1 DEF Own, Owners, Owns
  <2> QED
    BY <2>2, <2>3
<1> QED
  BY <1>2, <1>3

\* Unless a change at the plug meets the main program inside a call for a
\* timer, the panel and the detection never hold one timer: whichever interrupt
\* meets the main program at whatever point of usb_detect_enter,
\* usb_detect_exit, the panel's flows and the calls they make, for flows of any
\* length and any number of events.
THEOREM TimersApart == Spec => []DistinctTimers
<1>1. IInv => DistinctTimers
  BY SettledOwns DEF IInv, DistinctTimers, Clearing
<1> QED
  BY Inductive, <1>1, PTL
----------------------------------------------------------------------------
(* The steps of the flows.                                                 *)
Moves == Func \X Int

\* The flow of the panel touches its own fields only.
LEMMA FlowFields ==
  ASSUME NEW l, IsLcd(l), NEW f
  PROVE  /\ FlowLcd(l, f).hd = l.hd /\ FlowLcd(l, f).mixed = l.mixed
         /\ CheckedLcd(l).mixed = l.mixed /\ CheckedLcd(l).fin = l.fin
         /\ CheckedLcd(l).cnt = l.cnt /\ CheckedLcd(l).done = l.done
         /\ CheckedLcd(l).hd = (IF l.fin THEN NoTimer ELSE l.hd)
         /\ l.cnt > Len(Flow(f)) =>
              /\ FlowLcd(l, f).cnt = l.cnt + 1 /\ FlowLcd(l, f).fin = l.fin
              /\ FlowLcd(l, f).done = l.done
         /\ ~(l.cnt > Len(Flow(f))) =>
              /\ FlowLcd(l, f).cnt = StopsAt(f, l.cnt) + 1
              /\ FlowLcd(l, f).fin = (l.fin \/ StopsAt(f, l.cnt) = Len(Flow(f)))
              /\ FlowLcd(l, f).done = l.done \o Steps(f, l.cnt, StopsAt(f, l.cnt))
<1> DEFINE j == StopsAt(f, l.cnt)
           s == Steps(f, l.cnt, j)
<1>1. CheckedLcd(l) = IF l.fin THEN [l EXCEPT !.hd = NoTimer] ELSE l
  BY DEF CheckedLcd
<1>2. FlowLcd(l, f) = IF l.cnt > Len(Flow(f)) THEN [l EXCEPT !.cnt = l.cnt + 1]
                      ELSE [l EXCEPT !.cnt = j + 1, !.fin = (l.fin \/ j = Len(Flow(f))),
                                     !.done = l.done \o s]
  BY DEF FlowLcd
<1> HIDE DEF j, s
<1>3. CASE l.cnt > Len(Flow(f))
  BY <1>1, <1>2, <1>3 DEF IsLcd
<1>4. CASE ~(l.cnt > Len(Flow(f)))
  <2>1. FlowLcd(l, f) = [l EXCEPT !.cnt = j + 1, !.fin = (l.fin \/ j = Len(Flow(f))),
                                  !.done = l.done \o s]
    BY <1>2, <1>4
  <2> QED
    BY <1>1, <1>4, <2>1 DEF IsLcd, j, s
<1> QED
  BY <1>3, <1>4

\* The steps i to j as a sequence.
LEMMA StepsSeq ==
  ASSUME NEW f \in Func, NEW i \in Int, NEW j \in Int, i <= j + 1
  PROVE  /\ Steps(f, i, j) \in Seq(Moves) /\ Len(Steps(f, i, j)) = j - i + 1
         /\ \A k \in 1 .. j - i + 1 : Steps(f, i, j)[k] = <<f, i + k - 1>>
<1> DEFINE n == j - i + 1
           s == Steps(f, i, j)
<1>1. n \in Nat
  OBVIOUS
<1>2. s \in [1 .. n -> Moves] /\ \A k \in 1 .. n : s[k] = <<f, i + k - 1>>
  BY DEF Steps, Moves
<1> HIDE DEF s
<1>3. s \in Seq(Moves) /\ Len(s) = n
  BY <1>1, <1>2
<1> QED
  BY <1>2, <1>3 DEF s

\* The steps up to i and those from i + 1 on.
LEMMA StepsJoin ==
  ASSUME NEW f \in Func, NEW i \in Nat, NEW j \in Int, i <= j + 1
  PROVE  Steps(f, 0, i - 1) \o Steps(f, i, j) = Steps(f, 0, j)
<1> DEFINE a == Steps(f, 0, i - 1)
           b == Steps(f, i, j)
           c == Steps(f, 0, j)
<1>1. a \in Seq(Moves) /\ Len(a) = i /\ \A k \in 1 .. i : a[k] = <<f, k - 1>>
  BY StepsSeq
<1>2. /\ b \in Seq(Moves) /\ Len(b) = j - i + 1
      /\ \A k \in 1 .. j - i + 1 : b[k] = <<f, i + k - 1>>
  BY StepsSeq
<1>3. c \in Seq(Moves) /\ Len(c) = j + 1 /\ \A k \in 1 .. j + 1 : c[k] = <<f, k - 1>>
  BY StepsSeq
<1> HIDE DEF a, b, c
<1>4. /\ a \o b \in Seq(Moves) /\ Len(a \o b) = Len(a) + Len(b)
      /\ \A k \in 1 .. Len(a) + Len(b) :
           (a \o b)[k] = IF k <= Len(a) THEN a[k] ELSE b[k - Len(a)]
  BY <1>1, <1>2, ConcatProperties
<1>5. Len(a \o b) = Len(c)
  BY <1>1, <1>2, <1>3, <1>4
<1>6. \A k \in 1 .. Len(a \o b) : (a \o b)[k] = c[k]
  <2> SUFFICES ASSUME NEW k \in 1 .. j + 1 PROVE (a \o b)[k] = c[k]
    BY <1>3, <1>5
  <2>1. CASE k <= i
    <3>1. k \in 1 .. i /\ k \in 1 .. Len(a) + Len(b) /\ k <= Len(a)
      BY <1>1, <1>2, <2>1
    <3>2. (a \o b)[k] = a[k]
      BY <1>4, <3>1
    <3> QED
      BY <1>1, <1>3, <3>1, <3>2
  <2>2. CASE ~(k <= i)
    <3>1. k - i \in 1 .. j - i + 1 /\ i + (k - i) - 1 = k - 1
      BY <2>2
    <3>2. (a \o b)[k] = b[k - i]
      BY <1>1, <1>2, <1>4, <2>2, <3>1
    <3>3. b[k - i] = <<f, k - 1>>
      BY <1>2, <3>1
    <3> QED
      BY <1>3, <3>2, <3>3
  <2> QED
    BY <2>1, <2>2
<1> QED
  <2> DEFINE d == a \o b
  <2>1. /\ d \in Seq(Moves) /\ Len(d) = Len(c)
        /\ \A k \in 1 .. Len(d) : d[k] = c[k]
    BY <1>4, <1>5, <1>6
  <2> HIDE DEF d
  <2>2. d = c
    BY <1>3, <2>1, SeqEqual
  <2> QED
    BY <2>2 DEF a, b, c, d

\* A call of a flow that is not over stops at one of its steps that is still
\* to come: the first one with a delay, or the end.
LEMMA Stops ==
  ASSUME NEW f, NEW i \in Nat, Flow(f) \in Seq(BOOLEAN), i <= Len(Flow(f))
  PROVE  StopsAt(f, i) \in i .. Len(Flow(f))
<1> DEFINE N == Len(Flow(f))
           T == {j \in i .. N : j = N \/ Flow(f)[j + 1]}
<1>1. N \in Nat /\ T \subseteq Nat /\ N \in T
  OBVIOUS
<1> DEFINE R == {ss \in Nat \X Nat : ss[1] < ss[2]}
<1>2. IsWellFoundedOn(R, Nat)
  <2>1. IsWellFoundedOn(OpToRel(<, Nat), Nat)
    BY NatLessThanWellFounded
  <2> QED
    BY <2>1 DEF OpToRel
<1> HIDE DEF R, T
<1>3. \E m \in T : \A y \in T : ~(<<y, m>> \in R)
  BY <1>1, <1>2, WFMin
<1>4. PICK m \in T : \A y \in T : ~(y < m)
  BY <1>1, <1>3 DEF R
<1>5. /\ m \in i .. N /\ (m = N \/ Flow(f)[m + 1])
      /\ \A k \in i .. m - 1 : ~Flow(f)[k + 1]
  <2>1. m \in i .. N /\ (m = N \/ Flow(f)[m + 1])
    BY DEF T
  <2>2. ASSUME NEW k \in i .. m - 1, Flow(f)[k + 1] PROVE FALSE
    <3>1. k \in i .. N /\ k < m
      BY <1>1, <2>1
    <3> QED
      BY <1>4, <2>2, <3>1 DEF T
  <2> QED
    BY <2>1, <2>2
<1> QED
  BY <1>5 DEF StopsAt

\* Putting sequences of steps together.
LEMMA StepsAssociative ==
  ASSUME NEW s \in Seq(Moves), NEW a, a \in Seq(Moves), NEW b, b \in Seq(Moves),
         NEW d, d = s \o a, NEW c, c = a \o b
  PROVE  d \o b = s \o c
  BY ConcatAssociative

\* The first n steps of a flow, all of them when n goes beyond its end.
Ran(f, n) == Steps(f, 0, IF n - 1 <= Len(Flow(f)) THEN n - 1 ELSE Len(Flow(f)))
AllOf(f) == Steps(f, 0, Len(Flow(f)))

\* Both flows are sequences of delays.
LEMMA Flows ==
  /\ Flow(OpenFn) = OpenFlow /\ Flow(CloseFn) = CloseFlow
  /\ \A f : Flow(f) \in Seq(BOOLEAN)
  BY FlowAssumption, FnAssumption DEF Flow

\* A call of the flow runs the steps that follow those that have run.
LEMMA FlowRuns ==
  ASSUME NEW l, IsLcd(l), l.cnt \in Nat, NEW f \in Func, NEW s \in Seq(Moves),
         l.done = s \o Ran(f, l.cnt)
  PROVE  LET n == FlowLcd(l, f) IN
         /\ n.cnt \in Nat /\ n.done = s \o Ran(f, n.cnt)
         /\ n.cnt >= l.cnt /\ n.hd = l.hd /\ n.mixed = l.mixed
         /\ n.fin => l.fin \/ n.cnt > Len(Flow(f))
<1> DEFINE n == FlowLcd(l, f)
           N == Len(Flow(f))
           j == StopsAt(f, l.cnt)
<1>1. N \in Nat
  BY Flows
<1>2. n.hd = l.hd /\ n.mixed = l.mixed
  BY FlowFields
<1>3. CASE l.cnt > N
  <2>1. n = [l EXCEPT !.cnt = l.cnt + 1]
    BY <1>3 DEF FlowLcd
  <2>2. n.cnt = l.cnt + 1 /\ n.done = l.done /\ n.fin = l.fin
    BY <2>1 DEF IsLcd
  <2>3. Ran(f, l.cnt + 1) = Ran(f, l.cnt)
    <3>1. (IF l.cnt + 1 - 1 <= N THEN l.cnt + 1 - 1 ELSE N)
            = (IF l.cnt - 1 <= N THEN l.cnt - 1 ELSE N)
      <4> DEFINE c == l.cnt
      <4>1. c \in Nat /\ c > N
        BY <1>3
      <4> HIDE DEF c, N
      <4>2. ~(c + 1 - 1 <= N) /\ (c - 1 <= N => c - 1 = N)
        BY <1>1, <4>1
      <4>3. (IF c + 1 - 1 <= N THEN c + 1 - 1 ELSE N) = (IF c - 1 <= N THEN c - 1 ELSE N)
        BY <4>2
      <4> QED
        BY <4>3 DEF c
    <3> QED
      BY <3>1 DEF Ran
  <2> QED
    BY <1>2, <2>2, <2>3
<1>4. CASE ~(l.cnt > N)
  <2>1. j \in l.cnt .. N
    BY <1>1, <1>4, Flows, Stops
  <2>2. n = [l EXCEPT !.cnt = j + 1, !.fin = (l.fin \/ j = Len(Flow(f))),
                      !.done = l.done \o Steps(f, l.cnt, j)]
    BY <1>4 DEF FlowLcd
  <2> HIDE DEF j
  <2>3. /\ n.cnt = j + 1 /\ n.done = l.done \o Steps(f, l.cnt, j)
        /\ n.fin = (l.fin \/ j = N)
    BY <2>2 DEF IsLcd
  <2>4. Ran(f, l.cnt) = Steps(f, 0, l.cnt - 1) /\ Ran(f, n.cnt) = Steps(f, 0, j)
    BY <1>1, <1>4, <2>1, <2>3 DEF Ran
  <2>5. Steps(f, 0, l.cnt - 1) \o Steps(f, l.cnt, j) = Steps(f, 0, j)
    <3>1. l.cnt \in Nat /\ j \in Int /\ l.cnt <= j + 1
      BY <1>1, <2>1
    <3> QED
      BY <3>1, StepsJoin
  <2>6. /\ Steps(f, 0, l.cnt - 1) \in Seq(Moves) /\ Steps(f, l.cnt, j) \in Seq(Moves)
    BY <1>1, <2>1, StepsSeq
  <2>7. n.done = s \o Ran(f, n.cnt)
    <3> DEFINE a == Steps(f, 0, l.cnt - 1)
               b == Steps(f, l.cnt, j)
    <3>1. a \in Seq(Moves) /\ b \in Seq(Moves) /\ l.done = s \o a
          /\ Ran(f, n.cnt) = a \o b /\ n.done = l.done \o b
      BY <2>3, <2>4, <2>5, <2>6
    <3> HIDE DEF a, b
    <3>2. l.done \o b = s \o Ran(f, n.cnt)
      BY <3>1, StepsAssociative
    <3> QED
      BY <3>1, <3>2
  <2>8. n.fin => l.fin \/ n.cnt > N
    <3> SUFFICES ASSUME ~l.fin, ~(n.cnt > N) PROVE ~n.fin
      OBVIOUS
    <3>1. (l.fin \/ j = N) = FALSE
      BY <1>1, <2>1, <2>3
    <3> QED
      BY <2>3, <3>1
  <2> QED
    BY <1>2, <2>1, <2>3, <2>7, <2>8
<1> QED
  BY <1>1, <1>3, <1>4

\* No step has run when a flow starts, ...
LEMMA RanNone == \A f \in Func : Ran(f, 0) = <<>>
<1> SUFFICES ASSUME NEW f \in Func PROVE Ran(f, 0) = <<>>
  OBVIOUS
<1>1. Ran(f, 0) = Steps(f, 0, -1)
  <2>1. Len(Flow(f)) \in Nat /\ 0 - 1 = -1 /\ -1 <= Len(Flow(f))
    BY Flows
  <2> QED
    BY <2>1 DEF Ran
<1>2. Steps(f, 0, -1) \in Seq(Moves) /\ Len(Steps(f, 0, -1)) = 0
  <2>1. -1 \in Int /\ 0 \in Int /\ 0 <= -1 + 1 /\ -1 - 0 + 1 = 0
    OBVIOUS
  <2> QED
    BY <2>1, StepsSeq
<1> QED
  BY <1>1, <1>2, EmptySeq

\* ... and all have when it has gone beyond its end.
LEMMA RanSeq ==
  ASSUME NEW f \in Func, NEW n \in Nat
  PROVE  Ran(f, n) \in Seq(Moves) /\ AllOf(f) \in Seq(Moves)
         /\ (n > Len(Flow(f)) => Ran(f, n) = AllOf(f))
<1> DEFINE N == Len(Flow(f))
           j == IF n - 1 <= N THEN n - 1 ELSE N
<1>1. N \in Nat
  BY Flows
<1>2. j \in Int /\ 0 <= j + 1 /\ (n > N => j = N)
  BY <1>1
<1>3. Steps(f, 0, j) \in Seq(Moves) /\ Steps(f, 0, N) \in Seq(Moves)
  <2> HIDE DEF j, N
  <2> QED
    BY <1>1, <1>2, StepsSeq
<1>4. Ran(f, n) = Steps(f, 0, j) /\ AllOf(f) = Steps(f, 0, N)
  BY DEF Ran, AllOf
<1> HIDE DEF j, N
<1>5. Ran(f, n) \in Seq(Moves) /\ AllOf(f) \in Seq(Moves) /\ (n > N => Ran(f, n) = AllOf(f))
  BY <1>2, <1>3, <1>4
<1> QED
  BY <1>5 DEF N

\* A call of a flow starts no timer but the panel's, and none at its end.
FlowStarts(m, n, h, over) ==
  /\ n.func = m.func /\ n.stats = m.stats /\ n.used = m.used
  /\ \/ n.run = m.run
     \/ ~over /\ h \in m.used /\ n.run = m.run \cup {h}

\* What a call of a flow does to the timers.
LEMMA FlowStart ==
  ASSUME NEW l, IsLcd(l), NEW m \in TimerState, NEW f, NEW n, n = FlowTm(l, f, m)
  PROVE  FlowStarts(m, n, l.hd, ~l.fin /\ FlowLcd(l, f).fin)
<1>1. CASE FlowEnds(l, f)
  <2>1. n = m
    BY <1>1 DEF FlowTm
  <2> QED
    BY <2>1 DEF FlowStarts
<1>2. CASE ~FlowEnds(l, f)
  <2>1. n = Start(m, l.hd) /\ l.hd \in Handle
    BY <1>2 DEF FlowTm, IsLcd
  <2>2. Started(m, l.hd, n)
    BY <2>1, StartEffect
  <2>3. ~(~l.fin /\ FlowLcd(l, f).fin)
    <3>1. ~(l.cnt > Len(Flow(f))) /\ StopsAt(f, l.cnt) # Len(Flow(f))
      BY <1>2 DEF FlowEnds
    <3>2. FlowLcd(l, f).fin = (l.fin \/ StopsAt(f, l.cnt) = Len(Flow(f)))
      BY <3>1, FlowFields
    <3> QED
      BY <3>1, <3>2
  <2> QED
    BY <2>2, <2>3 DEF Started, FlowStarts
<1> QED
  BY <1>1, <1>2

\* A sequence is a prefix of what it is continued to.
LEMMA PrefixOf ==
  ASSUME NEW s \in Seq(Moves), NEW x \in Seq(Moves), NEW d, d = s \o x
  PROVE  IsPrefix(s, d)
<1>1. /\ d \in Seq(Moves) /\ Len(d) = Len(s) + Len(x)
      /\ \A k \in 1 .. Len(s) : d[k] = s[k]
  BY ConcatProperties
<1>2. Len(s) \in Nat /\ Len(x) \in Nat
  OBVIOUS
<1>3. Len(s) <= Len(d) /\ 1 \in 1 .. Len(d) + 1 /\ Len(s) \in 0 .. Len(d)
  BY <1>1, <1>2
<1>4. SubSeq(s, 1, Len(s)) = s
  <2>1. /\ SubSeq(s, 1, Len(s)) \in Seq(Moves) /\ Len(SubSeq(s, 1, Len(s))) = Len(s)
        /\ \A k \in 1 .. Len(s) : SubSeq(s, 1, Len(s))[k] = s[k]
    OBVIOUS
  <2> QED
    BY <2>1, SeqEqual
<1>5. SubSeq(d, 1, Len(s)) = s
  <2>1. /\ SubSeq(d, 1, Len(s)) \in Seq(Moves) /\ Len(SubSeq(d, 1, Len(s))) = Len(s)
        /\ \A k \in 1 .. Len(s) : SubSeq(d, 1, Len(s))[k] = d[k]
    BY <1>1, <1>2, <1>3
  <2> QED
    BY <1>1, <2>1, SeqEqual
<1> QED
  BY <1>3, <1>4, <1>5 DEF IsPrefix

\* The steps that have run are followed by those still to come.
LEMMA RanPrefix ==
  ASSUME NEW f \in Func, NEW n \in Nat
  PROVE  \E x \in Seq(Moves) : AllOf(f) = Ran(f, n) \o x
<1> DEFINE N == Len(Flow(f))
<1>1. N \in Nat
  BY Flows
<1>2. CASE n - 1 <= N
  <2>1. n \in Nat /\ N \in Int /\ n <= N + 1
    BY <1>1, <1>2
  <2>2. Steps(f, 0, n - 1) \o Steps(f, n, N) = Steps(f, 0, N)
    BY <2>1, StepsJoin
  <2>3. Steps(f, n, N) \in Seq(Moves)
    BY <2>1, StepsSeq
  <2> QED
    BY <1>2, <2>2, <2>3 DEF Ran, AllOf
<1>3. CASE ~(n - 1 <= N)
  <2>1. Ran(f, n) = AllOf(f) /\ AllOf(f) \in Seq(Moves)
    BY <1>1, <1>3, RanSeq
  <2>2. AllOf(f) \o <<>> = AllOf(f)
    BY <2>1, ConcatEmptySeq
  <2>3. <<>> \in Seq(Moves) /\ AllOf(f) = Ran(f, n) \o <<>>
    BY <2>1, <2>2
  <2> QED
    BY <2>3
<1> QED
  BY <1>2, <1>3

----------------------------------------------------------------------------
(* What the steps of others do to the timers of the panel: one may be      *)
(* given to the detection, none starts to count, and none that calls the   *)
(* closing flow is enabled.                                                *)
Live(m) == m.run \cup m.stats
MildAt(m, n, t) ==
  /\ n.func[t] \in {m.func[t], UsbFn}
  /\ n.func[t] = OpenFn =>
       /\ t \in Live(n) => t \in Live(m)
       /\ t \in n.run /\ t \in n.stats => t \in m.run /\ t \in m.stats
FirmAt(m, n, t) == n.func[t] = CloseFn /\ t \in n.ctrl => t \in m.ctrl
Mild(m, n) == \A t \in Timer : MildAt(m, n, t)
Firm(m, n) == \A t \in Timer : FirmAt(m, n, t)
Gentle(m, n) == Mild(m, n) /\ Firm(m, n)

\* One such step after another.
LEMMA GentleTrans ==
  ASSUME NEW m, NEW n, NEW k, Gentle(m, n), Gentle(n, k)
  PROVE  Gentle(m, k)
<1> SUFFICES ASSUME NEW t \in Timer PROVE MildAt(m, k, t) /\ FirmAt(m, k, t)
  BY DEF Gentle, Mild, Firm
<1>1. MildAt(m, n, t) /\ MildAt(n, k, t) /\ FirmAt(m, n, t) /\ FirmAt(n, k, t)
  BY DEF Gentle, Mild, Firm
<1>2. UsbFn \notin {OpenFn, CloseFn}
  BY FuncTypes
<1> QED
  BY <1>1, <1>2 DEF MildAt, FirmAt

\* Stopping timers, clearing bits, ...
LEMMA MildLess ==
  ASSUME NEW m, NEW n, n.func = m.func, n.run \subseteq m.run, n.stats \subseteq m.stats
  PROVE  Mild(m, n) /\ (n.ctrl \subseteq m.ctrl => Gentle(m, n))
  BY DEF Gentle, Mild, MildAt, Firm, FirmAt, Live

\* ... enabling and disabling interrupts, and the entry of a handler, ...
LEMMA GentleInt ==
  ASSUME NEW m \in TimerState
  PROVE  /\ \A irq : /\ Gentle(m, EnableInt(m, irq)) /\ Gentle(m, DisableInt(m, irq))
                     /\ EnableInt(m, irq).ctrl = m.ctrl /\ DisableInt(m, irq).ctrl = m.ctrl
         /\ \A t \in Timer : /\ Gentle(m, TakeTimerInt(m, t)) /\ TakeTimerInt(m, t) \in TimerState
                             /\ ClearStat(m, t).ctrl = m.ctrl
<1>1. ASSUME NEW irq, NEW n \in TimerState
      PROVE  /\ Gentle(n, EnableInt(n, irq)) /\ Gentle(n, DisableInt(n, irq))
             /\ EnableInt(n, irq).ctrl = n.ctrl /\ DisableInt(n, irq).ctrl = n.ctrl
  <2>1. Same(n, EnableInt(n, irq)) /\ Same(n, DisableInt(n, irq))
    BY <1>1, IntSame
  <2>2. EnableInt(n, irq).ctrl = n.ctrl /\ DisableInt(n, irq).ctrl = n.ctrl
    BY <1>1 DEF EnableInt, DisableInt, WriteSetEnable, TimerState
  <2> QED
    BY <2>1, <2>2, MildLess DEF Same
<1>2. ASSUME NEW t \in Timer
      PROVE  /\ Gentle(m, TakeTimerInt(m, t)) /\ TakeTimerInt(m, t) \in TimerState
             /\ ClearStat(m, t).ctrl = m.ctrl
  <2> DEFINE a == ClearStat(m, t)
  <2>1. Cleared(m, a) /\ Keeps(m, a) /\ Keeps(m, TakeTimerInt(m, t))
    BY ClearEffect, StatKeeps
  <2>2. a.ctrl = m.ctrl
    <3> DEFINE b == WriteStats(m, m.stats \cup {t})
    <3>1. b = [m EXCEPT !.stats = m.stats \ (m.stats \cup {t})]
      BY DEF WriteStats
    <3>2. a = [b EXCEPT !.lost = b.lost \cup ((m.stats \cap m.ctrl) \ {t})]
      BY DEF ClearStat
    <3> HIDE DEF b
    <3> QED
      BY <3>1, <3>2 DEF TimerState
  <2>3. Gentle(m, a)
    BY <2>1, <2>2, MildLess DEF Cleared
  <2>4. TakeTimerInt(m, t) = DisableInt(a, TimerIrqNo(t)) /\ a \in TimerState
    BY <2>1 DEF TakeTimerInt, Keeps
  <2> HIDE DEF a
  <2>5. Gentle(a, TakeTimerInt(m, t))
    BY <1>1, <2>4
  <2>6. Gentle(m, TakeTimerInt(m, t))
    BY <2>3, <2>5, GentleTrans
  <2> QED
    BY <2>1, <2>2, <2>6 DEF Keeps, a
<1> QED
  BY <1>1, <1>2

\* ... stopping and releasing a timer, ...
LEMMA GentleStop ==
  ASSUME NEW m \in TimerState, NEW h \in Handle
  PROVE  Gentle(m, Stop(m, h)) /\ Gentle(m, Release(m, h))
<1>1. Stopped(m, h, Stop(m, h)) /\ Released(m, h, Release(m, h))
  BY StopEffect, ReleaseEffect
<1>2. Stop(m, h).ctrl \subseteq m.ctrl /\ Release(m, h).ctrl \subseteq m.ctrl
  <2>1. CASE h \notin m.used
    BY <2>1 DEF Stop, Release
  <2>2. CASE h \in m.used
    <3>1. h \in Timer
      BY <2>2, InUse
    <3> DEFINE a == [m EXCEPT !.run = m.run \ {h}]
               b == ClearStat(a, h)
               c == DisableInt(b, TimerIrqNo(h))
               d == [m EXCEPT !.run = m.run \ {h}, !.ctrl = m.ctrl \ {h}]
               e == DisableInt(d, TimerIrqNo(h))
    <3>2. a \in TimerState /\ a.ctrl = m.ctrl /\ d \in TimerState /\ d.ctrl = m.ctrl \ {h}
      BY DEF TimerState
    <3>3. /\ Stop(m, h) = [c EXCEPT !.ctrl = c.ctrl \ {h}]
          /\ Release(m, h) = [e EXCEPT !.used = e.used \ {h}]
      BY <2>2 DEF Stop, Release
    <3> HIDE DEF a, d
    <3>4. b.ctrl = m.ctrl /\ b \in TimerState /\ e \in TimerState /\ e.ctrl = d.ctrl
      BY <3>1, <3>2, GentleInt, StatKeeps, IntKeeps, TimerIrq DEF Keeps
    <3> HIDE DEF b
    <3>5. c \in TimerState /\ c.ctrl = m.ctrl
      BY <3>1, <3>4, GentleInt, IntKeeps, TimerIrq DEF Keeps
    <3> HIDE DEF c, e
    <3> QED
      BY <3>2, <3>3, <3>4, <3>5 DEF TimerState
  <2> QED
    BY <2>1, <2>2
<1> QED
  BY <1>1, <1>2, MildLess DEF Stopped, Released

\* ... starting one that calls the detection, ...
LEMMA GentleStart ==
  ASSUME NEW m \in TimerState, NEW h \in Handle, h # NoTimer => m.func[h] = UsbFn
  PROVE  Gentle(m, Start(m, h))
<1>1. CASE h \notin m.used
  <2>1. Start(m, h) = m
    BY <1>1 DEF Start
  <2> QED
    BY <2>1, MildLess
<1>2. CASE h \in m.used
  <2> DEFINE n == Start(m, h)
  <2>1. h \in Timer /\ h # NoTimer
    BY <1>2, InUse DEF NoTimer, Timer
  <2>2. Started(m, h, n)
    BY StartEffect
  <2>3. n.ctrl = m.ctrl \cup {h}
    <3> DEFINE a == EnableInt(m, TimerIrqNo(h))
    <3>1. a \in TimerState /\ a.ctrl = m.ctrl
      BY <2>1, GentleInt, IntKeeps, TimerIrq DEF Keeps
    <3>2. n = [a EXCEPT !.ctrl = a.ctrl \cup {h}, !.run = a.run \cup {h},
                        !.fresh = a.fresh \cup {h}, !.lost = a.lost \ {h}]
      BY <1>2 DEF Start
    <3> HIDE DEF a
    <3> QED
      BY <3>1, <3>2 DEF TimerState
  <2> HIDE DEF n
  <2>4. m.func[h] = UsbFn /\ UsbFn \notin {OpenFn, CloseFn}
    BY <2>1, FuncTypes
  <2>5. n.func = m.func /\ n.run = m.run \cup {h} /\ n.stats = m.stats
    BY <1>2, <2>2 DEF Started
  <2>6. Gentle(m, n)
    BY <2>3, <2>4, <2>5 DEF Gentle, Mild, MildAt, Firm, FirmAt, Live
  <2> QED
    BY <2>6 DEF n
<1> QED
  BY <1>1, <1>2

\* ... requesting one for it, ...
LEMMA GentleRequest ==
  ASSUME NEW m \in TimerState, NEW h, h = RequestHandle(m), NEW n, n = Request(m, UsbFn)
  PROVE  /\ Gentle(m, n) /\ n \in TimerState /\ h \in Handle
         /\ h # NoTimer => n.func[h] = UsbFn
<1>1. n \in TimerState /\ h \in Handle /\ (h # NoTimer => n.func[h] = UsbFn)
  BY Requests, FuncTypes
<1>2. CASE h = NoTimer
  <2>1. n = m
    BY <1>2 DEF Request
  <2> QED
    BY <1>1, <2>1, MildLess
<1>3. CASE h # NoTimer
  <2>1. n = [m EXCEPT !.used = m.used \cup {h}, !.ctrl = m.ctrl \ {h},
                      !.run = m.run \ {h}, !.func = [m.func EXCEPT ![h] = UsbFn]]
    BY <1>3 DEF Request, TimerState
  <2>2. /\ n.ctrl = m.ctrl \ {h} /\ n.run = m.run \ {h} /\ n.stats = m.stats
        /\ n.func = [m.func EXCEPT ![h] = UsbFn]
    BY <2>1 DEF TimerState
  <2>3. \A t \in Timer : n.func[t] = IF t = h THEN UsbFn ELSE m.func[t]
    BY <2>2 DEF TimerState
  <2>4. Gentle(m, n)
    <3>1. UsbFn \notin {OpenFn, CloseFn}
      BY FuncTypes
    <3> QED
      BY <2>2, <2>3, <3>1 DEF Gentle, Mild, MildAt, Firm, FirmAt, Live
  <2> QED
    BY <1>1, <2>4
<1> QED
  BY <1>2, <1>3

\* ... the end of a timer, ...
LEMMA GentleExpire ==
  ASSUME NEW m \in TimerState, NEW t \in Timer, t \in m.run
  PROVE  Gentle(m, Expire(m, t))
<1>1. /\ Expire(m, t).func = m.func /\ Expire(m, t).run = m.run \ {t}
      /\ Expire(m, t).stats = m.stats \cup {t} /\ Expire(m, t).ctrl = m.ctrl
  BY DEF Expire, TimerState
<1> QED
  BY <1>1 DEF Gentle, Mild, MildAt, Firm, FirmAt, Live

\* ... the exit of the detection ...
LEMMA GentleExit ==
  ASSUME NEW u, IsUsb(u), NEW m \in TimerState
  PROVE  Gentle(m, ExitTm(u, m))
<1> DEFINE a == DisableInt(m, "usb")
           b == Stop(a, u.hd)
<1>1. u.hd \in Handle /\ "usb" \in Irq
  BY DEF IsUsb, Irq
<1>2. a \in TimerState /\ Gentle(m, a)
  BY <1>1, IntKeeps, GentleInt DEF Keeps
<1>3. b \in TimerState /\ Gentle(a, b)
  <2> HIDE DEF a
  <2> QED
    BY <1>1, <1>2, StartStopKeeps, GentleStop DEF Keeps
<1>4. ExitTm(u, m) = Release(b, u.hd)
  BY DEF ExitTm
<1> HIDE DEF a, b
<1>5. Gentle(b, ExitTm(u, m))
  BY <1>1, <1>3, <1>4, GentleStop
<1> QED
  BY <1>2, <1>3, <1>5, GentleTrans

\* ... and its entry are all of this kind.
LEMMA GentleEnter ==
  ASSUME NEW u, IsUsb(u), NEW m \in TimerState, u.hd # NoTimer => m.func[u.hd] = UsbFn
  PROVE  Gentle(m, EnterTm(u, m))
<1> DEFINE r == IF u.hd = NoTimer THEN RequestHandle(m) ELSE u.hd
           a == IF u.hd = NoTimer THEN Request(m, UsbFn) ELSE m
<1>1. r \in Handle /\ a \in TimerState /\ Gentle(m, a) /\ (r # NoTimer => a.func[r] = UsbFn)
  <2>1. CASE u.hd = NoTimer
    BY <2>1, GentleRequest
  <2>2. CASE u.hd # NoTimer
    BY <2>2, MildLess DEF IsUsb
  <2> QED
    BY <2>1, <2>2
<1>2. EnterUsb(u, m) = [u EXCEPT !.working = TRUE, !.conn = TRUE, !.seen = FALSE,
                                 !.hd = r, !.young = u.young \cup {r}]
      /\ EnterTm(u, m) = EnableInt(Start(a, EnterUsb(u, m).hd), "usb")
  BY DEF EnterUsb, EnterTm
<1> HIDE DEF r, a
<1>3. EnterUsb(u, m).hd = r
  BY <1>2 DEF IsUsb
<1>4. Gentle(a, Start(a, r)) /\ Start(a, r) \in TimerState
  BY <1>1, GentleStart, StartStopKeeps DEF Keeps
<1>5. Gentle(Start(a, r), EnterTm(u, m))
  BY <1>2, <1>3, <1>4, GentleInt
<1> QED
  BY <1>1, <1>4, <1>5, GentleTrans

----------------------------------------------------------------------------
(* Where the procedures of the main program come back to, and that nothing *)
(* has happened before the display is switched on.                         *)
Leaving == {"leave", "leave_clock", "leave_stop", "leave_release", "leave_store"}
Homes == {"", "charge", "detect", "battery", "os", "poll", "exit", "delay", "standby",
          "done"}
Legal == /\ main.then \in Homes
         /\ main.then = "done" => main.pc \in {"release"} \cup Leaving
Beginning == main.pc = "display" => tm = TimerInit /\ ~main.panel
\* The panel is being switched off, or boot1 about to leave.
AtEnd == \/ main.pc \in {"close_store", "close_first", "uninstall", "uninstall_clear", "done"}
         \/ main.then = "done"
Closes == {"close_store", "close_first"}

\* The moves of the main program between its calls, calls and returns.
Moved(p, r) == main'.pc = p /\ main'.then = r /\ main'.panel = main.panel
Returned == Moved(main.then, "")

LEMMA Moving ==
  ASSUME IsMain(main)
  PROVE  /\ \A q : Goto(q) => Moved(q, main.then)
         /\ \A q, r : Call(q, r) => Moved(q, r)
         /\ Back => Returned
         /\ \A q, x : Return(x, q) => Moved(q, main.then)
         /\ \A q : LoadFlags(q) => Moved(q, main.then)
         /\ \A b, q, p : StoreFlags(b, q, p) => Moved(p, main.then)
         /\ \A q : Exit(q) => Moved(q, main.then)
         /\ \A op, h, f, p : CallTimer(op, h, f, p) => Moved(p, main.then)
  BY DEF IsMain, Goto, Call, Back, Return, LoadFlags, StoreFlags, Exit, CallTimer, Moved,
     Returned

\* Steps of the main program by where they lead.
Goes ==
  \/ Returned /\ main.pc \notin {"uninstall", "uninstall_clear", "done"} \cup Closes
  \/ main.pc \in Leaving /\ main'.pc \in Leaving /\ main'.then = main.then
  \/ main.pc = "release" /\ main'.pc = "leave" /\ main'.then = main.then
  \/ main.pc \in {"uninstall", "uninstall_clear"} /\ Moved("release", "done")
  \/ main.pc = "uninstall" /\ Moved("uninstall_clear", main.then)
  \/ main.pc \notin Leaving \cup {"release", "uninstall", "uninstall_clear", "done"} \cup Closes
     /\ main'.pc \notin Closes \cup {"display"} /\ main'.then \in Homes \ {"done"}

LEMMA Going2 ==
  ASSUME IsMain(main), Legal,
         \/ Quiet \/ EnterSet \/ EnterRequest \/ EnterStore \/ EnterStart \/ EnterConnect
         \/ ExitClear \/ ExitClock \/ ExitStop \/ ExitRelease \/ ExitStore \/ ReleasePower
         \/ RegisterPower \/ PollLong \/ StandbyEnter \/ Wake \/ WaitFinished \/ WaitClear
         \/ Uninstall \/ UninstallClear
  PROVE  Goes /\ main'.panel = main.panel
<1>1. CASE CheckPower
  <2>1. /\ main.pc = "power"
        /\ \/ Moved("exit", main.then)
           \/ Moved("os", main.then)
           \/ Moved("wait", "charge")
    BY <1>1, Moving DEF CheckPower
  <2> QED
    BY <2>1 DEF Goes, Moved, Returned, Legal, Homes, Leaving, Closes
<1>2. CASE WaitGivesUp
  <2>1. main.pc = "wait" /\ Returned
    BY <1>2, Moving DEF WaitGivesUp
  <2> QED
    BY <2>1 DEF Goes, Moved, Returned, Legal, Homes, Leaving, Closes
<1>3. CASE EnterTest
  <2>1. main.pc = "enter" /\ (Returned \/ Moved("enter_set", main.then))
    BY <1>3, Moving DEF EnterTest
  <2> QED
    BY <2>1 DEF Goes, Moved, Returned, Legal, Homes, Leaving, Closes
<1>4. CASE StartCharge
  <2>1. main.pc = "charge" /\ Moved("register", "detect")
    BY <1>4, Moving DEF StartCharge
  <2> QED
    BY <2>1 DEF Goes, Moved, Returned, Legal, Homes, Leaving, Closes
<1>5. CASE FirstDetect
  <2>1. main.pc = "detect" /\ Moved("enter", "battery")
    BY <1>5, Moving DEF FirstDetect
  <2> QED
    BY <2>1 DEF Goes, Moved, Returned, Legal, Homes, Leaving, Closes
<1>6. CASE Battery
  <2>1. main.pc = "battery" /\ (Moved("poll", main.then) \/ Moved("release", "os"))
    BY <1>6, Moving DEF Battery
  <2> QED
    BY <2>1 DEF Goes, Moved, Returned, Legal, Homes, Leaving, Closes
<1>7. CASE PollShort
  <2>1. main.pc = "poll" /\ Moved("clear_short", main.then)
    BY <1>7, Moving DEF PollShort
  <2> QED
    BY <2>1 DEF Goes, Moved, Returned, Legal, Homes, Leaving, Closes
<1>8. CASE PollEnds
  <2>1. main.pc = "poll" /\ Moved("standby", main.then)
    BY <1>8, Moving DEF PollEnds
  <2> QED
    BY <2>1 DEF Goes, Moved, Returned, Legal, Homes, Leaving, Closes
<1>9. CASE StandbyVbus
  <2>1. main.pc = "standby" /\ Moved("clear_vbus", main.then)
    BY <1>9, Moving DEF StandbyVbus
  <2> QED
    BY <2>1 DEF Goes, Moved, Returned, Legal, Homes, Leaving, Closes
<1>10. CASE Case8
  <2>1. main.pc = "case8" /\ Moved("enter", "delay")
    BY <1>10, Moving DEF Case8
  <2> QED
    BY <2>1 DEF Goes, Moved, Returned, Legal, Homes, Leaving, Closes
<1>11. CASE Delay8
  <2>1. main.pc = "delay" /\ Moved("leave", "standby")
    BY <1>11, Moving DEF Delay8
  <2> QED
    BY <2>1 DEF Goes, Moved, Returned, Legal, Homes, Leaving, Closes
<1>12. CASE StoreFlags("short", "clear_short", "poll")
  <2>1. main.pc = "clear_short" /\ Moved("poll", main.then)
    BY <1>12, Moving DEF StoreFlags
  <2> QED
    BY <2>1 DEF Goes, Moved, Returned, Legal, Homes, Leaving, Closes
<1>13. CASE StoreFlags("vbus", "clear_vbus", "case8")
  <2>1. main.pc = "clear_vbus" /\ Moved("case8", main.then)
    BY <1>13, Moving DEF StoreFlags
  <2> QED
    BY <2>1 DEF Goes, Moved, Returned, Legal, Homes, Leaving, Closes
<1>14. CASE DetectOs
  <2>1. main.pc = "os" /\ (Moved("wait", "exit") \/ Moved("exit", main.then))
    BY <1>14 DEF DetectOs, IsMain, Moved, Return
  <2> QED
    BY <2>1 DEF Goes, Moved, Returned, Legal, Homes, Leaving, Closes
<1>15. CASE PanelOff
  <2>1. main.pc = "exit" /\ (Moved("uninstall", main.then) \/ Moved("close", main.then))
    BY <1>15, Moving DEF PanelOff
  <2> QED
    BY <2>1 DEF Goes, Moved, Returned, Legal, Homes, Leaving, Closes
<1>16. CASE EnterSet
  <2>1. /\ main.pc = "enter_set"
        /\ \/ Moved("enter_request", main.then)
           \/ Moved("enter_start", main.then)
    BY <1>16 DEF EnterSet, Goto, IsMain, Moved
  <2> QED
    BY <2>1 DEF Goes, Moved, Returned, Legal, Homes, Leaving, Closes
<1>17. CASE EnterRequest
  <2>1. main.pc = "enter_request" /\ Moved("enter_store", main.then)
    BY <1>17, Moving DEF EnterRequest
  <2> QED
    BY <2>1 DEF Goes, Moved, Returned, Legal, Homes, Leaving, Closes
<1>18. CASE EnterStore
  <2>1. main.pc = "enter_store" /\ Moved("enter_start", main.then)
    BY <1>18, Moving DEF EnterStore
  <2> QED
    BY <2>1 DEF Goes, Moved, Returned, Legal, Homes, Leaving, Closes
<1>19. CASE EnterStart
  <2>1. main.pc = "enter_start" /\ Moved("enter_connect", main.then)
    BY <1>19, Moving DEF EnterStart
  <2> QED
    BY <2>1 DEF Goes, Moved, Returned, Legal, Homes, Leaving, Closes
<1>20. CASE EnterConnect
  <2>1. main.pc = "enter_connect" /\ Returned
    BY <1>20, Moving DEF EnterConnect
  <2> QED
    BY <2>1 DEF Goes, Moved, Returned, Legal, Homes, Leaving, Closes
<1>21. CASE ExitClear
  <2>1. main.pc = "leave" /\ Moved("leave_clock", main.then)
    BY <1>21, Moving DEF ExitClear
  <2> QED
    BY <2>1 DEF Goes, Moved, Returned, Legal, Homes, Leaving, Closes
<1>22. CASE ExitClock
  <2>1. main.pc = "leave_clock" /\ (Returned \/ Moved("leave_stop", main.then))
    BY <1>22 DEF ExitClock, Back, IsMain, Moved, Returned
  <2> QED
    BY <2>1 DEF Goes, Moved, Returned, Legal, Homes, Leaving, Closes
<1>23. CASE ExitStop
  <2>1. main.pc = "leave_stop" /\ Moved("leave_release", main.then)
    BY <1>23, Moving DEF ExitStop
  <2> QED
    BY <2>1 DEF Goes, Moved, Returned, Legal, Homes, Leaving, Closes
<1>24. CASE ExitRelease
  <2>1. main.pc = "leave_release" /\ Moved("leave_store", main.then)
    BY <1>24, Moving DEF ExitRelease
  <2> QED
    BY <2>1 DEF Goes, Moved, Returned, Legal, Homes, Leaving, Closes
<1>25. CASE ExitStore
  <2>1. main.pc = "leave_store" /\ Returned
    BY <1>25, Moving DEF ExitStore
  <2> QED
    BY <2>1 DEF Goes, Moved, Returned, Legal, Homes, Leaving, Closes
<1>26. CASE ReleasePower
  <2>1. main.pc = "release" /\ Moved("leave", main.then)
    BY <1>26, Moving DEF ReleasePower
  <2> QED
    BY <2>1 DEF Goes, Moved, Returned, Legal, Homes, Leaving, Closes
<1>27. CASE RegisterPower
  <2>1. main.pc = "register" /\ Returned
    BY <1>27, Moving DEF RegisterPower
  <2> QED
    BY <2>1 DEF Goes, Moved, Returned, Legal, Homes, Leaving, Closes
<1>28. CASE PollLong
  <2>1. main.pc = "poll" /\ Moved("register", "os")
    BY <1>28, Moving DEF PollLong
  <2> QED
    BY <2>1 DEF Goes, Moved, Returned, Legal, Homes, Leaving, Closes
<1>29. CASE StandbyEnter
  <2>1. main.pc = "standby" /\ Moved("asleep", main.then)
    BY <1>29, Moving DEF StandbyEnter
  <2> QED
    BY <2>1 DEF Goes, Moved, Returned, Legal, Homes, Leaving, Closes
<1>30. CASE Wake
  <2>1. /\ main.pc = "asleep"
        /\ \/ Moved("register", "poll")
           \/ Moved("register", "os")
           \/ Moved("register", "exit")
           \/ Moved("enter", "delay")
           \/ Moved("standby", main.then)
    BY <1>30 DEF Wake, Call, Goto, IsMain, Moved
  <2> QED
    BY <2>1 DEF Goes, Moved, Returned, Legal, Homes, Leaving, Closes
<1>31. CASE WaitFinished
  <2>1. main.pc = "wait" /\ Moved("wait_clear", main.then)
    BY <1>31, Moving DEF WaitFinished
  <2> QED
    BY <2>1 DEF Goes, Moved, Returned, Legal, Homes, Leaving, Closes
<1>32. CASE WaitClear
  <2>1. main.pc = "wait_clear" /\ Returned
    BY <1>32, Moving DEF WaitClear
  <2> QED
    BY <2>1 DEF Goes, Moved, Returned, Legal, Homes, Leaving, Closes
<1>33. CASE Uninstall
  <2>1. /\ main.pc = "uninstall"
        /\ \/ Moved("uninstall_clear", main.then)
           \/ Moved("release", "done")
    BY <1>33, Moving DEF Uninstall
  <2> QED
    BY <2>1 DEF Goes, Moved, Returned, Legal, Homes, Leaving, Closes
<1>34. CASE UninstallClear
  <2>1. main.pc = "uninstall_clear" /\ Moved("release", "done")
    BY <1>34, Moving DEF UninstallClear
  <2> QED
    BY <2>1 DEF Goes, Moved, Returned, Legal, Homes, Leaving, Closes
<1> QED
  BY <1>1, <1>2, <1>3, <1>4, <1>5, <1>6, <1>7, <1>8, <1>9, <1>10, <1>11, <1>12, <1>13, <1>14, <1>15, <1>16,
     <1>17, <1>18, <1>19, <1>20, <1>21, <1>22, <1>23, <1>24, <1>25, <1>26, <1>27, <1>28, <1>29, <1>30, <1>31, <1>32, <1>33, <1>34 DEF Quiet

\* Steps that leave the main program where it is.
Elsewhere == \/ CallTake \/ CallStore \/ CallFree \/ Interrupt
             \/ ChangePlug \/ PressKey \/ TimePasses
             \/ (\E t \in Timer : TimerExpires(t)) \/ UNCHANGED vars
LEMMA Stays ==
  ASSUME IsMain(main), Elsewhere
  PROVE  Moved(main.pc, main.then)
<1>1. CASE CallTake \/ CallStore \/ CallFree
  BY <1>1 DEF CallTake, CallStore, CallFree, IsMain, Moved
<1>2. CASE UNCHANGED main
  BY <1>2 DEF Moved
<1> QED
  BY <1>1, <1>2 DEF Elsewhere, Interrupt, PanelTimer, UsbTimer, UsbReset, PowerInt,
     PowerIntFails, ChangePlug, PressKey, TimePasses, TimerExpires, vars

\* No step leads to a place with a return nobody gave it.
LEMMA LegalStep ==
  ASSUME Types, Legal, Beginning, [Next]_vars
  PROVE  Legal' /\ Beginning'
<1> USE DEF Types
<1>1. CASE Goes
  <2>1. Legal'
    BY <1>1 DEF Legal, Goes, Moved, Returned, Homes, Leaving, Closes
  <2>2. main'.pc # "display"
    BY <1>1 DEF Legal, Goes, Moved, Returned, Homes, Leaving, Closes
  <2> QED
    BY <2>1, <2>2 DEF Beginning
<1>2. CASE OpenDisplay \/ CloseRequest \/ CloseStore \/ CloseFirst
  <2>1. main.then # "done" /\ main'.then = main.then /\ main'.pc # "display"
    <3>1. CASE OpenDisplay
      BY <3>1 DEF OpenDisplay, IsMain, Legal, Leaving
    <3>2. CASE CloseRequest \/ CloseStore \/ CloseFirst
      BY <3>2, Moving DEF CloseRequest, CloseStore, CloseFirst, Moved, Legal, Leaving
    <3> QED
      BY <1>2, <3>1, <3>2
  <2> QED
    BY <2>1 DEF Legal, Beginning
<1>3. CASE Elsewhere
  <2>1. Moved(main.pc, main.then)
    BY <1>3, Stays
  <2>2. Legal'
    BY <2>1 DEF Legal, Moved
  <2>3. ASSUME main.pc = "display", tm = TimerInit PROVE UNCHANGED tm
    <3>1. tm.run = {} /\ tm.gic = {} /\ tm.stats = {}
      BY <2>3 DEF TimerInit
    <3>2. CASE CallTake \/ CallStore \/ CallFree
      <4>1. main.call # NoCall
        BY <3>2 DEF CallTake, CallStore, CallFree, NoCall
      <4> QED
        BY <2>3, <4>1 DEF Fits, CallAt
    <3>3. CASE ~(CallTake \/ CallStore \/ CallFree)
      BY <1>3, <3>1, <3>3 DEF Elsewhere, Interrupt, PanelTimer, UsbTimer, UsbReset, PowerInt,
         PowerIntFails, ChangePlug, PressKey, TimePasses, TimerExpires, vars, Pending, Nmi
    <3> QED
      BY <3>2, <3>3
  <2> QED
    BY <2>1, <2>2, <2>3 DEF Moved, Beginning
<1> QED
  BY <1>1, <1>2, <1>3, Going2 DEF Next, Main, Step, Quiet, Elsewhere

----------------------------------------------------------------------------
(* The order of the panel's steps.                                         *)
\* While the panel is switched on, its timer alone may call, and only once
\* between two starts; so none is left to call when the flow is over.
Opening ==
  /\ lcd.done = <<>> \o Ran(OpenFn, lcd.cnt)
  /\ lcd.fin => lcd.cnt > Len(OpenFlow)
  /\ ~main.panel => lcd.cnt = 0 /\ ~lcd.fin /\ \A t \in Timer : tm.func[t] # OpenFn
  /\ main.pc \notin Closes /\ (main.pc = "uninstall" => main.call = NoCall)
  /\ \A t \in Timer : tm.func[t] # CloseFn
  /\ \A t \in Live(tm) : tm.func[t] = OpenFn =>
       t = lcd.hd /\ ~lcd.fin /\ ~(t \in tm.run /\ t \in tm.stats)
\* While it is switched off, no timer calls the other flow, and none this one
\* before its handle is stored.
Opened == IF main.panel THEN AllOf(OpenFn) ELSE <<>>
Closing ==
  /\ AtEnd
  /\ lcd.done = Opened \o Ran(CloseFn, lcd.cnt)
  /\ \A t \in Live(tm) : tm.func[t] # OpenFn
  /\ IF main.pc = "close_store"
     THEN \A t \in Timer : tm.func[t] = CloseFn => main.call = NoCall /\ t \notin tm.ctrl
     ELSE /\ lcd.hd # NoTimer => tm.func[lcd.hd] # OpenFn
          /\ main.pc = "uninstall" /\ main.call # NoCall => main.call.t = lcd.hd

\* What has run so far, unless the panel was switched off before its flow was
\* over or a change at the plug met a call for a timer.
Ordered == lcd.cnt \in Nat /\ (Opening \/ Closing)
Order == ~lcd.mixed /\ ~plug.raced => Ordered

\* The steps of the panel itself.
Panel == \/ /\ main.call = NoCall
            /\ \/ OpenDisplay \/ WaitClear \/ CloseRequest \/ CloseStore \/ CloseFirst
               \/ UninstallClear
         \/ CallStore /\ main.pc \in {"close_store", "uninstall"}
         \/ \E t \in Timer : PanelTimer(t)

\* Where the steps of others lead.
Aside == /\ UNCHANGED lcd /\ main'.panel = main.panel
         /\ AtEnd => AtEnd'
         /\ Mild(tm, tm')
         /\ \/ /\ main'.pc = main.pc
               /\ main'.call # NoCall => main.call # NoCall /\ main'.call.t = main.call.t
               /\ main.pc = "close_store" => Firm(tm, tm')
            \/ /\ main.pc \notin Closes /\ main'.pc \notin Closes
               /\ main'.pc = "uninstall" => main'.call = NoCall

\* They keep the order.
LEMMA AsideOrder ==
  ASSUME tm' \in TimerState, lcd.hd \in Handle, Ordered, Aside
  PROVE  Ordered'
<1> SUFFICES lcd.cnt \in Nat /\ (Opening' \/ Closing')
  BY DEF Ordered, Aside
<1>1. lcd.cnt \in Nat /\ (Opening \/ Closing)
  BY DEF Ordered
<1>2. Live(tm') \subseteq Timer /\ UsbFn \notin {OpenFn, CloseFn} /\ OpenFn # CloseFn
  BY FnAssumption DEF Live, TimerState
<1>3. \A t \in Timer : MildAt(tm, tm', t)
  BY DEF Aside, Mild
<1>4. CASE Opening
  <2>1. \A t \in Timer : tm'.func[t] # CloseFn
    BY <1>2, <1>3, <1>4 DEF Opening, MildAt
  <2>2. ASSUME NEW t \in Live(tm'), tm'.func[t] = OpenFn
        PROVE  t = lcd.hd /\ ~lcd.fin /\ ~(t \in tm'.run /\ t \in tm'.stats)
    <3>1. MildAt(tm, tm', t) /\ tm'.func[t] # UsbFn
      BY <1>2, <1>3, <2>2
    <3>2. tm.func[t] = OpenFn /\ t \in Live(tm)
          /\ (t \in tm'.run /\ t \in tm'.stats => t \in tm.run /\ t \in tm.stats)
      BY <2>2, <3>1 DEF MildAt
    <3> QED
      BY <1>4, <3>2 DEF Opening
  <2>3. ~main.panel => \A t \in Timer : tm'.func[t] # OpenFn
    BY <1>2, <1>3, <1>4 DEF Opening, MildAt
  <2>4. /\ main'.pc \notin Closes /\ main'.panel = main.panel /\ lcd' = lcd
        /\ main'.pc = "uninstall" => main'.call = NoCall
    BY <1>4 DEF Opening, Aside
  <2>5. Opening'
    BY <1>4, <2>1, <2>2, <2>3, <2>4 DEF Opening
  <2> QED
    BY <1>1, <2>5
<1>5. CASE Closing
  <2>1. ASSUME NEW t \in Live(tm'), tm'.func[t] = OpenFn PROVE FALSE
    <3>1. MildAt(tm, tm', t) /\ tm'.func[t] # UsbFn
      BY <1>2, <1>3, <2>1
    <3>2. tm.func[t] = OpenFn /\ t \in Live(tm)
      BY <2>1, <3>1 DEF MildAt
    <3> QED
      BY <1>5, <3>2 DEF Closing
  <2>2. lcd'.done = Opened' \o Ran(CloseFn, lcd'.cnt) /\ AtEnd' /\ lcd' = lcd
    <3>1. Opened' = Opened /\ lcd' = lcd
      BY DEF Aside, Opened
    <3> QED
      BY <1>5, <3>1 DEF Closing, Aside
  <2>3. CASE main'.pc = "close_store"
    <3>1. /\ main.pc = "close_store" /\ Firm(tm, tm')
          /\ main'.call # NoCall => main.call # NoCall
      BY <2>3 DEF Aside, Closes
    <3>2. ASSUME NEW t \in Timer, tm'.func[t] = CloseFn
          PROVE  main'.call = NoCall /\ t \notin tm'.ctrl
      <4>1. tm.func[t] = CloseFn
        BY <1>2, <1>3, <3>2 DEF MildAt
      <4>2. main.call = NoCall /\ t \notin tm.ctrl
        BY <1>5, <3>1, <4>1 DEF Closing
      <4> QED
        BY <3>1, <3>2, <4>2 DEF Firm, FirmAt
    <3>3. Closing'
      BY <2>1, <2>2, <2>3, <3>2 DEF Closing
    <3> QED
      BY <1>1, <3>3
  <2>4. CASE main'.pc # "close_store"
    <3>1. main.pc # "close_store"
      BY <2>4 DEF Aside, Closes
    <3>2. ASSUME lcd.hd # NoTimer PROVE tm'.func[lcd.hd] # OpenFn
      <4>1. lcd.hd \in Timer /\ tm.func[lcd.hd] # OpenFn
        BY <1>5, <3>1, <3>2 DEF Closing, Handle
      <4> QED
        BY <1>2, <1>3, <4>1 DEF MildAt
    <3>3. ASSUME main'.pc = "uninstall", main'.call # NoCall PROVE main'.call.t = lcd.hd
      <4>1. main.pc = "uninstall" /\ main.call # NoCall /\ main'.call.t = main.call.t
        BY <3>3 DEF Aside
      <4> QED
        BY <1>5, <4>1 DEF Closing
    <3>4. Closing'
      BY <2>1, <2>2, <2>4, <3>2, <3>3 DEF Closing
    <3> QED
      BY <1>1, <3>4
  <2> QED
    BY <2>3, <2>4
<1> QED
  BY <1>1, <1>4, <1>5

----------------------------------------------------------------------------
(* All other steps lead aside.                                             *)
LEMMA EnteredMild ==
  ASSUME NEW m \in TimerState, NEW op, NEW h \in Handle, NEW n, n = Entered(m, op, h)
  PROVE  Mild(m, n)
<1>1. CASE op = "request" \/ h \notin m.used
  <2>1. n = m
    BY <1>1 DEF Entered
  <2> QED
    BY <2>1, MildLess
<1>2. CASE op # "request" /\ h \in m.used
  <2> DEFINE a == [m EXCEPT !.run = m.run \ {h}]
  <2>1. h \in Timer /\ a \in TimerState
    BY <1>2, InUse DEF TimerState
  <2>2. a.func = m.func /\ a.run \subseteq m.run /\ a.stats = m.stats
    BY DEF TimerState
  <2>3. n = IF op = "stop" THEN ClearStat(a, h) ELSE a
    BY <1>2 DEF Entered
  <2> HIDE DEF a
  <2>4. Cleared(a, ClearStat(a, h))
    BY <2>1, ClearEffect
  <2>5. n.func = m.func /\ n.run \subseteq m.run /\ n.stats \subseteq m.stats
    <3>1. CASE op = "stop"
      BY <2>2, <2>3, <2>4, <3>1 DEF Cleared
    <3>2. CASE op # "stop"
      BY <2>2, <2>3, <3>2
    <3> QED
      BY <3>1, <3>2
  <2> QED
    BY <2>5, MildLess
<1> QED
  BY <1>1, <1>2

LEMMA CallMild ==
  ASSUME tm \in TimerState, NEW op, NEW h \in Handle, NEW f, NEW p, CallTimer(op, h, f, p)
  PROVE  Mild(tm, tm')
  BY EnteredMild DEF CallTimer

LEMMA QuietCall ==
  ASSUME IsMain(main), Quiet
  PROVE  main'.call = main.call
<1>1. CASE CheckPower \/ WaitGivesUp \/ EnterTest \/ StartCharge \/ FirstDetect
  BY <1>1 DEF CheckPower, WaitGivesUp, EnterTest, StartCharge, FirstDetect, IsMain, Goto,
     Call, Back, Return
<1>2. CASE Battery \/ PollShort \/ PollEnds \/ StandbyVbus \/ Case8 \/ Delay8
  BY <1>2 DEF Battery, PollShort, PollEnds, StandbyVbus, Case8, Delay8, IsMain, Goto,
     Call, LoadFlags
<1>3. CASE \/ StoreFlags("short", "clear_short", "poll")
           \/ StoreFlags("vbus", "clear_vbus", "case8")
  BY <1>3 DEF StoreFlags, IsMain
<1>4. CASE DetectOs \/ PanelOff
  BY <1>4 DEF DetectOs, PanelOff, IsMain, Return, Exit
<1> QED
  BY <1>1, <1>2, <1>3, <1>4 DEF Quiet

\* The main program does not come back from the end.
LEMMA EndKept ==
  ASSUME IsMain(main), Legal, Goes, AtEnd
  PROVE  AtEnd'
<1>1. CASE Returned /\ main.pc \notin {"uninstall", "uninstall_clear", "done"} \cup Closes
  <2>1. main.then = "done"
    BY <1>1 DEF AtEnd, Closes, Legal, Leaving, Returned
  <2> QED
    BY <1>1, <2>1 DEF AtEnd, Moved, Returned
<1>2. CASE \/ main.pc \in Leaving /\ main'.pc \in Leaving /\ main'.then = main.then
           \/ main.pc = "release" /\ main'.pc = "leave" /\ main'.then = main.then
  BY <1>2 DEF AtEnd, Leaving
<1>3. CASE \/ main.pc \in {"uninstall", "uninstall_clear"} /\ Moved("release", "done")
           \/ main.pc = "uninstall" /\ Moved("uninstall_clear", main.then)
  BY <1>3 DEF AtEnd, Moved
<1>4. CASE main.pc \notin Leaving \cup {"release", "uninstall", "uninstall_clear", "done"}
                          \cup Closes
  BY <1>4 DEF AtEnd, Legal, Leaving, Closes
<1> QED
  BY <1>1, <1>2, <1>3, <1>4 DEF Goes

LEMMA AsideMain ==
  ASSUME Types, Legal, main.call = NoCall, Step
  PROVE  Aside \/ Panel
<1>1. /\ IsMain(main) /\ IsUsb(usb) /\ tm \in TimerState /\ main.hd \in Handle
      /\ usb.hd \in Handle /\ lcd.hd \in Handle /\ "usb" \in Irq /\ "nmi" \in Irq
  BY DEF Types, IsMain, IsUsb, IsLcd, Irq
<1>2. /\ \A irq : Mild(tm, EnableInt(tm, irq)) /\ Mild(tm, DisableInt(tm, irq))
      /\ Mild(tm, tm)
  BY <1>1, GentleInt, MildLess DEF Gentle
<1>3. ASSUME lcd' = lcd, Mild(tm, tm'), Goes, main'.panel = main.panel,
             main'.pc = "uninstall" => main'.call = NoCall
      PROVE  Aside
  <2>1. AtEnd => AtEnd'
    BY <1>1, <1>3, EndKept
  <2>2. main.pc \notin Closes /\ main'.pc \notin Closes
    BY <1>3 DEF Goes, Moved, Returned, Legal, Homes, Leaving, Closes
  <2> QED
    BY <1>3, <2>1, <2>2 DEF Aside
<1>4. CASE Quiet
  <2>1. UNCHANGED <<tm, lcd>>
    BY <1>4 DEF Quiet, CheckPower, WaitGivesUp, EnterTest, StartCharge, FirstDetect, Battery,
       PollShort, PollEnds, StandbyVbus, Case8, Delay8, StoreFlags, DetectOs, PanelOff
  <2> QED
    BY <1>1, <1>2, <1>3, <1>4, <2>1, Going2, QuietCall
<1>5. CASE EnterSet \/ EnterStore \/ ExitClear \/ ExitStore
  <2>1. lcd' = lcd /\ tm' = tm /\ main'.pc # "uninstall"
    <3>1. CASE EnterSet \/ EnterStore \/ ExitClear
      BY <1>1, <3>1 DEF EnterSet, EnterStore, ExitClear, Goto, IsMain
    <3>2. CASE ExitStore
      <4>1. main'.pc = main.then
        BY <1>1, <3>2 DEF ExitStore, Back, IsMain
      <4> QED
        BY <3>2, <4>1 DEF ExitStore, Legal, Homes
    <3> QED
      BY <1>5, <3>1, <3>2
  <2> QED
    BY <1>1, <1>2, <1>3, <1>5, <2>1, Going2
<1>6. CASE EnterRequest \/ EnterStart \/ ExitStop \/ ExitRelease \/ WaitFinished
  <2>1. lcd' = lcd /\ main'.pc # "uninstall" /\ Mild(tm, tm')
    <3>1. CASE EnterRequest
      <4>1. RequestHandle(tm) \in Handle
        BY <1>1, FuncTypes, Requests
      <4> QED
        BY <1>1, <3>1, <4>1, Moving, CallMild DEF EnterRequest, Moved
    <3>2. CASE EnterStart
      BY <1>1, <3>2, Moving, CallMild DEF EnterStart, Moved
    <3>3. CASE ExitStop
      BY <1>1, <3>3, Moving, CallMild DEF ExitStop, Moved
    <3>4. CASE ExitRelease
      BY <1>1, <3>4, Moving, CallMild DEF ExitRelease, Moved
    <3>5. CASE WaitFinished
      <4>1. CallTimer("release", lcd.hd, NoFunc, "wait_clear") /\ lcd' = lcd
        BY <3>5 DEF WaitFinished
      <4>2. Mild(tm, tm') /\ Moved("wait_clear", main.then)
        BY <1>1, <4>1, Moving, CallMild
      <4> QED
        BY <4>1, <4>2 DEF Moved
    <3> QED
      BY <1>6, <3>1, <3>2, <3>3, <3>4, <3>5
  <2> QED
    BY <1>1, <1>3, <1>6, <2>1, Going2
<1>7. CASE EnterConnect \/ RegisterPower \/ ReleasePower \/ ExitClock
  <2>1. lcd' = lcd /\ Mild(tm, tm')
    BY <1>2, <1>7 DEF EnterConnect, RegisterPower, ReleasePower, ExitClock
  <2>2. main'.pc # "uninstall"
    <3>1. Returned \/ Moved("leave", main.then) \/ main'.pc = "leave_stop"
      <4>1. CASE EnterConnect \/ RegisterPower \/ ReleasePower
        BY <1>1, <4>1, Moving DEF EnterConnect, RegisterPower, ReleasePower
      <4>2. CASE ExitClock
        BY <1>1, <4>2 DEF ExitClock, Back, IsMain, Returned, Moved
      <4> QED
        BY <1>7, <4>1, <4>2
    <3> QED
      BY <3>1 DEF Returned, Moved, Legal, Homes
  <2> QED
    BY <1>1, <1>3, <1>7, <2>1, <2>2, Going2
<1>8. CASE PollLong \/ StandbyEnter
  <2>1. lcd' = lcd /\ ReleaseBoth /\ main'.pc # "uninstall"
    BY <1>1, <1>8 DEF PollLong, StandbyEnter, IsMain, Goto, Call
  <2>2. Mild(tm, tm')
    <3> DEFINE a == DisableInt(tm, "nmi")
    <3>1. a \in TimerState /\ Gentle(tm, a) /\ tm' = ExitTm(usb, a)
      BY <1>1, <2>1, IntKeeps, GentleInt DEF Keeps, ReleaseBoth
    <3> HIDE DEF a
    <3>2. Gentle(a, tm')
      BY <1>1, <3>1, GentleExit
    <3>3. Gentle(tm, tm')
      BY <3>1, <3>2, GentleTrans
    <3> QED
      BY <3>3 DEF Gentle
  <2> QED
    BY <1>1, <1>3, <1>8, <2>1, <2>2, Going2
<1>9. CASE Wake
  <2>1. lcd' = lcd /\ main'.pc # "uninstall"
    BY <1>1, <1>9 DEF Wake, IsMain, Goto, Call
  <2>2. Mild(tm, tm')
    <3> DEFINE a == EnableInt(tm, "nmi")
    <3>1. a \in TimerState /\ Gentle(tm, a) /\ tm' = DisableInt(a, "nmi")
      BY <1>1, <1>9, IntKeeps, GentleInt DEF Keeps, Wake
    <3> HIDE DEF a
    <3>2. Gentle(a, tm')
      BY <3>1, GentleInt
    <3>3. Gentle(tm, tm')
      BY <3>1, <3>2, GentleTrans
    <3> QED
      BY <3>3 DEF Gentle
  <2> QED
    BY <1>1, <1>3, <1>9, <2>1, <2>2, Going2
<1>10. CASE Uninstall
  <2>1. lcd' = lcd /\ main'.pc # "uninstall"
    BY <1>10, <1>1, Moving DEF Uninstall, Moved
  <2>2. Mild(tm, tm')
    BY <1>1, <1>2, <1>10, CallMild DEF Uninstall
  <2> QED
    BY <1>1, <1>3, <1>10, <2>1, <2>2, Going2
<1>11. CASE OpenDisplay \/ WaitClear \/ CloseRequest \/ CloseStore \/ CloseFirst
            \/ UninstallClear
  BY <1>11 DEF Panel
<1> QED
  BY <1>4, <1>5, <1>6, <1>7, <1>8, <1>9, <1>10, <1>11 DEF Step, Quiet

\* In the midst of a call for a timer: the timer of a call outside the
\* panel's is the detection's.
LEMMA AsideCalls ==
  ASSUME Types, Own, CallTake \/ CallStore \/ CallFree
  PROVE  Aside \/ Panel
<1> DEFINE c == main.call
<1>1. /\ tm \in TimerState /\ IsMain(main) /\ IsCall(c) /\ c # NoCall /\ Fits(main)
      /\ c.t \in Timer /\ c.t # NoTimer
  <2>1. c # NoCall
    BY DEF CallTake, CallStore, CallFree, NoCall
  <2> QED
    BY <2>1 DEF Types, Fits, IsCall, Timer, NoTimer
<1>2. lcd' = lcd /\ main'.pc = main.pc /\ main'.panel = main.panel /\ main'.then = main.then
  BY <1>1 DEF CallTake, CallStore, CallFree, IsMain
<1>3. AtEnd => AtEnd'
  BY <1>2 DEF AtEnd
<1>4. main'.call # NoCall => main'.call.t = c.t
  <2>1. c = [op |-> c.op, at |-> c.at, t |-> c.t, ctrl |-> c.ctrl, fn |-> c.fn]
    BY <1>1 DEF IsCall, Calls
  <2>2. CASE CallTake
    BY <1>1, <2>1, <2>2 DEF CallTake, TakenCall, IsMain
  <2>3. CASE CallStore
    BY <1>1, <2>1, <2>3 DEF CallStore, StoredCall, IsMain
  <2>4. CASE CallFree
    BY <1>1, <2>4 DEF CallFree, IsMain
  <2> QED
    BY <2>2, <2>3, <2>4
<1>5. ASSUME Mild(tm, tm'), main.pc = "close_store" => Firm(tm, tm') PROVE Aside
  BY <1>1, <1>2, <1>3, <1>4, <1>5 DEF Aside
<1>6. CASE CallTake
  <2>1. /\ tm'.func = tm.func /\ tm'.run = tm.run /\ tm'.stats = tm.stats
        /\ tm'.ctrl = tm.ctrl
    BY <1>1, <1>6 DEF CallTake, Taken, TimerState
  <2> QED
    BY <1>5, <2>1, MildLess DEF Gentle
<1>7. CASE CallFree
  <2>1. /\ tm'.func = tm.func /\ tm'.run = tm.run /\ tm'.stats = tm.stats
        /\ tm'.ctrl = tm.ctrl
    BY <1>1, <1>7 DEF CallFree, Freed, TimerState
  <2> QED
    BY <1>5, <2>1, MildLess DEF Gentle
<1>8. CASE CallStore
  <2>1. c.at = "store" /\ tm' = Stored(tm, c)
    BY <1>8 DEF CallStore
  <2>2. /\ tm'.stats = tm.stats
        /\ tm'.func = (IF c.op = "request" THEN [tm.func EXCEPT ![c.t] = c.fn] ELSE tm.func)
        /\ tm'.run = (IF c.op = "request" THEN tm.run \ {c.t}
                      ELSE IF c.op = "start" THEN tm.run \cup {c.t} ELSE tm.run)
    <3> DEFINE n == Stored(tm, c)
    <3>1. /\ n.stats = tm.stats
          /\ n.func = (IF c.op = "request" THEN [tm.func EXCEPT ![c.t] = c.fn] ELSE tm.func)
          /\ n.run = (IF c.op = "request" THEN tm.run \ {c.t}
                      ELSE IF c.op = "start" THEN tm.run \cup {c.t} ELSE tm.run)
      BY ONLY <1>1, <2>1, StoredFields, Zenon
    <3> QED
      BY <2>1, <3>1
  <2> SUFFICES ASSUME main.pc \notin {"close_store", "uninstall"} PROVE Mild(tm, tm')
    BY <1>5, <1>8 DEF Panel
  <2>3. CASE c.op = "request"
    <3>1. c.fn = UsbFn /\ UsbFn \notin {OpenFn, CloseFn}
      BY <1>1, <2>3, FuncTypes DEF Fits, CallAt
    <3>2. \A t \in Timer : tm'.func[t] = IF t = c.t THEN UsbFn ELSE tm.func[t]
      BY <1>1, <2>2, <2>3, <3>1 DEF TimerState
    <3> QED
      BY <2>2, <2>3, <3>1, <3>2 DEF Mild, MildAt, Live
  <2>4. CASE c.op = "start"
    <3>1. main.pc = "enter_connect" /\ main.hd = c.t
      BY <1>1, <2>4 DEF Fits, CallAt
    <3>2. ts.func[c.t] = UsbFn
      BY <1>1, <3>1 DEF Own, Owners, Handing
    <3>3. ts.func = tm.func
      <4>1. ts.func = (IF c.op = "request" THEN [tm.func EXCEPT ![c.t] = c.fn] ELSE tm.func)
        BY ONLY <1>1, SettledFields, Zenon DEF ts
      <4> QED
        BY <2>4, <4>1
    <3> QED
      BY <2>2, <2>4, <3>2, <3>3, FuncTypes DEF Mild, MildAt, Live
  <2>5. CASE c.op \notin {"request", "start"}
    BY <2>2, <2>5, MildLess
  <2> QED
    BY <2>3, <2>4, <2>5
<1> QED
  BY <1>6, <1>7, <1>8

\* What has met a call of the main program stays noted.
LEMMA RacedKept ==
  ASSUME Types, [Next]_vars, plug.raced
  PROVE  plug'.raced
<1>1. IsPlug(plug)
  BY DEF Types
<1>2. CASE UNCHANGED plug
  BY <1>2
<1>3. ASSUME NEW w, NEW k, SwitchPower(w, k) PROVE plug'.raced
  BY <1>1, <1>3 DEF SwitchPower, IsPlug
<1>4. ASSUME NEW s, NEW n, Note(s, n) PROVE plug'.raced
  BY <1>1, <1>4 DEF Note, IsPlug
<1>5. CASE RegisterPower \/ ReleasePower \/ PollLong \/ StandbyEnter
  BY <1>3, <1>5 DEF RegisterPower, ReleasePower, PollLong, StandbyEnter, ReleaseBoth
<1>6. CASE Wake
  BY <1>1, <1>6 DEF Wake, Standby, IsPlug
<1>7. CASE ChangePlug \/ PressKey \/ UsbReset
  BY <1>1, <1>7 DEF ChangePlug, PressKey, UsbReset, IsPlug
<1>8. CASE PowerInt \/ PowerIntFails
  BY <1>4, <1>8 DEF PowerInt, PowerIntFails
<1>9. CASE \E t \in Timer : PanelTimer(t) \/ UsbTimer(t) \/ TimerExpires(t)
  BY <1>9 DEF PanelTimer, UsbTimer, TimerExpires
<1>10. CASE Elsewhere /\ ~Interrupt /\ ~ChangePlug /\ ~PressKey
  BY <1>9, <1>10 DEF Elsewhere, CallTake, CallStore, CallFree, TimePasses, vars
<1>11. CASE Quiet
  BY <1>11 DEF Quiet, CheckPower, WaitGivesUp, EnterTest, StartCharge, FirstDetect, Battery,
     PollShort, PollEnds, StandbyVbus, Case8, Delay8, StoreFlags, DetectOs, PanelOff
<1>12. CASE \/ OpenDisplay \/ WaitFinished \/ WaitClear \/ EnterSet \/ EnterRequest
            \/ EnterStore \/ EnterStart \/ EnterConnect \/ ExitClear \/ ExitClock \/ ExitStop
            \/ ExitRelease \/ ExitStore \/ CloseRequest \/ CloseStore \/ CloseFirst
            \/ Uninstall \/ UninstallClear
  BY <1>12 DEF OpenDisplay, WaitFinished, WaitClear, EnterSet, EnterRequest, EnterStore,
     EnterStart, EnterConnect, ExitClear, ExitClock, ExitStop, ExitRelease, ExitStore,
     CloseRequest, CloseStore, CloseFirst, Uninstall, UninstallClear
<1> QED
  BY <1>5, <1>6, <1>7, <1>8, <1>9, <1>10, <1>11, <1>12
  DEF Next, Main, Step, Quiet, Interrupt, Elsewhere

\* The interrupts.
LEMMA AsideInterrupt ==
  ASSUME IInv, ~plug.raced, ~plug'.raced, Interrupt
  PROVE  Aside \/ Panel
<1>1. /\ Types /\ Own /\ tm \in TimerState /\ IsUsb(usb) /\ IsPlug(plug) /\ "usb" \in Irq
  BY DEF IInv, Types, Irq
<1>2. ASSUME lcd' = lcd, main' = main, Gentle(tm, tm') PROVE Aside
  BY <1>2 DEF Aside, AtEnd, Gentle
<1>3. ASSUME NEW s, NEW e, NEW n, HandlePower(s), Note(e, n),
             e \cap PlugEvents = {} => s \cap PlugEvents = {}
      PROVE  Gentle(tm, tm')
  <2>1. CASE tm' = ExitTm(usb, tm)
    BY <1>1, <2>1, GentleExit
  <2>2. CASE "insert" \in s /\ tm' = EnterTm(usb, tm)
    <3>1. e \cap PlugEvents # {}
      BY <1>3, <2>2 DEF PlugEvents
    <3>2. main.call = NoCall
      BY <1>1, <1>3, <3>1 DEF Note, IsPlug, InCall
    <3>3. usb.hd # NoTimer => tm.func[usb.hd] = UsbFn
      BY <1>1, <3>2, FreeFits DEF Own, Owners
    <3> QED
      BY <1>1, <2>2, <3>3, GentleEnter
  <2>3. CASE tm' = tm
    BY <2>3, MildLess
  <2> QED
    BY <1>3, <2>1, <2>2, <2>3 DEF HandlePower
<1>4. ASSUME NEW t \in Timer, UsbTimer(t) PROVE Aside
  <2> DEFINE a == TakeTimerInt(tm, t)
  <2>1. Gentle(tm, a) /\ a \in TimerState
    BY <1>1, GentleInt
  <2>2. tm' = a \/ tm' = DisableInt(a, "usb")
    BY <1>4 DEF UsbTimer
  <2>3. Gentle(tm, tm')
    <3> HIDE DEF a
    <3> QED
      BY <2>1, <2>2, GentleInt, GentleTrans
  <2> QED
    BY <1>2, <1>4, <2>3 DEF UsbTimer
<1>5. CASE UsbReset
  <2>1. tm' = ExitTm(usb, tm)
    BY <1>5 DEF UsbReset, ExitTm
  <2>2. Gentle(tm, tm')
    BY <1>1, <2>1, GentleExit
  <2> QED
    BY <1>2, <1>5, <2>2 DEF UsbReset
<1>6. CASE PowerInt
  BY <1>2, <1>3, <1>6 DEF PowerInt
<1>7. CASE PowerIntFails
  <2>1. PICK keys \in SUBSET (Event \ PlugEvents),
             got \in {{}, pmu.latch \cap PlugEvents, pmu.latch} :
          HandlePower((got \cap PlugEvents) \cup keys) /\ Note(got, 1)
    BY <1>7 DEF PowerIntFails
  <2>2. got \cap PlugEvents = {} => ((got \cap PlugEvents) \cup keys) \cap PlugEvents = {}
    OBVIOUS
  <2>3. Gentle(tm, tm')
    BY <1>3, <2>1, <2>2
  <2> QED
    BY <1>2, <1>7, <2>3 DEF PowerIntFails
<1> QED
  BY <1>4, <1>5, <1>6, <1>7 DEF Interrupt, Panel

\* No step but the panel's own disturbs it, unless a change at the plug meets
\* a call of the main program.
LEMMA AsideStep ==
  ASSUME IInv, Legal, ~plug'.raced, [Next]_vars
  PROVE  Aside \/ Panel
<1>1. Types /\ ~plug.raced /\ Own /\ tm \in TimerState
  BY RacedKept DEF IInv, Types
<1>2. ASSUME lcd' = lcd, main' = main, Gentle(tm, tm') PROVE Aside
  BY <1>2 DEF Aside, AtEnd, Gentle
<1>3. CASE Main
  BY <1>1, <1>3, AsideMain, AsideCalls DEF Main, InCall
<1>4. CASE Interrupt
  BY <1>1, <1>4, AsideInterrupt
<1>5. CASE ChangePlug \/ PressKey \/ TimePasses \/ UNCHANGED vars
  <2>1. lcd' = lcd /\ main' = main /\ tm' = tm
    BY <1>5 DEF ChangePlug, PressKey, TimePasses, vars
  <2> QED
    BY <1>2, <2>1, MildLess
<1>6. ASSUME NEW t \in Timer, TimerExpires(t) PROVE Aside
  <2>1. Gentle(tm, tm')
    BY <1>1, <1>6, GentleExpire DEF TimerExpires
  <2> QED
    BY <1>2, <1>6, <2>1 DEF TimerExpires
<1> QED
  BY <1>3, <1>4, <1>5, <1>6 DEF Next

----------------------------------------------------------------------------
(* The panel's own steps.                                                  *)
\* BoardInit_Display runs the first steps, when the panel is what is shown.
LEMMA OrderOpen ==
  ASSUME Types, Legal, Beginning, Ordered, main.call = NoCall, OpenDisplay
  PROVE  Ordered'
<1>1. /\ IsMain(main) /\ IsLcd(lcd) /\ tm \in TimerState
      /\ main.pc = "display" /\ main'.pc = "power" /\ main'.call = NoCall
  BY DEF Types, OpenDisplay, IsMain
<1>2. /\ tm.run = {} /\ tm.stats = {} /\ \A t \in Timer : tm.func[t] = NoFunc
      /\ ~main.panel
  BY <1>1 DEF Beginning, TimerInit
<1>3. /\ lcd.cnt = 0 /\ ~lcd.fin /\ lcd.done = <<>> \o Ran(OpenFn, lcd.cnt)
  BY <1>1, <1>2 DEF Ordered, Opening, Closing, AtEnd, Legal, Leaving
<1>4. NoFunc \notin {OpenFn, CloseFn, UsbFn} /\ OpenFn # CloseFn /\ OpenFn \in Func
  BY NoFuncAssumption, FnAssumption
<1>5. CASE UNCHANGED <<tm, lcd>>
  <2>1. main'.pc \notin Closes \cup {"uninstall"} /\ lcd.cnt \in Nat
    BY <1>1, <1>3 DEF Closes
  <2>2. Opening'
    BY <1>1, <1>2, <1>3, <1>4, <1>5, <2>1 DEF Opening, Live
  <2> QED
    BY <1>5, <2>1, <2>2 DEF Ordered
<1>6. CASE ~UNCHANGED <<tm, lcd>>
  <2> DEFINE h == RequestHandle(tm)
             a == Request(tm, OpenFn)
             l == [lcd EXCEPT !.hd = h]
  <2>1. lcd' = FlowLcd(l, OpenFn) /\ tm' = FlowTm(l, OpenFn, a) /\ main'.panel = TRUE
    BY <1>1, <1>6 DEF OpenDisplay, IsMain
  <2>2. h \in Handle /\ a \in TimerState
    BY <1>1, <1>4, Requests
  <2>3. /\ IsLcd(l) /\ l.hd = h /\ l.cnt = 0 /\ ~l.fin /\ l.done = <<>> \o Ran(OpenFn, l.cnt)
    <3> HIDE DEF h
    <3> QED
      BY <1>1, <1>3, <2>2 DEF IsLcd
  <2>4. a.run = {} /\ a.stats = {} /\ \A t \in Timer : a.func[t] # CloseFn
    <3>1. Requested(tm, OpenFn, h, a)
      BY <1>1, <1>4, RequestEffect
    <3> HIDE DEF h, a
    <3>2. CASE h = NoTimer /\ Same(tm, a)
      BY <1>2, <1>4, <3>2 DEF Same
    <3>3. CASE /\ h \in Timer \ tm.used /\ a.func = [tm.func EXCEPT ![h] = OpenFn]
               /\ a.run = tm.run \ {h} /\ a.stats = tm.stats
      BY <1>1, <1>2, <1>4, <3>3 DEF TimerState
    <3> QED
      BY <3>1, <3>2, <3>3 DEF Requested
  <2> HIDE DEF h, a, l
  <2>5. /\ lcd'.cnt \in Nat /\ lcd'.done = <<>> \o Ran(OpenFn, lcd'.cnt) /\ lcd'.hd = h
        /\ lcd'.fin => l.fin \/ lcd'.cnt > Len(OpenFlow)
    <3>1. <<>> \in Seq(Moves) /\ l.cnt \in Nat
      BY <2>3
    <3> QED
      BY <1>4, <2>1, <2>3, <3>1, FlowRuns, Flows
  <2>6. FlowStarts(a, tm', h, ~l.fin /\ lcd'.fin)
    BY <2>1, <2>2, <2>3, FlowStart
  <2>7. \A t \in Timer : tm'.func[t] # CloseFn
    BY <2>4, <2>6 DEF FlowStarts
  <2>8. ASSUME NEW t \in Live(tm')
        PROVE  t = lcd'.hd /\ ~lcd'.fin /\ ~(t \in tm'.run /\ t \in tm'.stats)
    BY <2>3, <2>4, <2>5, <2>6, <2>8 DEF FlowStarts, Live
  <2>9. main'.pc \notin Closes \cup {"uninstall"}
    BY <1>1 DEF Closes
  <2>10. Opening'
    BY <2>1, <2>3, <2>5, <2>7, <2>8, <2>9 DEF Opening
  <2> QED
    BY <2>5, <2>10 DEF Ordered
<1> QED
  BY <1>5, <1>6

\* The panel forgets the timer it has released.
LEMMA OrderClear ==
  ASSUME Types, Legal, Ordered, main.call = NoCall, WaitClear \/ UninstallClear
  PROVE  Ordered'
<1>1. IsMain(main) /\ IsLcd(lcd) /\ lcd.fin /\ lcd' = CheckedLcd(lcd) /\ tm' = tm
  BY DEF Types, WaitClear, UninstallClear, Clearing
<1>2. /\ lcd'.fin = lcd.fin /\ lcd'.cnt = lcd.cnt /\ lcd'.done = lcd.done
      /\ lcd'.hd = NoTimer
  BY <1>1, FlowFields
<1>3. Goes /\ main'.panel = main.panel /\ main'.call = NoCall
  <2>1. main'.call = main.call
    BY <1>1 DEF WaitClear, UninstallClear, Back, Call, IsMain
  <2> QED
    BY <1>1, <2>1, Going2
<1>4. main.pc \notin Closes /\ main'.pc \notin Closes
  BY <1>3 DEF Goes, Moved, Returned, Legal, Homes, Leaving, Closes
<1>5. lcd.cnt \in Nat /\ (Opening \/ Closing)
  BY DEF Ordered
<1>6. CASE Opening
  <2>1. \A t \in Live(tm') : tm'.func[t] # OpenFn
    BY <1>1, <1>6 DEF Opening
  <2>2. main.panel
    BY <1>1, <1>6 DEF Opening
  <2>3. Opening'
    BY <1>1, <1>2, <1>3, <1>4, <1>6, <2>1, <2>2 DEF Opening
  <2> QED
    BY <1>2, <1>5, <2>3 DEF Ordered
<1>7. CASE Closing
  <2>1. AtEnd'
    BY <1>1, <1>3, <1>7, EndKept DEF Closing
  <2>2. main'.pc # "close_store"
    BY <1>4 DEF Closes
  <2>3. Opened' = Opened
    BY <1>3 DEF Opened
  <2>4. Closing'
    BY <1>1, <1>2, <1>3, <1>7, <2>1, <2>2, <2>3 DEF Closing
  <2> QED
    BY <1>2, <1>5, <2>4 DEF Ordered
<1> QED
  BY <1>5, <1>6, <1>7

\* DRV_lcd_close: with the opening flow over, the closing one starts from
\* nothing, ...
LEMMA OrderRequest ==
  ASSUME Types, Legal, Ordered, CloseRequest, ~lcd'.mixed
  PROVE  Ordered'
<1>1. /\ IsMain(main) /\ IsLcd(lcd) /\ tm \in TimerState
      /\ main.pc = "close" /\ main'.pc = "close_store" /\ main'.panel = main.panel
      /\ tm' = tm
  <2>1. Moved("close_store", main.then)
    BY Moving DEF CloseRequest, Types
  <2> QED
    BY <2>1 DEF Types, CloseRequest, CallTimer, Entered, Moved
<1>2. /\ lcd'.mixed = (lcd.mixed \/ (main.panel /\ ~lcd.fin)) /\ lcd'.cnt = 0
      /\ lcd'.done = lcd.done
  BY <1>1 DEF CloseRequest, IsLcd
<1>3. main.panel => lcd.fin
  <2>1. CASE main.panel /\ ~lcd.fin
    <3>1. (lcd.mixed \/ (main.panel /\ ~lcd.fin)) = TRUE
      BY <2>1
    <3> QED
      BY <1>2, <3>1
  <2> QED
    BY <2>1
<1>4. Opening /\ lcd.cnt \in Nat
  <2>1. ~AtEnd
    BY <1>1 DEF AtEnd, Legal, Leaving
  <2> QED
    BY <2>1 DEF Ordered, Closing
<1>5. lcd'.done = Opened \o Ran(CloseFn, lcd'.cnt)
  <2>1. OpenFn \in Func /\ CloseFn \in Func /\ Flow(OpenFn) = OpenFlow
    BY FuncTypes, Flows
  <2>2. Ran(CloseFn, 0) = <<>> /\ Ran(OpenFn, 0) = <<>>
    BY <2>1, RanNone
  <2>3. lcd.done = <<>> \o Opened /\ Opened \in Seq(Moves)
    <3>1. CASE main.panel
      <4>1. Ran(OpenFn, lcd.cnt) = AllOf(OpenFn) /\ AllOf(OpenFn) \in Seq(Moves)
        BY <1>3, <1>4, <2>1, <3>1, RanSeq DEF Opening
      <4> QED
        BY <1>4, <3>1, <4>1 DEF Opened, Opening
    <3>2. CASE ~main.panel
      BY <1>4, <2>2, <3>2 DEF Opened, Opening
    <3> QED
      BY <3>1, <3>2
  <2> DEFINE s == Opened
  <2>4. s \in Seq(Moves) /\ lcd.done = <<>> \o s
    BY <2>3
  <2> HIDE DEF s
  <2>5. <<>> \o s = s /\ s \o <<>> = s
    BY <2>4, ConcatEmptySeq
  <2>6. lcd'.done = s \o <<>>
    BY <1>2, <2>4, <2>5
  <2> QED
    BY <1>2, <2>2, <2>6 DEF s
<1>6. AtEnd' /\ Opened' = Opened
  BY <1>1 DEF AtEnd, Opened
<1>7. \A t \in Live(tm') : tm'.func[t] # OpenFn
  <2>1. Live(tm) \subseteq Timer
    BY <1>1 DEF Live, TimerState
  <2> QED
    BY <1>1, <1>3, <1>4, <2>1 DEF Opening
<1>8. \A t \in Timer : tm'.func[t] # CloseFn
  BY <1>1, <1>4 DEF Opening
<1>9. Closing'
  BY <1>1, <1>5, <1>6, <1>7, <1>8 DEF Closing
<1> QED
  BY <1>2, <1>9 DEF Ordered

\* ... asks for its timer ...
LEMMA OrderStore ==
  ASSUME Types, Own, Ordered, main.call = NoCall, CloseStore
  PROVE  Ordered'
<1>1. /\ IsMain(main) /\ IsLcd(lcd) /\ tm' = tm /\ ts = tm
      /\ main.pc = "close_store" /\ main'.pc = "close_first" /\ main'.panel = main.panel
  <2>1. Moved("close_first", main.then)
    BY Moving DEF CloseStore, Types
  <2> QED
    BY <2>1, FreeFits DEF Types, CloseStore, Moved
<1>2. lcd.cnt \in Nat /\ Closing
  BY <1>1 DEF Ordered, Opening, Closes
<1>3. lcd'.cnt = lcd.cnt /\ lcd'.done = lcd.done /\ lcd'.hd = main.hd
  BY <1>1 DEF CloseStore, IsLcd
<1>4. lcd'.hd # NoTimer => tm'.func[lcd'.hd] # OpenFn
  BY <1>1, <1>3, FnAssumption DEF Own, Owners
<1>5. AtEnd' /\ Opened' = Opened
  BY <1>1 DEF AtEnd, Opened
<1>6. Closing'
  BY <1>1, <1>2, <1>3, <1>4, <1>5 DEF Closing
<1> QED
  BY <1>2, <1>3, <1>6 DEF Ordered

\* ... in a call, at the end of which no interrupt of it is enabled, ...
LEMMA OrderTake ==
  ASSUME Types, Ordered, CallStore, main.pc \in {"close_store", "uninstall"}
  PROVE  Ordered'
<1> DEFINE c == main.call
<1>1. /\ tm \in TimerState /\ IsMain(main) /\ IsCall(c) /\ c # NoCall /\ Fits(main)
      /\ c.t \in Timer /\ c.t # NoTimer /\ c.at = "store" /\ tm' = Stored(tm, c)
  <2>1. c # NoCall
    BY DEF CallStore, NoCall
  <2> QED
    BY <2>1 DEF Types, Fits, IsCall, CallStore, Timer, NoTimer
<1>2. lcd' = lcd /\ main'.pc = main.pc /\ main'.panel = main.panel /\ main'.then = main.then
      /\ main'.call = StoredCall(c)
  BY <1>1 DEF CallStore, IsMain
<1>3. /\ tm'.stats = tm.stats
      /\ tm'.func = (IF c.op = "request" THEN [tm.func EXCEPT ![c.t] = c.fn] ELSE tm.func)
      /\ tm'.ctrl = (IF c.op = "start" THEN c.ctrl \cup {c.t} ELSE c.ctrl \ {c.t})
      /\ tm'.run = (IF c.op = "request" THEN tm.run \ {c.t}
                    ELSE IF c.op = "start" THEN tm.run \cup {c.t} ELSE tm.run)
  <2> DEFINE n == Stored(tm, c)
  <2>1. /\ n.stats = tm.stats
        /\ n.func = (IF c.op = "request" THEN [tm.func EXCEPT ![c.t] = c.fn] ELSE tm.func)
        /\ n.ctrl = (IF c.op = "start" THEN c.ctrl \cup {c.t} ELSE c.ctrl \ {c.t})
        /\ n.run = (IF c.op = "request" THEN tm.run \ {c.t}
                    ELSE IF c.op = "start" THEN tm.run \cup {c.t} ELSE tm.run)
    BY ONLY <1>1, StoredFields, Zenon
  <2> QED
    BY <1>1, <2>1
<1>4. lcd.cnt \in Nat /\ Closing
  BY <1>1 DEF Ordered, Opening, Closes
<1>5. AtEnd' /\ Opened' = Opened
  BY <1>2, <1>4 DEF AtEnd, Opened, Closing
<1>6. OpenFn # CloseFn
  BY FnAssumption
<1>7. CASE main.pc = "close_store"
  <2>1. c.op = "request" /\ c.fn = CloseFn
    BY <1>1, <1>7 DEF Fits, CallAt, IsCall
  <2>2. main'.call = NoCall
    BY <1>2, <2>1 DEF StoredCall
  <2>3. /\ \A s \in Timer : tm'.func[s] = IF s = c.t THEN CloseFn ELSE tm.func[s]
        /\ tm'.run = tm.run \ {c.t} /\ c.t \notin tm'.ctrl /\ Live(tm) \subseteq Timer
    BY <1>1, <1>3, <2>1 DEF TimerState, Live
  <2>4. ASSUME NEW s \in Live(tm') PROVE tm'.func[s] # OpenFn
    <3>1. s \in Live(tm)
      BY <1>3, <2>3, <2>4 DEF Live
    <3> QED
      BY <1>4, <1>6, <2>3, <3>1 DEF Closing
  <2>5. ASSUME NEW s \in Timer, tm'.func[s] = CloseFn
        PROVE  main'.call = NoCall /\ s \notin tm'.ctrl
    <3>1. tm.func[s] # CloseFn
      BY <1>1, <1>4, <1>7 DEF Closing
    <3> QED
      BY <2>2, <2>3, <2>5, <3>1
  <2>6. Closing'
    BY <1>2, <1>4, <1>5, <1>7, <2>4, <2>5 DEF Closing
  <2> QED
    BY <1>2, <1>4, <2>6 DEF Ordered
<1>8. CASE main.pc = "uninstall"
  <2>1. c.op = "start"
    BY <1>1, <1>8 DEF Fits, CallAt, IsCall
  <2>2. main'.call = NoCall
    BY <1>2, <2>1 DEF StoredCall
  <2>3. c.t = lcd.hd /\ tm.func[c.t] # OpenFn /\ tm'.func = tm.func
        /\ tm'.run = tm.run \cup {c.t}
    BY <1>1, <1>3, <1>4, <1>8, <2>1 DEF Closing
  <2>4. ASSUME NEW s \in Live(tm') PROVE tm'.func[s] # OpenFn
    <3>1. s \in Live(tm) \/ s = c.t
      BY <1>3, <2>3, <2>4 DEF Live
    <3> QED
      BY <1>4, <2>3, <3>1 DEF Closing
  <2>5. lcd'.hd # NoTimer => tm'.func[lcd'.hd] # OpenFn
    BY <1>2, <2>3
  <2>6. Closing'
    BY <1>2, <1>4, <1>5, <1>8, <2>2, <2>4, <2>5 DEF Closing
  <2> QED
    BY <1>2, <1>4, <2>6 DEF Ordered
<1> QED
  BY <1>7, <1>8

\* A call of the closing flow, from the main program or from its timer.
LEMMA OrderClosing ==
  ASSUME IsLcd(lcd), Closing, lcd.cnt \in Nat, main.pc # "close_store",
         lcd' = FlowLcd(lcd, CloseFn), tm'.func = tm.func,
         Live(tm') \subseteq Live(tm) \cup ({lcd.hd} \cap Timer),
         AtEnd', main'.pc # "close_store", main'.panel = main.panel,
         main'.pc = "uninstall" /\ main'.call # NoCall => main'.call.t = lcd.hd
  PROVE  Ordered'
<1>1. CloseFn \in Func /\ OpenFn \in Func /\ OpenFn # CloseFn
  BY FnAssumption
<1>2. Opened \in Seq(Moves) /\ lcd.done = Opened \o Ran(CloseFn, lcd.cnt)
  <2>1. 0 \in Nat /\ <<>> \in Seq(Moves)
    OBVIOUS
  <2>2. AllOf(OpenFn) \in Seq(Moves)
    BY <1>1, <2>1, RanSeq
  <2> QED
    BY <2>1, <2>2 DEF Closing, Opened
<1>3. /\ lcd'.cnt \in Nat /\ lcd'.done = Opened \o Ran(CloseFn, lcd'.cnt)
      /\ lcd'.hd = lcd.hd
  <2> DEFINE s == Opened
  <2>1. s \in Seq(Moves) /\ lcd.done = s \o Ran(CloseFn, lcd.cnt)
    BY <1>2
  <2> HIDE DEF s
  <2>2. /\ lcd'.cnt \in Nat /\ lcd'.done = s \o Ran(CloseFn, lcd'.cnt)
        /\ lcd'.hd = lcd.hd
    BY <1>1, <2>1, FlowRuns
  <2> QED
    BY <2>2 DEF s
<1>4. lcd.hd # NoTimer => tm.func[lcd.hd] # OpenFn
  BY DEF Closing
<1>5. lcd'.hd # NoTimer => tm'.func[lcd'.hd] # OpenFn
  BY <1>3, <1>4
<1>6. ASSUME NEW t \in Live(tm') PROVE tm'.func[t] # OpenFn
  <2>1. CASE t \in Live(tm)
    BY <2>1 DEF Closing
  <2>2. CASE t = lcd.hd /\ t \in Timer
    BY <1>4, <2>2 DEF Timer, NoTimer
  <2> QED
    BY <1>6, <2>1, <2>2
<1>7. Opened' = Opened
  BY DEF Opened
<1>8. Closing'
  BY <1>3, <1>5, <1>6, <1>7 DEF Closing
<1> QED
  BY <1>3, <1>8 DEF Ordered

\* ... and runs its first steps.
LEMMA OrderFirst ==
  ASSUME Types, Ordered, main.call = NoCall, CloseFirst
  PROVE  Ordered'
<1>1. /\ IsMain(main) /\ IsLcd(lcd) /\ tm \in TimerState /\ lcd.hd \in Handle
      /\ lcd' = FlowLcd(lcd, CloseFn) /\ main.pc = "close_first"
  BY DEF Types, CloseFirst, IsLcd
<1>2. lcd.cnt \in Nat /\ Closing
  BY <1>1 DEF Ordered, Opening, Closes
<1>3. /\ main'.pc = "uninstall" /\ main'.panel = main.panel
      /\ tm'.func = tm.func /\ Live(tm') \subseteq Live(tm)
      /\ main'.call # NoCall => main'.call.t = lcd.hd
  <2>1. CASE Goto("uninstall") /\ UNCHANGED tm
    BY <1>1, <2>1 DEF Goto, IsMain
  <2>2. CASE CallTimer("start", lcd.hd, NoFunc, "uninstall")
    <3>1. Moved("uninstall", main.then)
      BY <1>1, <2>2, Moving
    <3>2. main'.call = CallOf(tm, "start", lcd.hd, NoFunc)
      BY <1>1, <2>2 DEF CallTimer, IsMain
    <3>3. main'.call # NoCall => main'.call.t = lcd.hd
      BY <3>2 DEF CallOf
    <3>4. tm' = IF lcd.hd \notin tm.used THEN tm ELSE [tm EXCEPT !.run = tm.run \ {lcd.hd}]
      BY <2>2 DEF CallTimer, Entered
    <3>5. tm'.func = tm.func /\ Live(tm') \subseteq Live(tm)
      BY <1>1, <3>4 DEF Live, TimerState
    <3> QED
      BY <3>1, <3>3, <3>5 DEF Moved
  <2> QED
    BY <2>1, <2>2 DEF CloseFirst
<1>4. AtEnd'
  BY <1>3 DEF AtEnd
<1> QED
  BY <1>1, <1>2, <1>3, <1>4, OrderClosing

\* The call-back goes on with the flow its timer was requested for.
LEMMA OrderTimer ==
  ASSUME Types, Ordered, NEW t \in Timer, PanelTimer(t)
  PROVE  Ordered'
<1> DEFINE a == TakeTimerInt(tm, t)
           f == tm.func[t]
<1>1. /\ IsLcd(lcd) /\ tm \in TimerState /\ UNCHANGED main
      /\ t \in tm.stats /\ t \in tm.ctrl /\ f \in {OpenFn, CloseFn}
      /\ lcd' = FlowLcd(lcd, f) /\ tm' = FlowTm(lcd, f, a)
  BY DEF Types, PanelTimer, Pending
<1>2. a \in TimerState /\ a.func = tm.func /\ a.run = tm.run /\ a.stats = {}
  <2>1. Cleared(tm, a) /\ Keeps(tm, a)
    BY <1>1, ClearEffect, StatKeeps
  <2> QED
    BY <2>1 DEF Cleared, Keeps
<1> HIDE DEF a
<1>3. lcd.cnt \in Nat /\ (Opening \/ Closing)
  BY DEF Ordered
<1>4. t \in Live(tm)
  BY <1>1 DEF Live
<1>5. FlowStarts(a, tm', lcd.hd, ~lcd.fin /\ FlowLcd(lcd, f).fin)
  BY <1>1, <1>2, FlowStart
<1>6. CASE Opening
  <2>1. f = OpenFn /\ t = lcd.hd /\ ~lcd.fin /\ t \notin tm.run
    BY <1>1, <1>4, <1>6 DEF Opening
  <2>2. main.panel
    BY <1>6, <2>1 DEF Opening
  <2>3. OpenFn \in Func /\ <<>> \in Seq(Moves) /\ Flow(OpenFn) = OpenFlow
    BY FuncTypes, Flows
  <2>4. lcd.done = <<>> \o Ran(OpenFn, lcd.cnt)
    BY <1>6 DEF Opening
  <2>5. /\ lcd'.cnt \in Nat /\ lcd'.done = <<>> \o Ran(OpenFn, lcd'.cnt)
        /\ lcd'.hd = lcd.hd /\ (lcd'.fin => lcd'.cnt > Len(OpenFlow))
    <3> DEFINE n == FlowLcd(lcd, OpenFn)
    <3>1. lcd' = n /\ IsLcd(lcd)
      BY <1>1, <2>1
    <3>2. /\ n.cnt \in Nat /\ n.done = <<>> \o Ran(OpenFn, n.cnt)
          /\ n.hd = lcd.hd
          /\ n.fin => lcd.fin \/ n.cnt > Len(Flow(OpenFn))
      BY <1>3, <2>3, <2>4, <3>1, FlowRuns
    <3> HIDE DEF n
    <3> QED
      BY <2>1, <2>3, <3>1, <3>2
  <2> HIDE DEF f
  <2>6. \A s \in Timer : tm'.func[s] # CloseFn
    BY <1>2, <1>5, <1>6 DEF FlowStarts, Opening
  <2>7. ASSUME NEW s \in Live(tm'), tm'.func[s] = OpenFn
        PROVE  s = lcd'.hd /\ ~lcd'.fin /\ ~(s \in tm'.run /\ s \in tm'.stats)
    <3>1. tm'.stats = {} /\ tm'.func = tm.func /\ s \in tm'.run
      BY <1>2, <1>5, <2>7 DEF FlowStarts, Live
    <3>2. s \notin tm.run
      <4>1. s \in tm.run => s \in Live(tm) /\ tm.func[s] = OpenFn
        BY <2>7, <3>1 DEF Live
      <4>2. s \in tm.run => s = lcd.hd
        BY <1>6, <4>1 DEF Opening
      <4> QED
        BY <2>1, <4>2
    <3>3. s = lcd.hd /\ ~(~lcd.fin /\ FlowLcd(lcd, f).fin)
      BY <1>2, <1>5, <3>1, <3>2 DEF FlowStarts
    <3> QED
      BY <1>1, <2>1, <2>5, <3>1, <3>3
  <2>8. main'.pc \notin Closes /\ (main'.pc = "uninstall" => main'.call = NoCall)
        /\ main'.panel
    BY <1>1, <1>6, <2>2 DEF Opening
  <2>9. Opening'
    BY <2>5, <2>6, <2>7, <2>8 DEF Opening
  <2> QED
    BY <2>5, <2>9 DEF Ordered
<1>7. CASE Closing
  <2>1. f = CloseFn /\ main.pc # "close_store"
    BY <1>1, <1>4, <1>7 DEF Closing
  <2>2. /\ tm'.func = tm.func /\ lcd' = FlowLcd(lcd, CloseFn)
        /\ Live(tm') \subseteq Live(tm) \cup ({lcd.hd} \cap Timer)
    <3>1. a.used \subseteq Timer
      BY <1>2 DEF TimerState
    <3> QED
      BY <1>1, <1>2, <1>5, <2>1, <3>1 DEF FlowStarts, Live
  <2>3. /\ AtEnd' /\ main'.pc # "close_store" /\ main'.panel = main.panel
        /\ main'.pc = "uninstall" /\ main'.call # NoCall => main'.call.t = lcd.hd
    BY <1>1, <1>7, <2>1 DEF Closing, AtEnd
  <2> HIDE DEF f
  <2> QED
    BY <1>1, <1>3, <1>7, <2>1, <2>2, <2>3, OrderClosing
<1> QED
  BY <1>3, <1>6, <1>7

----------------------------------------------------------------------------
\* What has run is a beginning of both flows, or of the closing one.
LEMMA OrderFlow == Order => FlowInOrder
<1>0. /\ Opened = IF main.panel THEN Steps(OpenFn, 0, Len(OpenFlow)) ELSE <<>>
      /\ AllOf(CloseFn) = Steps(CloseFn, 0, Len(CloseFlow))
  BY Flows DEF AllOf, Opened
<1> SUFFICES ASSUME Ordered
             PROVE  IsPrefix(lcd.done, Opened \o AllOf(CloseFn))
  BY <1>0 DEF Order, FlowInOrder
<1>1. lcd.cnt \in Nat /\ (Opening \/ Closing) /\ OpenFn \in Func /\ CloseFn \in Func
  BY FuncTypes DEF Ordered
<1> DEFINE a == Opened
           b == AllOf(CloseFn)
<1>2. a \in Seq(Moves) /\ b \in Seq(Moves) /\ <<>> \in Seq(Moves)
  <2>1. AllOf(OpenFn) \in Seq(Moves) /\ b \in Seq(Moves) /\ <<>> \in Seq(Moves)
    BY <1>1, RanSeq
  <2> QED
    BY <2>1 DEF Opened
<1> HIDE DEF a, b
<1>3. CASE Opening
  <2> DEFINE s == Ran(OpenFn, lcd.cnt)
  <2>1. s \in Seq(Moves) /\ lcd.done = <<>> \o s
    BY <1>1, <1>3, RanSeq DEF Opening
  <2>2. \E x \in Seq(Moves) : a = s \o x
    <3>1. CASE main.panel
      BY <1>1, <3>1, RanPrefix DEF a, Opened
    <3>2. CASE ~main.panel
      <4>1. s = <<>> /\ a = <<>>
        BY <1>1, <1>3, <3>2, RanNone DEF Opening, a, Opened
      <4>2. a = s \o <<>>
        BY <1>2, <4>1, ConcatEmptySeq
      <4> QED
        BY <1>2, <4>2
    <3> QED
      BY <3>1, <3>2
  <2>3. PICK x \in Seq(Moves) : a = s \o x
    BY <2>2
  <2> HIDE DEF s
  <2>4. lcd.done = s
    BY <2>1, ConcatEmptySeq
  <2> DEFINE y == x \o b
             d == s \o y
  <2>5. y \in Seq(Moves)
    BY <1>2, <2>3, ConcatProperties
  <2>6. a \o b = d
    <3>1. (s \o x) \o b = s \o (x \o b)
      <4>1. s \in Seq(Moves) /\ x \in Seq(Moves) /\ b \in Seq(Moves)
        BY <1>2, <2>1, <2>3
      <4> QED
        BY <4>1, ConcatAssociative
    <3>2. a \o b = (s \o x) \o b
      BY <2>3
    <3> QED
      BY <3>1, <3>2 DEF d, y
  <2>7. IsPrefix(s, d)
    <3> HIDE DEF y
    <3> QED
      BY <2>1, <2>5, PrefixOf
  <2> QED
    BY <2>4, <2>6, <2>7 DEF a, b
<1>4. CASE Closing
  <2> DEFINE s == Ran(CloseFn, lcd.cnt)
             y == a \o s
  <2>1. s \in Seq(Moves) /\ lcd.done = y
    BY <1>1, <1>4, RanSeq DEF Closing, a
  <2>2. PICK x \in Seq(Moves) : b = s \o x
    BY <1>1, RanPrefix DEF b
  <2> HIDE DEF s
  <2>3. y \in Seq(Moves)
    BY <1>2, <2>1, ConcatProperties
  <2>4. y \o x = a \o b
    <3>1. (a \o s) \o x = a \o (s \o x)
      <4>1. a \in Seq(Moves) /\ s \in Seq(Moves) /\ x \in Seq(Moves)
        BY <1>2, <2>1, <2>2
      <4> QED
        BY <4>1, ConcatAssociative
    <3>2. a \o b = a \o (s \o x)
      BY <2>2
    <3> QED
      BY <3>1, <3>2 DEF y
  <2>5. IsPrefix(y, a \o b)
    <3> HIDE DEF y
    <3> QED
      BY <2>2, <2>3, <2>4, PrefixOf
  <2> QED
    BY <2>1, <2>5 DEF a, b
<1> QED
  BY <1>1, <1>3, <1>4

\* A panel switched off too early stays noted.
LEMMA MixedKept ==
  ASSUME Types, Aside \/ Panel, lcd.mixed
  PROVE  lcd'.mixed
<1>1. IsLcd(lcd)
  BY DEF Types
<1>2. CASE Aside \/ CallStore
  BY <1>2 DEF Aside, CallStore
<1>3. CASE OpenDisplay
  <2> DEFINE l == [lcd EXCEPT !.hd = RequestHandle(tm)]
  <2>1. lcd' = lcd \/ lcd' = FlowLcd(l, OpenFn)
    BY <1>3 DEF OpenDisplay
  <2>2. IsLcd(l) /\ l.mixed = lcd.mixed
    <3>1. RequestHandle(tm) \in Handle
      BY Requests, FuncTypes DEF Types
    <3> DEFINE h == RequestHandle(tm)
    <3>2. h \in Handle /\ l = [lcd EXCEPT !.hd = h]
      BY <3>1
    <3> HIDE DEF h, l
    <3> QED
      BY <1>1, <3>2 DEF IsLcd
  <2>3. FlowLcd(l, OpenFn).mixed = l.mixed
    <3> HIDE DEF l
    <3> QED
      BY <2>2, FlowFields
  <2> QED
    BY <2>1, <2>2, <2>3
<1>4. CASE WaitClear \/ UninstallClear \/ CloseFirst
  <2>1. lcd' = CheckedLcd(lcd) \/ lcd' = FlowLcd(lcd, CloseFn)
    BY <1>4 DEF WaitClear, UninstallClear, CloseFirst
  <2>2. FlowLcd(lcd, CloseFn).mixed = lcd.mixed
    BY <1>1, FlowFields
  <2>3. CheckedLcd(lcd).mixed = lcd.mixed
    BY <1>1, <1>4 DEF CheckedLcd, IsLcd
  <2> QED
    BY <2>1, <2>2, <2>3
<1>5. CASE CloseRequest \/ CloseStore
  BY <1>1, <1>5 DEF CloseRequest, CloseStore, IsLcd
<1>6. ASSUME NEW t \in Timer, PanelTimer(t) PROVE lcd'.mixed
  <2>1. lcd' = FlowLcd(lcd, tm.func[t])
    BY <1>6 DEF PanelTimer
  <2> QED
    BY <1>1, <2>1, FlowFields
<1> QED
  BY <1>2, <1>3, <1>4, <1>5, <1>6 DEF Panel

\* Every step keeps the order ...
Whole == IInv /\ Legal /\ Beginning /\ Order
LEMMA OrderStep == Whole /\ [Next]_vars => Whole'
<1> SUFFICES ASSUME Whole, [Next]_vars PROVE Whole'
  OBVIOUS
<1>1. IInv /\ IInv' /\ Types /\ Legal /\ Beginning /\ Legal' /\ Beginning'
  BY StepInv, LegalStep DEF Whole, IInv
<1>2. ASSUME ~lcd'.mixed, ~plug'.raced PROVE Ordered'
  <2>1. ~plug.raced /\ Own
    BY <1>1, <1>2, RacedKept DEF IInv
  <2>2. Aside \/ Panel
    BY <1>1, <1>2, AsideStep
  <2>3. Ordered
    BY <1>1, <1>2, <2>1, <2>2, MixedKept DEF Whole, Order
  <2>4. CASE Aside
    <3>1. tm' \in TimerState /\ lcd.hd \in Handle
      BY <1>1 DEF IInv, Types, IsLcd
    <3> QED
      BY <2>3, <2>4, <3>1, AsideOrder
  <2>5. CASE main.call # NoCall /\ Panel
    <3>1. \/ CallStore /\ main.pc \in {"close_store", "uninstall"}
          \/ \E t \in Timer : PanelTimer(t)
      BY <2>5 DEF Panel
    <3> QED
      BY <1>1, <2>3, <3>1, OrderTake, OrderTimer
  <2>6. CASE main.call = NoCall /\ Panel
    BY <1>1, <1>2, <2>1, <2>3, <2>6, OrderOpen, OrderClear, OrderRequest, OrderStore,
       OrderFirst, OrderTake, OrderTimer DEF Panel
  <2> QED
    BY <2>2, <2>4, <2>5, <2>6
<1> QED
  BY <1>1, <1>2 DEF Whole, Order

\* ... which is there at the start.
LEMMA OrderInit == Init => Whole
<1> SUFFICES ASSUME Init PROVE Whole
  OBVIOUS
<1>1. /\ main.pc = "display" /\ ~main.panel /\ lcd.cnt = 0 /\ ~lcd.fin
      /\ lcd.done = <<>> /\ tm = TimerInit
  BY DEF Init
<1>2. tm.run = {} /\ tm.stats = {} /\ \A t \in Timer : tm.func[t] = NoFunc
  BY <1>1 DEF TimerInit
<1>3. NoFunc \notin {OpenFn, CloseFn} /\ OpenFn \in Func
  BY NoFuncAssumption, FnAssumption
<1>4. lcd.done = <<>> \o Ran(OpenFn, lcd.cnt)
  <2>1. Ran(OpenFn, 0) = <<>>
    BY <1>3, RanNone
  <2> QED
    BY <1>1, <2>1
<1>5. Opening
  BY <1>1, <1>2, <1>3, <1>4 DEF Opening, Live, Closes
<1>6. Legal /\ Beginning
  <2>1. main.then = ""
    BY Zenon DEF Init
  <2>2. Legal
    BY <2>1, Zenon DEF Legal, Homes
  <2> QED
    BY <1>1, <2>2 DEF Beginning
<1> QED
  BY <1>1, <1>5, <1>6, InitInv DEF Whole, Order, Ordered

\* The steps of the panel's flows, of any length and with any delays, run once
\* each and in order, the closing ones after the opening ones, whatever the
\* detection does with the other timer and at whatever point of a call for a
\* timer an interrupt meets the main program (unless DRV_lcd_close comes before
\* the end of the opening flow, or a change at the plug meets such a call).
THEOREM StepsInOrder == Spec => []FlowInOrder
<1>1. Spec => []Whole
  BY OrderInit, OrderStep, PTL DEF Spec
<1>2. Whole => FlowInOrder
  BY OrderFlow DEF Whole
<1> QED
  BY <1>1, <1>2, PTL
=============================================================================
