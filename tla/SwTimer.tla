------------------------------ MODULE SwTimer ------------------------------
(***************************************************************************)
(* The two hardware timers of boot1 (core/drivers/timer/sw_timer.c) and    *)
(* the interrupt enables they use (int_service_entry.c), as functions on   *)
(* the record of their registers and their management structures.          *)
(*                                                                         *)
(* Two registers do not hold what is written to them.  A bit of the timer  *)
(* status is cleared by writing 1 (eGon2_timer_init clears both that way), *)
(* and the interrupt controller's set-enable register only ever sets.      *)
(***************************************************************************)
EXTENDS Naturals, FiniteSets

CONSTANTS Func,    \* call-back functions
          NoFunc   \* no function given yet

ASSUME NoFuncAssumption == NoFunc \notin Func

Timer == 0 .. 1              \* CFG_SW_TIMER_MAX
NoTimer == 2                 \* a handle of 0
Irq == {"timer0", "timer1", "usb", "nmi"}
TimerIrqNo(t) == IF t = 0 THEN "timer0" ELSE "timer1"

\* used and func: timer_port and timer_int_func.  run: timers that count.
\* ctrl, stats: CFG_SW_TIMER_INT_CTRL and CFG_SW_TIMER_INT_STATS.  gic: the
\* interrupts enabled in the controller.  History: fresh, the timers that
\* have not expired since they were last started, and lost, those whose
\* interrupt was cleared before it was taken.
TimerState ==
  [used : SUBSET Timer, func : [Timer -> Func \cup {NoFunc}],
   run : SUBSET Timer, ctrl : SUBSET Timer, stats : SUBSET Timer,
   gic : SUBSET Irq, fresh : SUBSET Timer, lost : SUBSET Timer]

TimerInit ==
  [used |-> {}, func |-> [t \in Timer |-> NoFunc],
   run |-> {}, ctrl |-> {}, stats |-> {},
   gic |-> {}, fresh |-> {}, lost |-> {}]

\* eGon2_EnableInt and eGon2_DisableInt read the set-enable register, change
\* the bit and write the value back; ones set, zeros do nothing.
WriteSetEnable(m, value) == [m EXCEPT !.gic = @ \cup value]
EnableInt(m, irq) == WriteSetEnable(m, m.gic \cup {irq})
DisableInt(m, irq) == WriteSetEnable(m, m.gic \ {irq})

\* CFG_SW_TIMER_INT_STATS |= 1 << t: the value written is what was read and
\* the bit, and every one of it clears.
WriteStats(m, value) == [m EXCEPT !.stats = @ \ value]
ClearStat(m, t) ==
  [WriteStats(m, m.stats \cup {t}) EXCEPT
     !.lost = @ \cup ((m.stats \cap m.ctrl) \ {t})]

FreeTimers(m) == Timer \ m.used
\* eGon2_timer_request: the handle it returns and what it does.
RequestHandle(m) ==
  IF FreeTimers(m) = {} THEN NoTimer
  ELSE CHOOSE t \in FreeTimers(m) : \A s \in FreeTimers(m) : t <= s
\* Mutant: the request does not see that no timer is free.
RequestAnyway(m, f) ==
  [m EXCEPT !.used = @ \cup {RequestHandle(m)}, !.ctrl = @ \ {RequestHandle(m)}]
Request(m, f) ==
  LET t == RequestHandle(m) IN
  IF t = NoTimer THEN m
  ELSE [m EXCEPT !.used = @ \cup {t}, !.ctrl = @ \ {t}, !.run = @ \ {t},
                 !.func[t] = f]

\* Mutant: the interrupt is not enabled in the controller.
StartMasked(m, t) ==
  IF t \notin m.used THEN m
  ELSE [m EXCEPT !.ctrl = @ \cup {t}, !.run = @ \cup {t},
                 !.fresh = @ \cup {t}, !.lost = @ \ {t}]
\* eGon2_timer_start, always with auto_restart 0 here.
Start(m, t) ==
  IF t \notin m.used THEN m
  ELSE [EnableInt(m, TimerIrqNo(t)) EXCEPT
          !.ctrl = @ \cup {t}, !.run = @ \cup {t},
          !.fresh = @ \cup {t}, !.lost = @ \ {t}]

\* Mutant: a stopped timer keeps its status bit.
StopKeepsStat(m, t) ==
  IF t \notin m.used THEN m
  ELSE [DisableInt([m EXCEPT !.run = @ \ {t}], TimerIrqNo(t))
        EXCEPT !.ctrl = @ \ {t}]

\* eGon2_timer_stop, with the status bit.
Stop(m, t) ==
  IF t \notin m.used THEN m
  ELSE [DisableInt(ClearStat([m EXCEPT !.run = @ \ {t}], t), TimerIrqNo(t))
        EXCEPT !.ctrl = @ \ {t}]
\* eGon2_timer_release, without it.
Release(m, t) ==
  IF t \notin m.used THEN m
  ELSE [DisableInt([m EXCEPT !.run = @ \ {t}, !.ctrl = @ \ {t}],
                   TimerIrqNo(t)) EXCEPT !.used = @ \ {t}]
\* The hardware: a one-shot timer ends.
Expire(m, t) == [m EXCEPT !.run = @ \ {t}, !.stats = @ \cup {t},
                          !.fresh = @ \ {t}]


----------------------------------------------------------------------------
(* A system call runs with the interrupts as its caller left them          *)
(* (arm_swi_o.S), so a call of the main program takes several steps.  c is *)
(* the call under way: what it does, how far it is, its timer, the control *)
(* register it has loaded and the call-back of a request.                  *)
NoCall == [op |-> "none", at |-> "none", t |-> NoTimer, ctrl |-> {},
           fn |-> NoFunc]
\* The first step: the tests, what is written before the control register is
\* touched, and its load.  A request has only found a timer that is free.
Enters(m, op, t) == IF op = "request" THEN t # NoTimer ELSE t \in m.used
Entered(m, op, t) ==
  IF op = "request" \/ t \notin m.used THEN m
  ELSE LET n == [m EXCEPT !.run = @ \ {t}] IN
       IF op = "stop" THEN ClearStat(n, t) ELSE n
CallOf(m, op, t, f) ==
  IF ~Enters(m, op, t) THEN NoCall
  ELSE [op |-> op, at |-> IF op = "request" THEN "take" ELSE "store",
        t |-> t, ctrl |-> IF op = "request" THEN {} ELSE m.ctrl, fn |-> f]
\* A request takes the timer and loads the control register.
Taken(m, c) == [m EXCEPT !.used = @ \cup {c.t}]
TakenCall(m, c) == [c EXCEPT !.at = "store", !.ctrl = m.ctrl]
\* The control register is stored, and the rest of the call follows ...
Stored(m, c) ==
  LET n == [m EXCEPT !.ctrl = IF c.op = "start" THEN c.ctrl \cup {c.t}
                              ELSE c.ctrl \ {c.t}] IN
  CASE c.op = "request" -> [n EXCEPT !.run = @ \ {c.t}, !.func[c.t] = c.fn]
    [] c.op = "start" -> [EnableInt(n, TimerIrqNo(c.t)) EXCEPT
                            !.run = @ \cup {c.t}, !.fresh = @ \cup {c.t},
                            !.lost = @ \ {c.t}]
    [] OTHER -> DisableInt(n, TimerIrqNo(c.t))
StoredCall(c) == IF c.op = "release" THEN [c EXCEPT !.at = "free"] ELSE NoCall
\* ... but for a release, which frees the timer last.
Freed(m, c) == [m EXCEPT !.used = @ \ {c.t}]

\* What timer0_int_func and timer1_int_func find and what they do before the
\* call-back; restart is never set.
Pending(m, t) == t \in m.stats \cap m.ctrl /\ TimerIrqNo(t) \in m.gic
TakeTimerInt(m, t) == DisableInt(ClearStat(m, t), TimerIrqNo(t))
=============================================================================
