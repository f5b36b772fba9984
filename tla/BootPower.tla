----------------------------- MODULE BootPower -----------------------------
(***************************************************************************)
(* Boot_Android from the display to the jump into the system: BootMain,    *)
(* check_power_status with its charging screen, the detection of what is   *)
(* behind the USB plug, and the flow that switches the panel on and off.   *)
(* One main program and four interrupts (two timers, USB, power key and    *)
(* plug) share flags, handles and timers.                                  *)
(*                                                                         *)
(* An interrupt handler is one step.  The main program is interrupted      *)
(* between the calls it makes, between the load and the store of the flags *)
(* it clears with interrupts open, and inside its calls for a timer.       *)
(***************************************************************************)
EXTENDS SwTimer, SequencesExt

CONSTANTS OpenFlow, CloseFlow,  \* delays of the steps of the panel's flows
          OpenFn, CloseFn, UsbFn,
          MaxEvents             \* bound: changes at the plug, presses of the
                                \* power key, failures of the power chip

ASSUME FlowAssumption == OpenFlow \in Seq(BOOLEAN) /\ CloseFlow \in Seq(BOOLEAN)
ASSUME FnAssumption ==
  Func = {OpenFn, CloseFn, UsbFn} /\ UsbFn \notin {OpenFn, CloseFn}
                                  /\ OpenFn # CloseFn
ASSUME BoundAssumption == MaxEvents \in Nat

Flag == {"long", "short", "vbus", "host"}     \* bits 0 to 3 of the status
PlugEvents == {"remove", "insert"}
Event == PlugEvents \cup {"short", "long"}
Plug == {"none", "host", "charger"}

VARIABLES
  tm,      \* timers and interrupt enables
  lcd,     \* drv_de.c
  usb,     \* usb_storage_init.c
  flags,   \* power_ops_int_status
  pmu,     \* power_int_working, whether the chip's interrupt is on, and the
           \* events the power chip has latched
  plug,    \* what is plugged in; history: the number of events so far, and
           \* whether a change met the main program in the detection's code
           \* or in a call for a timer (torn), or in such a call (raced)
  main     \* the main program

vars == <<tm, lcd, usb, flags, pmu, plug, main>>

----------------------------------------------------------------------------
(* The flow of the panel.  A step with a delay ends the call; the timer's  *)
(* call-back goes on from there.                                           *)
Flow(f) == IF f = OpenFn THEN OpenFlow ELSE CloseFlow
\* The first step from i on with a delay, or the end of the flow.
StopsAt(f, i) ==
  CHOOSE j \in i .. Len(Flow(f)) :
    /\ j = Len(Flow(f)) \/ Flow(f)[j + 1]
    /\ \A k \in i .. j - 1 : ~Flow(f)[k + 1]
Steps(f, i, j) == [k \in 1 .. j - i + 1 |-> <<f, i + k - 1>>]
\* Mutant: the step that waits runs again after the delay.
FlowRepeats(l, f) ==
  LET j == StopsAt(f, l.cnt) IN
  IF l.cnt > Len(Flow(f)) THEN l
  ELSE [l EXCEPT !.cnt = j, !.fin = (@ \/ j = Len(Flow(f))),
                 !.done = IF Len(@) > 5 THEN @ ELSE @ \o Steps(f, l.cnt, j)]
\* DRV_lcd_open_callback and DRV_lcd_close_callback, called with l and m.
FlowLcd(l, f) ==
  LET j == StopsAt(f, l.cnt) IN
  IF l.cnt > Len(Flow(f)) THEN [l EXCEPT !.cnt = @ + 1]
  ELSE [l EXCEPT !.cnt = j + 1, !.fin = (@ \/ j = Len(Flow(f))),
                 !.done = @ \o Steps(f, l.cnt, j)]
FlowEnds(l, f) == l.cnt > Len(Flow(f)) \/ StopsAt(f, l.cnt) = Len(Flow(f))
FlowTm(l, f, m) == IF FlowEnds(l, f) THEN m ELSE Start(m, l.hd)

\* Mutant: the handle of the released timer is kept.
CheckedKeepsHandle(l) == l
\* DRV_lcd_check_open_finished, and the same at DRV_DE_EXIT, after the
\* release.
CheckedLcd(l) == IF l.fin THEN [l EXCEPT !.hd = NoTimer] ELSE l

----------------------------------------------------------------------------
(* The detection: a timer of 400 ms against a reset from a host.           *)
EnterUsb(u, m) ==
  LET h == IF u.hd = NoTimer THEN RequestHandle(m) ELSE u.hd IN
  [u EXCEPT !.working = TRUE, !.conn = TRUE, !.seen = FALSE, !.hd = h,
            !.young = @ \cup {h}]
EnterTm(u, m) ==
  EnableInt(Start(IF u.hd = NoTimer THEN Request(m, UsbFn) ELSE m,
                  EnterUsb(u, m).hd), "usb")
ExitUsb(u) ==
  [u EXCEPT !.working = FALSE, !.conn = FALSE, !.hd = NoTimer, !.young = {}]
ExitTm(u, m) == Release(Stop(DisableInt(m, "usb"), u.hd), u.hd)

----------------------------------------------------------------------------
Init ==
  /\ tm = TimerInit
  /\ lcd = [hd |-> NoTimer, cnt |-> 0, fin |-> FALSE, done |-> <<>>,
            mixed |-> FALSE]
  /\ usb = [hd |-> NoTimer, working |-> FALSE, conn |-> FALSE,
            seen |-> FALSE, young |-> {}, limit |-> "pc"]
  /\ flags = {}
  /\ pmu = [working |-> FALSE, nmi |-> "off", latch |-> {}]
  /\ \E p \in Plug : plug = [is |-> p, events |-> 0, torn |-> FALSE,
                           raced |-> FALSE]
  /\ main = [pc |-> "display", then |-> "", seen |-> {}, hd |-> NoTimer,
             ret |-> 0, screen |-> FALSE, panel |-> FALSE, call |-> NoCall]

Goto(p) == main' = [main EXCEPT !.pc = p]
\* A call of p that comes back to q.
Call(p, q) == main' = [main EXCEPT !.pc = p, !.then = q]
Back == main' = [main EXCEPT !.pc = main.then, !.then = "",
                            !.hd = NoTimer]
Return(r, p) == main' = [main EXCEPT !.pc = p, !.ret = r]
\* A call for timer h, at whose end the program is at p.
CallTimer(op, h, f, p) ==
  /\ tm' = Entered(tm, op, h)
  /\ main' = [main EXCEPT !.pc = p, !.hd = h, !.call = CallOf(tm, op, h, f)]

\* BoardInit_Display: without a display, with another display than the panel,
\* or with the panel going on.  No interrupt is enabled yet.
OpenDisplay ==
  /\ main.pc = "display"
  /\ \/ /\ \E d \in BOOLEAN :
             main' = [main EXCEPT !.pc = "power", !.screen = d]
        /\ UNCHANGED <<tm, lcd>>
     \/ LET l == [lcd EXCEPT !.hd = RequestHandle(tm)] IN
        /\ main' = [main EXCEPT !.pc = "power", !.screen = TRUE, !.panel = TRUE]
        /\ lcd' = FlowLcd(l, OpenFn)
        /\ tm' = FlowTm(l, OpenFn, Request(tm, OpenFn))
  /\ UNCHANGED <<usb, flags, pmu, plug>>

\* check_power_status up to the charging screen.
CheckPower ==
  /\ main.pc = "power"
  /\ \/ Return(-1, "exit") \/ Return(0, "os") \/ Call("wait", "charge")
  /\ UNCHANGED <<tm, lcd, usb, flags, pmu, plug>>

\* WaitForDeInitFinish looks every 50 ms and gives up after 5 s; without a
\* display it ends at once.
WaitFinished ==
  /\ main.pc = "wait" /\ main.panel /\ lcd.fin
  /\ CallTimer("release", lcd.hd, NoFunc, "wait_clear")
  /\ UNCHANGED <<lcd, usb, flags, pmu, plug>>
WaitClear ==
  /\ main.pc = "wait_clear"
  /\ lcd' = CheckedLcd(lcd)
  /\ Back
  /\ UNCHANGED <<tm, usb, flags, pmu, plug>>
WaitGivesUp ==
  /\ main.pc = "wait" /\ (main.panel => ~lcd.fin)
  /\ Back
  /\ UNCHANGED <<tm, lcd, usb, flags, pmu, plug>>

----------------------------------------------------------------------------
(* Procedures of the main program.                                         *)
\* boot_power_int_enable and boot_power_int_disable, with power_int_working:
\* when the power chip does not answer they return before they touch the
\* interrupt; an enabled one is then left with the chip half changed.
SwitchPower(working, nmi) ==
  \/ pmu' = [pmu EXCEPT !.working = working, !.nmi = nmi] /\ UNCHANGED plug
  \/ /\ plug.events < MaxEvents
     /\ plug' = [plug EXCEPT !.events = @ + 1]
     /\ pmu' = [pmu EXCEPT !.working = working,
                           !.nmi = IF @ = "off" THEN "off" ELSE "left"]

\* power_int_reg: flags start anew only when it is not at work already.
RegisterPower ==
  /\ main.pc = "register"
  /\ IF pmu.working THEN UNCHANGED <<tm, flags, pmu, plug>>
     ELSE /\ flags' = {} /\ SwitchPower(TRUE, "on")
          /\ tm' = EnableInt(tm, "nmi")
  /\ Back
  /\ UNCHANGED <<lcd, usb>>

\* usb_detect_enter, interrupted between the test and the setting of
\* usb_working, around and inside the calls for its timer.
EnterTest ==
  /\ main.pc = "enter"
  /\ IF usb.working THEN Back ELSE Goto("enter_set")
  /\ UNCHANGED <<tm, lcd, usb, flags, pmu, plug>>
EnterSet ==
  /\ main.pc = "enter_set"
  /\ usb' = [usb EXCEPT !.working = TRUE, !.seen = FALSE]
  /\ IF usb.hd = NoTimer THEN Goto("enter_request")
     ELSE main' = [main EXCEPT !.pc = "enter_start", !.hd = usb.hd]
  /\ UNCHANGED <<tm, lcd, flags, pmu, plug>>
EnterRequest ==
  /\ main.pc = "enter_request"
  /\ CallTimer("request", RequestHandle(tm), UsbFn, "enter_store")
  /\ UNCHANGED <<lcd, usb, flags, pmu, plug>>
EnterStore ==
  /\ main.pc = "enter_store"
  /\ usb' = [usb EXCEPT !.hd = main.hd]
  /\ Goto("enter_start")
  /\ UNCHANGED <<tm, lcd, flags, pmu, plug>>
EnterStart ==
  /\ main.pc = "enter_start"
  /\ CallTimer("start", main.hd, NoFunc, "enter_connect")
  /\ usb' = [usb EXCEPT !.young = @ \cup {main.hd}]
  /\ UNCHANGED <<lcd, flags, pmu, plug>>
EnterConnect ==
  /\ main.pc = "enter_connect"
  /\ tm' = EnableInt(tm, "usb")
  /\ usb' = [usb EXCEPT !.conn = TRUE]
  /\ Back
  /\ UNCHANGED <<lcd, flags, pmu, plug>>

\* usb_detect_exit with interrupts open.
ExitClear ==
  /\ main.pc = "leave"
  /\ usb' = [usb EXCEPT !.working = FALSE]
  /\ Goto("leave_clock")
  /\ UNCHANGED <<tm, lcd, flags, pmu, plug>>
\* Mutant: the timer is left to run out.
ExitKeepsTimer ==
  /\ main.pc = "leave_clock"
  /\ usb' = [usb EXCEPT !.conn = FALSE]
  /\ Back
  /\ UNCHANGED <<tm, lcd, flags, pmu, plug>>
ExitClock ==
  /\ main.pc = "leave_clock"
  /\ usb' = [usb EXCEPT !.conn = FALSE]
  /\ tm' = DisableInt(tm, "usb")
  /\ IF usb.hd = NoTimer THEN Back
     ELSE main' = [main EXCEPT !.pc = "leave_stop", !.hd = usb.hd]
  /\ UNCHANGED <<lcd, flags, pmu, plug>>
ExitStop ==
  /\ main.pc = "leave_stop"
  /\ CallTimer("stop", main.hd, NoFunc, "leave_release")
  /\ UNCHANGED <<lcd, usb, flags, pmu, plug>>
ExitRelease ==
  /\ main.pc = "leave_release"
  /\ CallTimer("release", main.hd, NoFunc, "leave_store")
  /\ UNCHANGED <<lcd, usb, flags, pmu, plug>>
ExitStore ==
  /\ main.pc = "leave_store"
  /\ usb' = [usb EXCEPT !.hd = NoTimer]
  /\ Back
  /\ UNCHANGED <<tm, lcd, flags, pmu, plug>>

\* power_int_rel, and with usb_detect_exit after it in the sections that
\* close the interrupts.
ReleasePower ==
  /\ main.pc = "release"
  /\ SwitchPower(FALSE, "off") /\ flags' = {}
  /\ tm' = DisableInt(tm, "nmi")
  /\ Goto("leave")
  /\ UNCHANGED <<lcd, usb>>
ReleaseBoth ==
  /\ SwitchPower(FALSE, "off") /\ flags' = {}
  /\ tm' = ExitTm(usb, DisableInt(tm, "nmi"))
  /\ usb' = ExitUsb(usb)

\* power_ops_int_status &= ~bit: a load and a store.
LoadFlags(p) == main' = [main EXCEPT !.pc = p, !.seen = flags]
StoreFlags(bit, from, to) ==
  /\ main.pc = from
  /\ flags' = main.seen \ {bit}
  /\ main' = [main EXCEPT !.pc = to, !.seen = {}]
  /\ UNCHANGED <<tm, lcd, usb, pmu, plug>>

----------------------------------------------------------------------------
(* The charging screen of check_power_status.                              *)
StartCharge ==
  /\ main.pc = "charge"
  /\ Call("register", "detect")
  /\ UNCHANGED <<tm, lcd, usb, flags, pmu, plug>>
FirstDetect ==
  /\ main.pc = "detect"
  /\ Call("enter", "battery")
  /\ UNCHANGED <<tm, lcd, usb, flags, pmu, plug>>
Battery ==
  /\ main.pc = "battery"
  /\ Goto("poll") \/ Call("release", "os")
  /\ UNCHANGED <<tm, lcd, usb, flags, pmu, plug>>

\* The loops that show the charge and look at the keys; they end when the
\* picture has been shown often enough.
PollShort ==
  /\ main.pc = "poll" /\ "short" \in flags
  /\ LoadFlags("clear_short")
  /\ UNCHANGED <<tm, lcd, usb, flags, pmu, plug>>
PollLong ==
  /\ main.pc = "poll" /\ "short" \notin flags /\ "long" \in flags
  /\ ReleaseBoth
  /\ Call("register", "os")
  /\ UNCHANGED lcd
PollEnds ==
  /\ main.pc = "poll" /\ "short" \notin flags /\ "long" \notin flags
  /\ Goto("standby")
  /\ UNCHANGED <<tm, lcd, usb, flags, pmu, plug>>

\* One round of the loop around standby: a plug seen meanwhile, or standby
\* until something wakes the machine.
StandbyVbus ==
  /\ main.pc = "standby" /\ "vbus" \in flags
  /\ LoadFlags("clear_vbus")
  /\ UNCHANGED <<tm, lcd, usb, flags, pmu, plug>>
StandbyEnter ==
  /\ main.pc = "standby" /\ "vbus" \notin flags
  /\ ReleaseBoth
  /\ Goto("asleep")
  /\ UNCHANGED lcd
\* What wBoot_standby returns and where it leads: a short press (2), a long
\* one (3), the end of charging or of the supply (4 to 7), a plug (8),
\* another supply (9) or none of these.  Standby has an interrupt of the
\* power chip of its own, over the same registers, and asks it for events.
Standby ==
  \/ UNCHANGED <<pmu, plug>>
  \/ \E events \in {{}, pmu.latch} :
       \/ /\ pmu' = [pmu EXCEPT !.nmi = "off", !.latch = events]
          /\ UNCHANGED plug
       \/ /\ plug.events < MaxEvents
          /\ plug' = [plug EXCEPT !.events = @ + 1]
          /\ pmu' = [pmu EXCEPT !.nmi = "left", !.latch = events]
Wake ==
  /\ main.pc = "asleep"
  /\ Standby
  /\ tm' = DisableInt(EnableInt(tm, "nmi"), "nmi")
  /\ \/ Call("register", "poll") /\ UNCHANGED usb
     \/ Call("register", "os") /\ UNCHANGED usb
     \/ main' = [main EXCEPT !.pc = "register", !.then = "exit", !.ret = -1]
        /\ UNCHANGED usb
     \/ Call("enter", "delay") /\ UNCHANGED usb
     \/ Goto("standby") /\ usb' = [usb EXCEPT !.limit = "pc"]
     \/ Goto("standby") /\ UNCHANGED usb
  /\ UNCHANGED <<lcd, flags>>
\* Case 8: the detection, 600 ms for it, and its end.
Case8 ==
  /\ main.pc = "case8"
  /\ Call("enter", "delay")
  /\ UNCHANGED <<tm, lcd, usb, flags, pmu, plug>>
Delay8 ==
  /\ main.pc = "delay"
  /\ Call("leave", "standby")
  /\ UNCHANGED <<tm, lcd, usb, flags, pmu, plug>>

----------------------------------------------------------------------------
(* The rest of BootMain.  BootOS_detect_os_type waits for the panel when   *)
(* it has loaded the system; when it fails it does not.                    *)
DetectOs ==
  /\ main.pc = "os"
  /\ \/ main' = [main EXCEPT !.pc = "wait", !.then = "exit", !.ret = 0]
     \/ Return(-2, "exit")
  /\ UNCHANGED <<tm, lcd, usb, flags, pmu, plug>>

\* BoardExit_Display switches the panel off, whatever the display, unless a
\* logo stays on it.
Exit(p) == main' = [main EXCEPT !.pc = p, !.ret = 0]
PanelOff ==
  /\ main.pc = "exit"
  /\ \/ (main.ret = 0 \/ ~main.screen) /\ Exit("uninstall")
     \/ main.screen /\ Exit("close")
  /\ UNCHANGED <<tm, lcd, usb, flags, pmu, plug>>
\* DRV_lcd_close, interrupted around and inside its calls for the timer.
CloseRequest ==
  /\ main.pc = "close"
  /\ lcd' = [lcd EXCEPT !.cnt = 0, !.fin = FALSE,
                        !.mixed = @ \/ (main.panel /\ ~lcd.fin)]
  /\ CallTimer("request", RequestHandle(tm), CloseFn, "close_store")
  /\ UNCHANGED <<usb, flags, pmu, plug>>
CloseStore ==
  /\ main.pc = "close_store"
  /\ lcd' = [lcd EXCEPT !.hd = main.hd]
  /\ Goto("close_first")
  /\ UNCHANGED <<tm, usb, flags, pmu, plug>>
CloseFirst ==
  /\ main.pc = "close_first"
  /\ lcd' = FlowLcd(lcd, CloseFn)
  /\ IF FlowEnds(lcd, CloseFn) THEN Goto("uninstall") /\ UNCHANGED tm
     ELSE CallTimer("start", lcd.hd, NoFunc, "uninstall")
  /\ UNCHANGED <<usb, flags, pmu, plug>>
\* DRV_DE_EXIT, and power_int_rel and usb_detect_exit; then all that is left
\* is the jump, 50 ms away when it leads to the FEL mode or to power off.
Uninstall ==
  /\ main.pc = "uninstall"
  /\ IF lcd.fin THEN CallTimer("release", lcd.hd, NoFunc, "uninstall_clear")
     ELSE Call("release", "done") /\ UNCHANGED tm
  /\ UNCHANGED <<lcd, usb, flags, pmu, plug>>
UninstallClear ==
  /\ main.pc = "uninstall_clear"
  /\ lcd' = CheckedLcd(lcd)
  /\ Call("release", "done")
  /\ UNCHANGED <<tm, usb, flags, pmu, plug>>

\* The further steps of a call for a timer.
CallTake ==
  /\ main.call.at = "take"
  /\ tm' = Taken(tm, main.call)
  /\ main' = [main EXCEPT !.call = TakenCall(tm, @)]
  /\ UNCHANGED <<lcd, usb, flags, pmu, plug>>
CallStore ==
  /\ main.call.at = "store"
  /\ tm' = Stored(tm, main.call)
  /\ main' = [main EXCEPT !.call = StoredCall(@)]
  /\ UNCHANGED <<lcd, usb, flags, pmu, plug>>
CallFree ==
  /\ main.call.at = "free"
  /\ tm' = Freed(tm, main.call)
  /\ main' = [main EXCEPT !.call = NoCall]
  /\ UNCHANGED <<lcd, usb, flags, pmu, plug>>
InCall == main.call # NoCall

Step ==
  \/ OpenDisplay \/ CheckPower \/ WaitFinished \/ WaitClear \/ WaitGivesUp
  \/ RegisterPower \/ EnterTest \/ EnterSet \/ EnterRequest \/ EnterStore
  \/ EnterStart \/ EnterConnect \/ ExitClear \/ ExitClock \/ ExitStop
  \/ ExitRelease \/ ExitStore \/ ReleasePower
  \/ StartCharge \/ FirstDetect \/ Battery \/ PollShort \/ PollLong
  \/ PollEnds \/ StandbyVbus \/ StandbyEnter \/ Wake \/ Case8 \/ Delay8
  \/ StoreFlags("short", "clear_short", "poll")
  \/ StoreFlags("vbus", "clear_vbus", "case8")
  \/ DetectOs \/ PanelOff \/ CloseRequest \/ CloseStore
  \/ CloseFirst \/ Uninstall \/ UninstallClear
Main == (~InCall /\ Step) \/ CallTake \/ CallStore \/ CallFree

----------------------------------------------------------------------------
(* The world and the interrupts.                                           *)
\* The power chip keeps an event until it is asked; whether it keeps those
\* that come while its interrupt is off, or half changed, is left open.
Latch(e) ==
  \/ pmu' = [pmu EXCEPT !.latch = @ \cup {e}]
  \/ pmu.nmi # "on" /\ UNCHANGED pmu
ChangePlug ==
  /\ plug.events < MaxEvents
  /\ \E p \in Plug :
       /\ (p = "none") # (plug.is = "none")
       /\ plug' = [plug EXCEPT !.is = p, !.events = @ + 1]
       /\ Latch(IF p = "none" THEN "remove" ELSE "insert")
  /\ UNCHANGED <<tm, lcd, usb, flags, main>>
PressKey ==
  /\ plug.events < MaxEvents
  /\ plug' = [plug EXCEPT !.events = @ + 1]
  /\ \E e \in {"short", "long"} : Latch(e)
  /\ UNCHANGED <<tm, lcd, usb, flags, main>>

\* Where the main program waits, loads or shows something.  The 400 ms of the
\* detection do not pass anywhere else; the delays of the panel may.
Waits == {"power", "wait", "battery", "poll", "standby", "asleep", "delay",
          "os", "exit"}
TimePasses ==
  /\ main.pc \in Waits /\ ~InCall /\ usb.young # {}
  /\ usb' = [usb EXCEPT !.young = {}]
  /\ UNCHANGED <<tm, lcd, flags, pmu, plug, main>>
TimerExpires(t) ==
  /\ t \in tm.run /\ (tm.func[t] = UsbFn => t \notin usb.young)
  /\ tm' = Expire(tm, t)
  /\ UNCHANGED <<lcd, usb, flags, pmu, plug, main>>

\* timer0_int_func and timer1_int_func with the call-back of the panel ...
PanelTimer(t) ==
  /\ Pending(tm, t) /\ tm.func[t] \in {OpenFn, CloseFn}
  /\ lcd' = FlowLcd(lcd, tm.func[t])
  /\ tm' = FlowTm(lcd, tm.func[t], TakeTimerInt(tm, t))
  /\ UNCHANGED <<usb, flags, pmu, plug, main>>
\* ... and with timer_test_usbdc: no host has answered, or bit 3 says that
\* one has.
UsbTimer(t) ==
  /\ Pending(tm, t) /\ tm.func[t] = UsbFn
  /\ IF "host" \in flags
     THEN /\ flags' = flags \ {"host"} /\ tm' = TakeTimerInt(tm, t)
          /\ usb' = [usb EXCEPT !.working = FALSE]
     ELSE /\ tm' = DisableInt(TakeTimerInt(tm, t), "usb")
          /\ usb' = [usb EXCEPT !.conn = FALSE, !.working = FALSE,
                                !.limit = "dc"]
          /\ UNCHANGED flags
  /\ UNCHANGED <<lcd, pmu, plug, main>>

\* Where the main program is in the code of the detection.
Inside == {"enter_set", "enter_request", "enter_store", "enter_start",
           "enter_connect", "leave_clock", "leave_stop", "leave_release",
           "leave_store"}
\* Mutant: the timer goes on after a host was seen.
UsbResetKeepsTimer ==
  /\ usb.conn /\ "usb" \in tm.gic /\ plug.is = "host"
  /\ flags' = flags \cup {"host"}
  /\ usb' = [usb EXCEPT !.conn = FALSE, !.limit = "pc",
                        !.working = FALSE, !.seen = TRUE]
  /\ plug' = [plug EXCEPT !.torn = @ \/ (InCall /\ main.pc \in Inside)]
  /\ UNCHANGED <<tm, lcd, pmu, main>>
\* usb_detect_irq_handler at the reset a host sends.
UsbReset ==
  /\ usb.conn /\ "usb" \in tm.gic /\ plug.is = "host"
  /\ flags' = flags \cup {"host"}
  /\ tm' = Release(Stop(DisableInt(tm, "usb"), usb.hd), usb.hd)
  /\ usb' = [usb EXCEPT !.conn = FALSE, !.hd = NoTimer, !.limit = "pc",
                        !.working = FALSE, !.seen = TRUE]
  /\ plug' = [plug EXCEPT !.torn = @ \/ (InCall /\ main.pc \in Inside)]
  /\ UNCHANGED <<lcd, pmu, main>>

\* power_int_handler, told the events s: of a removal and an insertion, and
\* of a short and a long press, it looks at one.
KeyFlags(s) ==
  IF "short" \in s THEN {"short"}
  ELSE IF "long" \in s THEN {"long"} ELSE {}
HandlePower(s) ==
  \/ /\ "remove" \in s
     /\ usb' = [ExitUsb(usb) EXCEPT !.limit = "pc"] /\ tm' = ExitTm(usb, tm)
     /\ flags' = flags \cup KeyFlags(s)
  \/ /\ "remove" \notin s /\ "insert" \in s
     /\ flags' = flags \cup {"vbus"} \cup KeyFlags(s)
     /\ IF usb.working THEN UNCHANGED <<usb, tm>>
        ELSE usb' = EnterUsb(usb, tm) /\ tm' = EnterTm(usb, tm)
  \/ /\ "remove" \notin s /\ "insert" \notin s
     /\ flags' = flags \cup KeyFlags(s)
     /\ UNCHANGED <<usb, tm>>
Note(s, n) ==
  LET met(there) == s \cap PlugEvents # {} /\ there IN
  plug' = [plug EXCEPT !.events = @ + n,
             !.torn = @ \/ met(main.pc \in Inside \/ InCall),
             !.raced = @ \/ met(InCall)]
Nmi == pmu.nmi # "off" /\ pmu.latch # {} /\ "nmi" \in tm.gic
\* The events are read and cleared ...
PowerInt ==
  /\ Nmi
  /\ HandlePower(pmu.latch) /\ Note(pmu.latch, 0)
  /\ pmu' = [pmu EXCEPT !.latch = {}]
  /\ UNCHANGED <<lcd, main>>
\* ... or the power chip stops answering, before or after it has told and
\* cleared its bytes: the result of the query is not looked at, and the byte
\* of the keys may be what was on the stack.
PowerIntFails ==
  /\ Nmi /\ plug.events < MaxEvents
  /\ \E keys \in SUBSET (Event \ PlugEvents) :
     \E got, gone \in {{}, pmu.latch \cap PlugEvents, pmu.latch} :
       /\ gone \subseteq got /\ gone \ PlugEvents \subseteq keys
       /\ HandlePower((got \cap PlugEvents) \cup keys)
       /\ Note(got, 1)
       /\ pmu' = [pmu EXCEPT !.latch = @ \ gone]
  /\ UNCHANGED <<lcd, main>>

Interrupt ==
  \/ \E t \in Timer : PanelTimer(t) \/ UsbTimer(t)
  \/ UsbReset \/ PowerInt \/ PowerIntFails
Next ==
  \/ Main \/ Interrupt
  \/ ChangePlug \/ PressKey \/ TimePasses \/ \E t \in Timer : TimerExpires(t)

\* The processor goes on, time passes, and a pending interrupt is taken.
Fairness ==
  /\ WF_vars(Main)
  /\ \A t \in Timer : /\ WF_vars(TimerExpires(t))
                     /\ WF_vars(PanelTimer(t)) /\ WF_vars(UsbTimer(t))
Spec == Init /\ [][Next]_vars /\ Fairness

----------------------------------------------------------------------------
(* Properties.                                                             *)
PowerOk == flags \subseteq Flag /\ pmu.latch \subseteq Event
\* Registers, handles and flags keep their ranges.
TypeOK ==
  /\ tm \in TimerState
  /\ lcd.hd \in Timer \cup {NoTimer} /\ usb.hd \in Timer \cup {NoTimer}
  /\ PowerOk

\* Unless a change at the plug meets the main program inside a call for a
\* timer, a handle that a client keeps is a timer in use that calls this
\* client; so the panel and the detection never stop or free each other's
\* timer.  (Of the handle the main program frees nobody may ask it.)
Owns(hd, fns) == hd # NoTimer => hd \in tm.used /\ tm.func[hd] \in fns
DistinctTimers ==
  ~plug.raced =>
    /\ main.pc # "leave_store" => Owns(usb.hd, {UsbFn})
    /\ main.pc \notin {"wait_clear", "uninstall_clear"} =>
         Owns(lcd.hd, {OpenFn, CloseFn})

\* No call-back runs before the delay of the last start has passed: a status
\* bit left by an earlier owner or an earlier start never counts.  (A panel
\* switched off while it goes on has two flows on its timers.)
NoEarlyCallback ==
  [][\A t \in Timer :
       (UsbTimer(t) \/ PanelTimer(t)) /\ ~plug.torn /\ ~lcd.mixed
         => t \notin tm.fresh]_vars

\* The limit of a charger is never set by a detection in which a host has
\* reset the bus, whichever of the time-out and the reset comes first.
DcOnlyUnanswered ==
  [][usb'.limit = "dc" /\ usb.limit = "pc" => ~usb.seen \/ plug.torn]_vars

\* Unless the panel is switched off while it is still going on, or a change
\* at the plug meets the main program inside a call for a timer, the steps of
\* its flows run once each and in order, each closing step after the opening
\* ones.
FlowInOrder ==
  ~lcd.mixed /\ ~plug.raced =>
    IsPrefix(lcd.done,
             (IF main.panel THEN Steps(OpenFn, 0, Len(OpenFlow)) ELSE <<>>)
               \o Steps(CloseFn, 0, Len(CloseFlow)))

\* Until boot1 hands over, once its last release has switched the power
\* chip's interrupt off, the detection is over and no timer of it can fire.
QuietAtEnd ==
  main.pc = "done" /\ pmu.nmi = "off" /\ ~plug.torn =>
    /\ ~usb.working /\ ~usb.conn
    /\ \A t \in tm.run \cup {s \in Timer : Pending(tm, s)} :
         tm.func[t] # UsbFn

\* The opening flow of the panel ends, unless boot1 leaves before, switches
\* the panel off, or an interrupt was cleared together with the other timer's.
OpenEnds ==
  main.panel ~> (lcd.fin \/ tm.lost # {} \/ lcd.mixed \/ main.pc = "done")
=============================================================================
