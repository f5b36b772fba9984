----------------------------- MODULE SectorDisk -----------------------------
(***************************************************************************)
(* What the NAND driver promises its callers (the MBR code, the file       *)
(* systems, the card-production program): a disk of sectors served by one  *)
(* request at a time.  A sector has the value last written to it; a value  *)
(* reaches the medium at some moment between the write and the end of the  *)
(* next flush, and the values the medium holds are the ones that survive a *)
(* loss of power.                                                          *)
(***************************************************************************)
EXTENDS Integers

CONSTANTS Lba,      \* the sectors of the logical disk
          Value,    \* what a sector can hold
          Blank     \* what a sector holds before the first write

VARIABLES view,     \* the disk as the caller knows it: last value written
          stable,   \* the disk as a loss of power would leave it
          phase,    \* what the driver is doing for its caller
          left,     \* the sectors of the request still to be served
          buf       \* the caller's buffer, a function on some of the sectors

diskVars == <<view, stable, phase, left, buf>>

NoData == [a \in {} |-> Blank]

\* Some sectors of the medium take the value the caller last gave them.
Settle(new) ==
  /\ stable' \in [Lba -> Value]
  /\ \A a \in Lba : stable'[a] \in {stable[a], new[a]}

DiskInit ==
  /\ view = [a \in Lba |-> Blank]
  /\ stable = view
  /\ phase = "idle"
  /\ left = {}
  /\ buf = NoData

BeginWrite ==
  /\ phase = "idle"
  /\ phase' = "writing"
  /\ left' \in SUBSET Lba /\ buf' \in [left' -> Value]
  /\ UNCHANGED <<view, stable>>

\* Part of the request is taken over; older values may be pushed out by it.
Store ==
  /\ phase = "writing"
  /\ left' \in SUBSET left
  /\ view' = [a \in Lba |-> IF a \in left \ left' THEN buf[a] ELSE view[a]]
  /\ Settle(view')
  /\ UNCHANGED <<phase, buf>>

EndWrite ==
  /\ phase = "writing" /\ left = {}
  /\ phase' = "idle" /\ buf' = NoData
  /\ UNCHANGED <<view, stable, left>>

BeginRead ==
  /\ phase = "idle"
  /\ phase' = "reading"
  /\ left' \in SUBSET Lba
  /\ UNCHANGED <<view, stable, buf>>

EndRead ==
  /\ phase = "reading"
  /\ phase' = "answered" /\ left' = {}
  /\ buf' = [a \in left |-> view[a]]
  /\ UNCHANGED <<view, stable>>

TakeAnswer ==
  /\ phase = "answered"
  /\ phase' = "idle" /\ buf' = NoData
  /\ UNCHANGED <<view, stable, left>>

BeginSync(p) ==
  /\ phase = "idle"
  /\ phase' = p
  /\ UNCHANGED <<view, stable, left, buf>>

Progress ==
  /\ phase \in {"syncing", "settling"}
  /\ Settle(view)
  /\ UNCHANGED <<view, phase, left, buf>>

\* A flush ends only when nothing is left to lose; the driver may then close.
EndSync(p) ==
  /\ phase = "syncing" /\ stable = view
  /\ phase' = p
  /\ UNCHANGED <<view, stable, left, buf>>

EndSettle ==
  /\ phase = "settling"
  /\ phase' = "idle"
  /\ UNCHANGED <<view, stable, left, buf>>

Restart ==
  /\ phase = "down"
  /\ phase' = "idle"
  /\ UNCHANGED <<view, stable, left, buf>>

PowerLoss ==
  /\ phase' = "down" /\ left' = {} /\ buf' = NoData
  /\ view' = stable
  /\ UNCHANGED stable

DiskNext ==
  \/ BeginWrite
  \/ Store
  \/ EndWrite
  \/ BeginRead
  \/ EndRead
  \/ TakeAnswer
  \/ \E p \in {"syncing", "settling"} : BeginSync(p)
  \/ Progress
  \/ \E p \in {"idle", "down"} : EndSync(p)
  \/ EndSettle
  \/ Restart
  \/ PowerLoss

DiskSpec == DiskInit /\ [][DiskNext]_diskVars
=============================================================================
