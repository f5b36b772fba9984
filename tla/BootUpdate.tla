----------------------------- MODULE BootUpdate -----------------------------
(***************************************************************************)
(* What the copies of boot1 on the NAND flash promise together: burning a  *)
(* new version is an update that the power may fail in at any moment.  The *)
(* next boot starts one whole version, the old or the new one, and after   *)
(* an update that went through only the new one.  There is no state in     *)
(* which the machine does not boot.                                        *)
(***************************************************************************)
CONSTANTS Version,   \* images of boot1
          NoVersion

VARIABLES phase,     \* "off", "burning", "booting" or "up"
          pending,   \* the version being burned
          allowed,   \* the versions a boot may start
          running    \* the version that was started

updateVars == <<phase, pending, allowed, running>>

UpdateInit ==
  /\ phase = "off"
  /\ pending = NoVersion /\ running = NoVersion
  /\ \E v \in Version : allowed = {v}

BeginBurn(v) ==
  /\ phase = "off" /\ phase' = "burning"
  /\ pending' = v
  /\ allowed' = allowed \cup {v}
  /\ UNCHANGED running

EndBurn ==
  /\ phase = "burning" /\ phase' = "off"
  /\ pending' = NoVersion
  /\ allowed' = {pending}
  /\ UNCHANGED running

PowerOn ==
  /\ phase = "off" /\ phase' = "booting"
  /\ UNCHANGED <<pending, allowed, running>>

Start(v) ==
  /\ phase = "booting" /\ phase' = "up"
  /\ v \in allowed
  /\ running' = v
  /\ UNCHANGED <<pending, allowed>>

\* The power fails, or is turned off.
PowerOff ==
  /\ phase # "off" /\ phase' = "off"
  /\ pending' = NoVersion /\ running' = NoVersion
  /\ UNCHANGED allowed

UpdateNext ==
  \/ \E v \in Version : BeginBurn(v) \/ Start(v)
  \/ EndBurn \/ PowerOn \/ PowerOff

UpdateSpec == /\ UpdateInit /\ [][UpdateNext]_updateVars
              /\ WF_updateVars(\E v \in Version : Start(v))
=============================================================================
