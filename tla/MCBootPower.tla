---------------------------- MODULE MCBootPower ----------------------------
EXTENDS BootPower, TLC

\* Two steps with delays around one without, and a closing step with one.
MCOpenFlow == <<TRUE, FALSE>>
MCCloseFlow == <<TRUE>>
MCFunc == {OpenFn, CloseFn, UsbFn}
=============================================================================
