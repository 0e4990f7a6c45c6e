---------------------------- MODULE MC_CoreTimer ----------------------------
(* Small instances of CoreTimer.  The owner of s is a driver that uses it as   *)
(* a one-shot and calls from interrupts and callbacks too, as the UART, audio  *)
(* and I2C drivers do; p is used by tasks only.                                *)
EXTENDS CoreTimer

CONSTANTS s, p

DriverUse == {<<s, FALSE>>, <<p, TRUE>>, <<p, FALSE>>}

(* The soft keyboard stops a repeating timer in its own callback               *)
(* (core_soft_keyboard.c:47, 58, 237).                                         *)
KeyboardUse == {<<p, TRUE>>}
=============================================================================
