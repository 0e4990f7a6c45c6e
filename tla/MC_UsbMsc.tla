----------------------------- MODULE MC_UsbMsc -----------------------------
(* A card of four blocks, caches of two, and the commands that make a      *)
(* read of two pieces, a read-ahead that is found and one past the end of  *)
(* the card, and writes into what is read.                                 *)
EXTENDS UsbMsc

Cmd(op, at, n, data) ==
  [op |-> op, at |-> at, n |-> n, data |-> data, tag |-> 0]

MCBlank == [b \in 0..3 |-> b]

MCCommands ==
  { Cmd("read", 0, 1, 9), Cmd("read", 1, 3, 9),
    Cmd("write", 1, 1, 7), Cmd("write", 3, 2, 7),
    Cmd("sense", 0, 1, 9), Cmd("eject", 0, 1, 9) }
=============================================================================
