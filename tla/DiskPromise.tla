---------------------------- MODULE DiskPromise ----------------------------
(***************************************************************************)
(* What the SD card behind the USB disk promises the host: a block read is *)
(* the block as it was last written, except for the blocks that are        *)
(* "loose".  Writing loosens the blocks written, settling takes blocks off *)
(* again, and a mishap loosens all of them.  SdhcDisk says which blocks    *)
(* are loose when.                                                         *)
(***************************************************************************)
EXTENDS Integers, Sequences

CONSTANTS
  LogBlockNbr,  (* the number of blocks                                    *)
  Contents,     (* what a block may hold                                   *)
  Blank         (* what each holds at first                                *)

VARIABLES
  disk,   (* the blocks as last written                                    *)
  loose,  (* the blocks a read may return otherwise                        *)
  out     (* the last blocks handed out: where from, and their contents    *)

promiseVars == <<disk, loose, out>>

Blks == 0..(LogBlockNbr - 1)

Extents == [at : Nat, data : Seq(Contents)]

(* The blocks extent e covers, and what it holds for one of them.          *)
Span(e) == e.at..(e.at + Len(e.data) - 1)

At(e, b) == e.data[b - e.at + 1]

PromiseInit ==
  /\ disk = Blank
  /\ loose = {}
  /\ out = [at |-> 0, data |-> <<>>]

Store ==
  /\ disk' \in [Blks -> Contents]
  /\ \E bs \in SUBSET Blks :
       /\ \A b \in Blks \ bs : disk'[b] = disk[b]
       /\ loose \subseteq loose' /\ loose' \subseteq loose \union bs
  /\ UNCHANGED out

Serve ==
  /\ out' \in Extents
  /\ Span(out') \subseteq Blks
  /\ \A b \in Span(out') \ loose : At(out', b) = disk[b]
  /\ UNCHANGED <<disk, loose>>

Settle ==
  /\ loose' \subseteq loose
  /\ UNCHANGED <<disk, out>>

Mishap ==
  /\ loose' = Blks
  /\ UNCHANGED <<disk, out>>

PromiseNext == Store \/ Serve \/ Settle \/ Mishap

PromiseSpec == PromiseInit /\ [][PromiseNext]_promiseVars
=============================================================================
