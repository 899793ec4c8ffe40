---------------------------- MODULE MCUploads ----------------------------
(***************************************************************************)
(* An instance of Uploads for TLC: "slots" has many small uploads and a   *)
(* clock, "bytes" has one upload filled by racing clients.                *)
(***************************************************************************)
EXTENDS Uploads, TLC

Slots == [ops |-> {"start", "append", "deploy"}, kinds |-> {"page"},
          docs |-> {<<1>>}, chunks |-> {<<1>>}, keys |-> {"k"},
          sequence |-> 1, rows |-> 2, time |-> 4]
Bytes == [ops |-> AllOps, kinds |-> {"page", "data"},
          docs |-> {<<1, 2, 1>>}, chunks |-> {<<1>>, <<1, 2>>, <<2, 1>>}, keys |-> {"k", "l"},
          sequence |-> 2, rows |-> 1, time |-> 2]
SlotsAndBytes == {Slots, Bytes}

AnyOrder == Permutations(Calls)
==========================================================================
