----------------------------- MODULE MCStorageTest -----------------------------
(* Small instances of StorageTest: disks of four volumes each, one of them   *)
(* reserved; unevenly used, at the scheduling limit (beyond it while a       *)
(* volume of the test is there), and almost full although little is          *)
(* scheduled.                                                                *)
EXTENDS StorageTest, TLC

CONSTANTS n1, n2, n3

MCNodes == {n1, n2, n3}
On(a, b, c) == n1 :> a @@ n2 :> b @@ n3 :> c
MCDisks ==
  { [load |-> On(0, 1, 2), free |-> On(4, 3, 1)],
    [load |-> On(3, 0, 0), free |-> On(4, 4, 4)],
    [load |-> On(0, 1, 1), free |-> On(4, 4, 0)] }
================================================================================
