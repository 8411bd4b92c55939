------------------------------- MODULE MCScsi -------------------------------
(* Inputs for the instances of ScsiDisk that TLC checks.                   *)
EXTENDS ScsiDisk

Cdb(op, lba, len) == [op |-> op, lba |-> lba, len |-> len]
MCCdbs == {Cdb("read", 1, 2), Cdb("read", 3, 2), Cdb("write", 1, 2), Cdb("write", 0, 1),
           Cdb("inquiry", 0, 1), Cdb("capacity", 0, 0), Cdb("test", 0, 0)}
=============================================================================
