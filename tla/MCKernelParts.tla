---------------------------- MODULE MCKernelParts ----------------------------
(***************************************************************************)
(* The parts of the kernels on small instances.                            *)
(***************************************************************************)
EXTENDS KernelParts

(* A byte of three values and a head field of two: 54 sectors have a 28-bit *)
(* address and the disk goes on behind them.  The addresses are those next  *)
(* to a carry, to the end of 28 bits and to the end of the disk.            *)

Lbas == {0, 2, 8, 25, 51, 52, 53, 54, 58}

MCRequests ==
    [by : {"kernel"}, lba : Lbas \ {54, 58}, count : {1}] \cup
    [by : {"bios_read", "bios_write"}, lba : Lbas, count : {1, 2}] \cup
    [by : {"bios_read_chs", "bios_write_chs"}, lba : {0, 3, 24, 34}, count : {1, 2}]

(* Programs of one, two and three sectors, one of them an exact multiple,   *)
(* and kernels of one to four, in a linear space of 1024 bytes.             *)

H(size, head, code, data, stack, usalt) ==
    [size |-> size, head_len |-> head, code_seg |-> head, code_len |-> code,
     data_seg |-> head + code, data_len |-> data, stack_len |-> stack,
     stack_seg |-> 0, prgentry |-> 0,
     usalt |-> [i \in DOMAIN usalt |-> [name |-> usalt[i], gate |-> 0, rpl |-> 0]]]

MCHeaders == { H(7, 4, 2, 1, 1, <<"put_string">>),
               H(16, 4, 8, 4, 2, <<"terminate", "SomethingElse">>),
               H(17, 9, 7, 1, 1, <<"read_disk", "put_string">>) }

MCCSalt == << [name |-> "put_string", gate |-> 1], [name |-> "read_disk", gate |-> 2],
              [name |-> "terminate", gate |-> 3] >>

=============================================================================
