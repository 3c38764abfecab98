---------------------------- MODULE MCUsbStorage ----------------------------
(* UsbStorage with a disk, its partition and another disk: the rules of udev *)
(* report disks and partitions alike.                                      *)
EXTENDS UsbStorage

MCDevs == {"sda", "sda1", "sdb"}
MCNameIn == {<<d, d>> : d \in MCDevs} \union {<<"sda", "sda1">>}
=============================================================================
