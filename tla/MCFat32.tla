------------------------------ MODULE MCFat32 ------------------------------
(* Instance of Fat32 for TLC: six files that differ in what the reader    *)
(* tells apart, and the cards that a host formats.                          *)
EXTENDS Fat32

Ascii == " !.0123456789ABCDEFGHIJKLMNOPQRSTUVWXYZ_abcdefghijklmnopqrstuvwxyz~"
Codes == <<32, 33, 46>> \o [n \in 1 .. 10 |-> 47 + n] \o [n \in 1 .. 26 |-> 64 + n] \o <<95>>
           \o [n \in 1 .. 26 |-> 96 + n] \o <<126>>
Chars(s) == [n \in 1 .. Len(s) |-> Codes[CHOOSE k \in 1 .. Len(Ascii) : SubSeq(Ascii, k, k) = SubSeq(s, n, n)]]

Table ==
    [config  |-> [short |-> "C_NF_G  TXT", long |-> "config.txt", attr |-> 32],
     kernel  |-> [short |-> "KERNEL  IMG", long |-> "kernel.img", attr |-> 33],
     label   |-> [short |-> "CS140E     ", long |-> "CS140E", attr |-> 8],
     system  |-> [short |-> "SYSTEM~1   ", long |-> "System Volume Information!", attr |-> 22],
     sysfile |-> [short |-> "IO      SYS", long |-> "IO.SYS", attr |-> 36],
     longest |-> [short |-> "THISIS~1TXT", long |-> "this_is_longer_than_two.txt", attr |-> 32]]

MCFiles == DOMAIN Table
MCShort == [f \in MCFiles |-> Chars(Table[f].short)]
\* config.txt with two letters of two bytes and one of three
MCLong  == [[f \in MCFiles |-> Chars(Table[f].long)] EXCEPT !.config[2] = 246, !.config[5] = 1080, !.config[8] = 8364]
MCAttr  == [f \in MCFiles |-> Table[f].attr]
MCLfn   == {"config", "system", "longest"}
MCLower == {"kernel"}

Boot(sec_per_cluster) ==
    [bytes_per_sec |-> 512, nfats |-> 2, sig |-> 43605, sec_per_cluster |-> sec_per_cluster,
     max_files |-> 0, fs_nsec |-> 0, zero |-> 0, nsec_in_fs |-> 1, info_sec_num |-> 1,
     backup_boot_loc |-> 6, extended_sig |-> 41]
Card(type, other, clusters) ==
    [sigval |-> 43605, part_tab |-> <<type, other, 0, 0>>, boot |-> Boot(clusters),
     info |-> <<"RRaA", "rrAa", "0000aa55">>, fat_2 |-> LAST_CLUSTER,
     fat32 |-> other = 0 /\ type \in {11, 12}]
MCCards == {Card(11, 0, 1), Card(12, 0, 64), Card(131, 0, 8), Card(12, 131, 8)}

=============================================================================
