----------------------------- MODULE FatLayout -----------------------------
(* What labs/lab16-fat32/code expects of the sectors of an SD card: where   *)
(* the fields of its structures are, in bytes, the values it insists on,    *)
(* and the meaning of an entry of the file allocation table.                *)
EXTENDS Integers, Sequences, Layout

partition_entry ==
  << <<"bootable_p", 1>>, <<"chs_start", 3>>, <<"part_type", 1>>, <<"chs_end", 3>>,
     <<"lba_start", 4>>, <<"nsec", 4>> >>

fsinfo ==
  << <<"sig1", 4>>, <<"_reserved0", 480>>, <<"sig2", 4>>, <<"free_cluster_count", 4>>,
     <<"next_free_cluster", 4>>, <<"_reserved1", 12>>, <<"sig3", 4>> >>

\* What the comment before it says of the sector.
fsinfo_places ==
  { <<"sig1", 0, 4>>, <<"_reserved0", 4, 480>>, <<"sig2", 484, 4>>,
    <<"free_cluster_count", 488, 4>>, <<"next_free_cluster", 492, 4>>,
    <<"_reserved1", 496, 12>>, <<"sig3", 508, 4>> }

\* Up to the 16-bit size of a FAT, which is 0 here, and after it.
BootStart ==
  << <<"asm_code", 3>>, <<"oem", 8>>, <<"bytes_per_sec", 2>>, <<"sec_per_cluster", 1>>,
     <<"reserved_area_nsec", 2>>, <<"nfats", 1>>, <<"max_files", 2>>, <<"fs_nsec", 2>>,
     <<"media_type", 1>> >>
BootRest ==
  << <<"sec_per_track", 2>>, <<"n_heads", 2>>, <<"hidden_secs", 4>>, <<"nsec_in_fs", 4>>,
     <<"nsec_per_fat", 4>>, <<"mirror_flags", 2>>, <<"version", 2>>, <<"first_cluster", 4>>,
     <<"info_sec_num", 2>>, <<"backup_boot_loc", 2>>, <<"reserved", 12>>,
     <<"logical_drive_num", 1>>, <<"reserved1", 1>>, <<"extended_sig", 1>>,
     <<"serial_num", 4>>, <<"volume_label", 11>>, <<"fs_type", 8>>, <<"ignore", 420>>,
     <<"sig", 2>> >>
fat32_boot_sec == BootStart \o << <<"zero", 2>> >> \o BootRest

fat32_dir ==
  << <<"filename", 11>>, <<"attr", 1>>, <<"reserved0", 1>>, <<"ctime_tenths", 1>>,
     <<"ctime", 2>>, <<"create_date", 2>>, <<"access_date", 2>>, <<"hi_start", 2>>,
     <<"mod_time", 2>>, <<"mod_date", 2>>, <<"lo_start", 2>>, <<"file_nbytes", 4>> >>

lfn_dir ==
  << <<"seqno", 1>>, <<"name1_5", 10>>, <<"attr", 1>>, <<"reserved", 1>>, <<"cksum", 1>>,
     <<"name6_11", 12>>, <<"reserved1", 2>>, <<"name12_13", 4>> >>

\* The check_off() lists: <<field, offset, size>>.
volume_id_places ==
  { <<"oem", 3, 8>>, <<"bytes_per_sec", 11, 2>>, <<"sec_per_cluster", 13, 1>>,
    <<"reserved_area_nsec", 14, 2>>, <<"nfats", 16, 1>>, <<"max_files", 17, 2>>,
    <<"fs_nsec", 19, 2>>, <<"media_type", 21, 1>>, <<"sec_per_track", 24, 2>>,
    <<"n_heads", 26, 2>>, <<"hidden_secs", 28, 4>>, <<"nsec_in_fs", 32, 4>>,
    <<"nsec_per_fat", 36, 4>>, <<"mirror_flags", 40, 2>>, <<"version", 42, 2>>,
    <<"first_cluster", 44, 4>>, <<"info_sec_num", 48, 2>>, <<"backup_boot_loc", 50, 2>>,
    <<"reserved", 52, 12>>, <<"logical_drive_num", 64, 1>>, <<"extended_sig", 66, 1>>,
    <<"serial_num", 67, 4>>, <<"volume_label", 71, 11>>, <<"fs_type", 82, 8>>,
    <<"sig", 510, 2>> }
fat32_dir_check ==
  { <<"filename", 0, 11>>, <<"attr", 11, 1>>, <<"ctime_tenths", 13, 1>>, <<"ctime", 14, 2>>,
    <<"create_date", 16, 2>>, <<"access_date", 18, 2>>, <<"hi_start", 20, 2>>,
    <<"mod_time", 22, 2>>, <<"mod_date", 24, 2>>, <<"lo_start", 26, 2>>,
    <<"file_nbytes", 28, 4>> }

-----------------------------------------------------------------------------
\* The types of partition that fat32_part_str() has a name for; it panics on others.
fat32_part_str_types ==
  {0, 1, 4, 5, 6, 7, 11, 12, 14, 15, 17, 20, 22, 27, 28, 30, 66, 130, 131, 132, 133, 134,
   135, 160, 161, 165, 166, 168, 169, 171, 183, 184, 238, 239, 251, 252}
fat32_partition_print_panics(type) == type \notin fat32_part_str_types \/ type \notin {11, 12}

is_pow2(x) == \E n \in 0 .. 15 : x = 2^n

\* fat32_volume_id_check(): the values insisted on (0xAA55 = 43605).
fat32_volume_id_check(b) ==
  /\ b.bytes_per_sec = 512 /\ b.nfats = 2 /\ b.sig = 43605
  /\ b.sec_per_cluster = 0 \/ is_pow2(b.sec_per_cluster)
  /\ b.max_files = 0 /\ b.fs_nsec = 0 /\ b.zero = 0 /\ b.nsec_in_fs # 0
  /\ b.info_sec_num = 1 /\ b.backup_boot_loc = 6 /\ b.extended_sig = 41
  /\ volume_id_places \subseteq Places(fat32_boot_sec)

-----------------------------------------------------------------------------
(* An entry of the file allocation table: 28 bits that count, 4 that do not *)
FREE_CLUSTER == 0
RESERVED_CLUSTER == 1
BAD_CLUSTER == 268435447
LAST_CLUSTER == BAD_CLUSTER + 1
USED_CLUSTER == BAD_CLUSTER + 2
Panics == -1

fat32_fat_entry_type_unmasked(x) ==
  CASE x \in {FREE_CLUSTER, RESERVED_CLUSTER, BAD_CLUSTER} -> x
    [] x >= 2 /\ x <= 268435439 -> USED_CLUSTER
    [] x >= 268435448 /\ x <= 268435455 -> LAST_CLUSTER
    [] OTHER -> Panics
fat32_fat_entry_type(entry) ==
  LET x == entry % 2^28
  IN  CASE x \in {FREE_CLUSTER, RESERVED_CLUSTER, BAD_CLUSTER} -> x
        [] x >= 2 /\ x <= 268435439 -> USED_CLUSTER
        [] x >= 268435448 /\ x <= 268435455 -> LAST_CLUSTER
        [] OTHER -> Panics

\* The table of fat32.h, as ranges of the 28 bits: <<first, last, type>>.
FatTable ==
  { <<0, 0, FREE_CLUSTER>>, <<1, 1, RESERVED_CLUSTER>>, <<2, 268435439, USED_CLUSTER>>,
    <<268435440, 268435446, Panics>>, <<268435447, 268435447, BAD_CLUSTER>>,
    <<268435448, 268435455, LAST_CLUSTER>> }

(* fat32_fat_entry_type() reads the table of fat32.h: at both ends of each  *)
(* of its ranges, whatever the four bits are that do not count, and every   *)
(* 28-bit value is in exactly one range.                                    *)
EntryTypesCover ==
  /\ \A r \in FatTable, x \in 0 .. 6 :
        \A v \in {r[1], r[2]} : fat32_fat_entry_type(x * 2^28 + v) = r[3]
  /\ \A r \in FatTable : r[2] = 2^28 - 1 \/ \E q \in FatTable : q[1] = r[2] + 1
  /\ \A r, q \in FatTable : r # q => r[2] < q[1] \/ q[2] < r[1]

(* The structures are as long as the static assertions say and their fields *)
(* are where the check_off() lists, the comments of fat32.h and the other   *)
(* structure of a directory entry want them: an entry of either kind keeps  *)
(* its attributes in the same byte, which is how the two are told apart.    *)
StructuresFit ==
  /\ Width(partition_entry) = 16 /\ Width(fsinfo) = 512 /\ Width(fat32_boot_sec) = 512
  /\ Width(fat32_dir) = 32 /\ Width(lfn_dir) = 32
  /\ volume_id_places \subseteq Places(fat32_boot_sec)
  /\ fat32_dir_check \subseteq Places(fat32_dir)
  /\ <<"attr", 11, 1>> \in Places(fat32_dir) \cap Places(lfn_dir)
  /\ fsinfo_places \subseteq Places(fsinfo)

=============================================================================
