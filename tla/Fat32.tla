------------------------------- MODULE Fat32 -------------------------------
(* The SD card reader of labs/lab16-fat32/code: a host writes files to the  *)
(* root directory of a card, the card may be pulled at any moment, and the  *)
(* Pi then checks the card, walks over its directory and prints it.         *)
(*                                                                          *)
(* The host and the card are external; the parts of the reader that the lab *)
(* leaves open (sec_read, fat32_mk, fat32_to_dirent, fat32_read_file) are   *)
(* not modelled.  The walk is a step per turn of its loop.                  *)
EXTENDS Integers, SequencesExt, FiniteSets, FatLayout, Utf8

CONSTANTS
    Files,       \* names of files and directories that the host may create
    Short,       \* the 11 bytes of the 8.3 name of each
    Long,        \* the name the host shows, as characters
    Lfn,         \* the files for which the host writes a long name
    Lower,       \* the files whose 8.3 name is flagged as lower case
    Attr,        \* the attribute byte of each
    Slots,       \* entries in the root directory
    PerSector,   \* entries in a sector, which is written in one go
    Cards,       \* the cards: records of what mkfs left in the first sectors
    MaxEdits     \* bound: how often the host creates or deletes a file

\* What a FAT32 file system holds in the sectors that are looked at (Microsoft's
\* specification): any power of two up to 128 sectors in a cluster, no FAT of 12
\* or 16 bits, and a root directory that goes on or ends in its first cluster.
Formatted(c) ==
    /\ c.sigval = 43605 /\ c.info = <<"RRaA", "rrAa", "0000aa55">>
    /\ c.boot.bytes_per_sec = 512 /\ c.boot.nfats = 2 /\ c.boot.sig = 43605
    /\ c.boot.sec_per_cluster \in {1, 2, 4, 8, 16, 32, 64, 128}
    /\ c.boot.max_files = 0 /\ c.boot.fs_nsec = 0 /\ c.boot.zero = 0
    /\ c.boot.nsec_in_fs # 0 /\ c.boot.info_sec_num = 1
    /\ c.boot.backup_boot_loc = 6 /\ c.boot.extended_sig = 41
    /\ c.fat_2 \in Nat
    /\ c.fat_2 % 2^28 \in 2 .. BAD_CLUSTER - 8 \/ c.fat_2 % 2^28 \in LAST_CLUSTER .. 2^28 - 1

ASSUME Fat32Assumption ==
    /\ Slots \in Nat \ {0} /\ PerSector \in Nat \ {0} /\ MaxEdits \in Nat
    /\ Lfn \subseteq Files /\ Lower \subseteq Files

\* 16 bits, and not one that ends a name.
Characters == 1 .. 2^16 - 2

\* A file without a long name is shown under its 8.3 name: name and extension
\* without what fills them up, in ASCII, in lower case if it is flagged so.
Shows83(f, name) ==
    LET Lowered(c) == IF f \in Lower /\ c \in 65 .. 90 THEN c + 32 ELSE c
    IN  \E m \in 1 .. 8 :
            /\ \A k \in 1 .. 11 : IF k \in m + 1 .. 8 THEN Short[f][k] = 32 ELSE Short[f][k] \in 33 .. 127
            /\ name = [k \in 1 .. m + 4 |-> IF k <= m THEN Lowered(Short[f][k])
                                            ELSE IF k = m + 1 THEN 46 ELSE Lowered(Short[f][k - m + 7])]

\* 8.3 names are as the host stores them and no two the same, no file has all the
\* bits that mark a long name, and a long name is of characters and not too long.
ASSUME FilesAssumption ==
    /\ \A f \in Files :
        /\ Short[f] \in [1 .. 11 -> 0 .. 255] /\ Short[f][1] \notin {0, 229}
        /\ Attr[f] \in 0 .. 255 /\ Attr[f] # 15
    /\ \A f \in Lfn : \E n \in 1 .. 255 : Long[f] \in [1 .. n -> Characters]
    /\ \A f \in Files \ Lfn : Short[f][11] # 32 => Shows83(f, Long[f])
    /\ \A f, g \in Files : Short[f] = Short[g] => f = g

ASSUME CardsAssumption ==
    \A c \in Cards :
        /\ c.part_tab \in [1 .. 4 -> 0 .. 255]
        /\ c.fat32 = (c.part_tab[1] \in {11, 12} /\ \A n \in 2 .. 4 : c.part_tab[n] = 0)
        /\ c.fat32 => Formatted(c)

VARIABLES
    card,     \* the card
    dirs,     \* the directory entries
    fat,      \* the files that have clusters in the first FAT ...
    fat2,     \* ... and in its copy
    doing,    \* what the host has still to write: a sequence of <<what, file, slot>>
    edits,    \* how often the host created or deleted a file
    live,     \* the files that are in the directory
    phase,    \* "host", "mount", "walk", "done", "refused" or "panic"
    i,        \* the walk's place in the directory
    printed   \* the entries printed, as <<first entry, entry of the file>>

vars == <<card, dirs, fat, fat2, doing, edits, live, phase, i, printed>>

(* Bits of the attribute byte, and the value that marks a long name.        *)
FAT32_VOLUME_LABEL == 3
FAT32_DIR == 4
FAT32_ARCHIVE == 5
FAT32_LONG_FILE_NAME == 15
is_attr(x, bit) == (x \div 2^bit) % 2 = 1

Deleted == 229
Never == [first |-> 0, attr |-> 0, reserved0 |-> 0, cksum |-> 0, text |-> <<>>]

---------------------------------------------------------------------------
(* The host.                                                                *)

Chain(f) == IF f \in Lfn THEN (Len(Long[f]) + 12) \div 13 ELSE 0

(* 13 characters of the long name; what is left over is 0, FFFF, FFFF, ...  *)
LfnText(f, k) ==
    [c \in 1 .. 13 |-> LET n == 13 * (k - 1) + c
                       IN  IF n <= Len(Long[f]) THEN Long[f][n]
                           ELSE IF n = Len(Long[f]) + 1 THEN 0 ELSE 65535]
RotatedSum(short) ==
    LET sum[n \in 0 .. Len(short)] ==
          IF n = 0 THEN 0
          ELSE (sum[n - 1] \div 2 + 128 * (sum[n - 1] % 2) + short[n]) % 256
    IN  sum[Len(short)]

(* The entries of f: its long name from the end, then the 8.3 entry.        *)
Entries ==
    [f \in Files |->
        [n \in 1 .. Chain(f) + 1 |->
            LET k == Chain(f) + 1 - n
            IN  IF k > 0
                THEN [first |-> k + (IF n = 1 THEN 64 ELSE 0), attr |-> FAT32_LONG_FILE_NAME,
                      reserved0 |-> 0, cksum |-> RotatedSum(Short[f]), text |-> LfnText(f, k)]
                ELSE [first |-> Short[f][1], attr |-> Attr[f],
                      reserved0 |-> IF f \in Lower THEN 24 ELSE 0, cksum |-> 0,
                      text |-> Short[f]]]]

Init ==
    /\ card \in Cards
    /\ dirs = [k \in 1 .. Slots |-> Never]
    /\ fat = {} /\ fat2 = {} /\ live = {}
    /\ doing = <<>> /\ edits = 0 /\ phase = "host" /\ i = 1 /\ printed = <<>>

Create(f) ==
    /\ phase = "host" /\ doing = <<>> /\ f \notin live /\ card.fat32
    /\ edits < MaxEdits /\ edits' = edits + 1
    /\ doing' = << <<"fat", f, 0>>, <<"fat2", f, 0>>, <<"write", f, 0>> >>
    /\ UNCHANGED <<card, dirs, fat, fat2, live, phase, i, printed>>
Delete(f) ==
    /\ phase = "host" /\ doing = <<>> /\ f \in live
    /\ edits < MaxEdits /\ edits' = edits + 1
    /\ doing' = << <<"erase", f, 0>>, <<"fat", f, 0>>, <<"fat2", f, 0>> >>
    /\ UNCHANGED <<card, dirs, fat, fat2, live, phase, i, printed>>

Doing(what) == phase = "host" /\ doing # <<>> /\ Head(doing)[1] = what
Written == doing' = Tail(doing)
HostFat ==
    LET f == Head(doing)[2]
    IN  \/ /\ Doing("fat")
           /\ fat' = IF f \in fat THEN fat \ {f} ELSE fat \cup {f}
           /\ Written
           /\ UNCHANGED <<card, edits, dirs, fat2, live, phase, i, printed>>
        \/ /\ Doing("fat2")
           /\ fat2' = fat
           /\ Written
           /\ UNCHANGED <<card, edits, dirs, fat, live, phase, i, printed>>

(* The entries from slot s, sector by sector: those in the sectors chosen.  *)
SectorOf(k) == (k - 1) \div PerSector
Put(f, s, which(_), entry(_)) ==
    dirs' = [k \in 1 .. Slots |-> IF k \in s .. s + Chain(f) /\ which(SectorOf(k))
                                  THEN entry(k - s + 1) ELSE dirs[k]]
Crosses(f, s) == SectorOf(s + Chain(f)) # SectorOf(s)

HostWrite ==
    LET f == Head(doing)[2]
    IN  /\ Doing("write")
        /\ \E s \in 1 .. Slots - Chain(f) :
            /\ \A k \in s .. s + Chain(f) : dirs[k].first \in {0, Deleted}
            /\ Put(f, s, LAMBDA x : x = SectorOf(s), LAMBDA n : Entries[f][n])
            /\ IF Crosses(f, s) THEN doing' = << <<"write_rest", f, s>> >> /\ UNCHANGED live
               ELSE doing' = <<>> /\ live' = live \cup {f}
        /\ UNCHANGED <<card, edits, fat, fat2, phase, i, printed>>
HostWriteRest ==
    LET f == Head(doing)[2]  s == Head(doing)[3]
    IN  /\ Doing("write_rest")
        /\ Put(f, s, LAMBDA x : x # SectorOf(s), LAMBDA n : Entries[f][n])
        /\ Written /\ live' = live \cup {f}
        /\ UNCHANGED <<card, edits, fat, fat2, phase, i, printed>>

HostErase ==
    LET f == Head(doing)[2]
    IN  /\ Doing("erase")
        /\ \E s \in 1 .. Slots - Chain(f) :
            /\ \A k \in s .. s + Chain(f) : dirs[k] = Entries[f][k - s + 1]
            /\ Put(f, s, LAMBDA x : x = SectorOf(s), LAMBDA n : [Entries[f][n] EXCEPT !.first = Deleted])
            /\ doing' = (IF Crosses(f, s) THEN << <<"erase_rest", f, s>> >> ELSE <<>>) \o Tail(doing)
        /\ live' = live \ {f}
        /\ UNCHANGED <<card, edits, fat, fat2, phase, i, printed>>
HostEraseRest ==
    LET f == Head(doing)[2]  s == Head(doing)[3]
    IN  /\ Doing("erase_rest")
        /\ Put(f, s, LAMBDA x : x # SectorOf(s), LAMBDA n : [Entries[f][n] EXCEPT !.first = Deleted])
        /\ Written
        /\ UNCHANGED <<card, edits, fat, fat2, live, phase, i, printed>>

Pull ==
    /\ phase = "host" /\ phase' = "mount"
    /\ UNCHANGED <<card, edits, dirs, fat, fat2, doing, live, i, printed>>

---------------------------------------------------------------------------
(* The Pi: the master boot record, the boot sector, the FATs.               *)

fat32_mbr_check == card.sigval = 43605
fat32_partition_empty(n) == card.part_tab[n] = 0
is_fat32(t) == t \in {11, 12}
fat32_fsinfo_check == card.info = <<"RRaA", "rrAa", "0000aa55">>

Mount ==
    /\ phase = "mount"
    /\ phase' = IF /\ fat32_mbr_check
                   /\ ~fat32_partition_print_panics(card.part_tab[1])
                   /\ is_fat32(card.part_tab[1])
                   /\ \A n \in 1 .. 4 : fat32_partition_empty(n) = (n # 1)
                   /\ fat32_volume_id_check(card.boot)
                   /\ fat32_fsinfo_check
                   /\ fat = fat2
                   /\ fat32_fat_entry_type(card.fat_2) # Panics
                THEN "walk" ELSE "refused"
    /\ UNCHANGED <<card, edits, dirs, fat, fat2, doing, live, i, printed>>

---------------------------------------------------------------------------
(* The directory.                                                           *)

lfn_checksum(name) ==
    LET sum[n \in 0 .. Len(name)] ==
          IF n = 0 THEN 0
          ELSE ((sum[n - 1] % 2) * 2^7 + (sum[n - 1] \div 2) + name[n]) % 256
    IN  sum[Len(name)]

lfn_is_last(seqno) == is_attr(seqno, 6)
lfn_is_first_marked(seqno) == seqno = 1
lfn_is_first(seqno) == (IF is_attr(seqno, 6) THEN seqno - 2^6 ELSE seqno) = 1
lfn_is_deleted(seqno) == \A bit \in {0, 2, 5, 6, 7} : is_attr(seqno, bit)

fat32_dirent_free(d) ==
    IF dirs[d].attr = FAT32_LONG_FILE_NAME THEN lfn_is_deleted(dirs[d].first)
    ELSE dirs[d].first \in {0, Deleted}

(* Each of the three parts of a long name entry, up to a terminator.        *)
lfn_terminator(c) == c = 0 \/ c = 65535
utf8_append(part) ==
    LET stop == {c \in DOMAIN part : lfn_terminator(part[c])} \cup {Len(part) + 1}
        text == SubSeq(part, 1, (CHOOSE c \in stop : \A x \in stop : c <= x) - 1)
    IN  FlattenSeq([c \in DOMAIN text |-> to_utf8(text[c])])
lfn_append(text) ==
    utf8_append(SubSeq(text, 1, 5)) \o utf8_append(SubSeq(text, 6, 11)) \o utf8_append(SubSeq(text, 12, 13))
lfn_get_name_forward(d, cnt) == FlattenSeq([n \in 1 .. cnt |-> lfn_append(dirs[d + n - 1].text)])
lfn_get_name(d, cnt) == FlattenSeq([n \in 1 .. cnt |-> lfn_append(dirs[d + cnt - n].text)])

lfn_print_passes(d, cnt, cksum) ==
    /\ cnt < 3
    /\ \A k \in d .. d + cnt - 1 : ~lfn_is_deleted(dirs[k].first) /\ dirs[k].cksum = cksum
    /\ lfn_is_last(dirs[d].first)
    /\ lfn_is_first(dirs[d + cnt - 1].first)

fat32_dir_attr_str_panics(attr) ==
    LET rest == attr - (attr % 4)
    IN  attr # FAT32_LONG_FILE_NAME /\ rest \notin {4, 8, 16, 32}

(* The entry after the long name entries from d on; past the end if none.   *)
AfterLfn(d) ==
    CHOOSE e \in d + 1 .. Slots + 1 :
        /\ \A k \in d + 1 .. e - 1 : dirs[k].attr = FAT32_LONG_FILE_NAME
        /\ e = Slots + 1 \/ dirs[e].attr # FAT32_LONG_FILE_NAME
IsFile(e) ==
    e <= Slots /\ (is_attr(dirs[e].attr, FAT32_DIR) \/ is_attr(dirs[e].attr, FAT32_ARCHIVE))

(* The 8.3 name: spaces are left out of the first part only.                *)
ShortName(e) ==
    LET lower(c) == IF dirs[e].reserved0 = 24 /\ c \in 65 .. 90 THEN c + 32 ELSE c
        n == [k \in 1 .. 11 |-> lower(dirs[e].text[k])]
        kept[k \in 0 .. 8] ==
          IF k = 0 THEN <<>> ELSE IF n[k] = 32 THEN kept[k - 1] ELSE Append(kept[k - 1], n[k])
    IN  kept[8] \o <<46>> \o SubSeq(n, 9, 11)
fat32_dir_filename(d) ==
    IF dirs[d].attr = FAT32_LONG_FILE_NAME THEN lfn_get_name(d, AfterLfn(d) - d) ELSE ShortName(d)
fat32_dir_filename_panics(d) ==
    IF dirs[d].attr = FAT32_LONG_FILE_NAME THEN ~IsFile(AfterLfn(d))
    ELSE \A bit \in {FAT32_VOLUME_LABEL, FAT32_DIR, FAT32_ARCHIVE} : ~is_attr(dirs[d].attr, bit)

(* fat32_dir_print(): the entries it stepped over, or a panic.              *)
fat32_dir_print(d) ==
    IF dirs[d].attr = FAT32_LONG_FILE_NAME
    THEN LET e == AfterLfn(d)
         IN  IF IsFile(e) /\ lfn_print_passes(d, e - d, lfn_checksum(dirs[e].text)) THEN e - d + 1 ELSE 0
    ELSE IF ~is_attr(dirs[d].attr, FAT32_DIR) /\ fat32_dir_attr_str_panics(dirs[d].attr) THEN 0 ELSE 1

Walk ==
    /\ phase = "walk"
    /\ IF i > Slots THEN phase' = "done" /\ UNCHANGED <<i, printed>>
       ELSE IF fat32_dirent_free(i) THEN i' = i + 1 /\ UNCHANGED <<phase, printed>>
       ELSE IF fat32_dir_print(i) = 0 THEN phase' = "panic" /\ UNCHANGED <<i, printed>>
       ELSE /\ i' = i + fat32_dir_print(i)
            /\ printed' = Append(printed, <<i, i' - 1>>)
            /\ UNCHANGED phase
    /\ UNCHANGED <<card, edits, dirs, fat, fat2, doing, live>>

fat32_dir_cnt_entries ==
    Cardinality({d \in 1 .. Slots :
                    ~fat32_dirent_free(d) /\ dirs[d].attr # FAT32_LONG_FILE_NAME})

Next ==
    \/ \E f \in Files : Create(f) \/ Delete(f)
    \/ HostFat \/ HostWrite \/ HostWriteRest \/ HostErase \/ HostEraseRest
    \/ Pull \/ Mount \/ Walk

Spec == Init /\ [][Next]_vars

---------------------------------------------------------------------------

(* Every variable stays in its range.                                       *)
TypeOK ==
    /\ card \in Cards
    /\ \A d \in 1 .. Slots : dirs[d].first \in 0 .. 255 /\ dirs[d].attr \in 0 .. 255
    /\ fat \subseteq Files /\ fat2 \subseteq Files /\ live \subseteq Files
    /\ phase \in {"host", "mount", "walk", "done", "refused", "panic"}
    /\ i \in 1 .. Slots + 1     \* the walk does not step past the end

(* The card was pulled between the two halves of a write that crosses from  *)
(* one sector into the next.                                                *)
Torn == doing # <<>> /\ Head(doing)[1] \in {"write_rest", "erase_rest"}

(* Attributes and names that the reader gives up on: a long name of three   *)
(* entries or more, a file without its archive bit, a short name with the   *)
(* system bit and another.                                                  *)
Unhandled(f) ==
    IF f \in Lfn THEN Chain(f) > 2 \/ ~(is_attr(Attr[f], FAT32_DIR) \/ is_attr(Attr[f], FAT32_ARCHIVE))
    ELSE ~is_attr(Attr[f], FAT32_DIR) /\ Attr[f] - (Attr[f] % 4) \notin {4, 8, 16, 32}

(* Every FAT32 card of one partition is accepted, whichever of the two      *)
(* types its partition has, unless it was pulled between the writing of the *)
(* FAT and of its copy; no other card is.                                   *)
CardsAccepted ==
    /\ phase \in {"walk", "done", "panic"} => fat = fat2 /\ card.fat32
    /\ phase = "refused" => fat # fat2 \/ ~card.fat32

(* The walk over the directory of an accepted card panics for nothing but   *)
(* what it gives up on and for a card pulled in the middle of an entry:     *)
(* deleted entries, used again or not, and long names do not confuse it.    *)
PanicsOnlyOnUnhandled ==
    phase = "panic" => Torn \/ \E f \in live : Unhandled(f)

(* A walk that ends printed the entry of every file once, in order, and of  *)
(* nothing else; stepping over a long name takes its 8.3 entry along.       *)
EachFileOnce ==
    phase = "done" /\ ~Torn =>
        /\ Len(printed) = Cardinality(live)
        /\ \A f \in live : \E n \in DOMAIN printed :
               /\ dirs[printed[n][2]].text = Short[f]
               /\ printed[n][2] - printed[n][1] = Chain(f)
        /\ \A n \in 2 .. Len(printed) : printed[n][1] > printed[n - 1][2]

(* The name reconstructed for a file is the one its host shows, in UTF-8,   *)
(* wherever its entries lie: for long names of every length that is walked  *)
(* over, of characters of 16 bits (each half of a pair of surrogates is     *)
(* taken for a character), and for 8.3 names with an extension of three     *)
(* letters.                                                                 *)
NamesReconstructed ==
    phase = "done" /\ ~Torn =>
        \A n \in DOMAIN printed : \A f \in live :
            (/\ dirs[printed[n][2]].text = Short[f]
             /\ f \in Lfn \/ Short[f][11] # 32
             /\ ~fat32_dir_filename_panics(printed[n][1]))
                => fat32_dir_filename(printed[n][1]) = FlattenSeq([c \in DOMAIN Long[f] |-> InUtf8(Long[f][c])])

(* fat32_dir_cnt_entries(), which sizes the array of directory entries,     *)
(* counts what the walk printed.                                            *)
CountAgrees == phase = "done" /\ ~Torn => fat32_dir_cnt_entries = Len(printed)

(* The reader takes in every card that it should, no other, and gives up    *)
(* later on nothing else than it has to (driver.c, fat32-helpers.c:81-497). *)
CardsSound == TypeOK /\ CardsAccepted /\ PanicsOnlyOnUnhandled

(* What it prints is the directory that the host shows, each file once and  *)
(* under its name (fat32-helpers.c:200-470, unicode-utf8.c:35-82).          *)
DirectoryRead == EachFileOnce /\ NamesReconstructed /\ CountAgrees /\ (phase = "done" => TextKept)

(* The structures that a card is mounted with are laid out as it is, and    *)
(* its FAT is read by the table of fat32.h (both about constants).          *)
LayoutsFit == phase = "mount" => StructuresFit /\ EntryTypesCover

=============================================================================
