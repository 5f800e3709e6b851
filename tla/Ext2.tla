-------------------------------- MODULE Ext2 --------------------------------
(***************************************************************************)
(* The files of the root file system: the requests that rootfsd serves      *)
(* (sbin/dev/rootfsd/rootfsd.c) with what libs/ext2/src/ext2fs.c reads and  *)
(* writes of the card, through the sector buffer of libs/sys/src/sd.c that  *)
(* rootfsd has on from its start, and the calls by which the programs then  *)
(* tell the kernel (vfs_set, vfs_del).                                     *)
(*                                                                         *)
(* rootfsd is one process and alone at the card: a request is one action,   *)
(* from the program's message with the node's fsinfo to the answer, and a   *)
(* block is read and written as a whole, though it is two sectors.  What    *)
(* the functions use of the card, in block group 0: the bitmap of inodes,   *)
(* that of blocks and the root directory, a block each, and the table of    *)
(* inodes, eight in a block.  Left out: other groups, other directories,    *)
(* the contents of files, counts, sizes and dates, errors of the card, a    *)
(* power failure, and what happens when nothing is free.                   *)
(***************************************************************************)
EXTENDS Integers, Sequences, FiniteSetsExt, SequencesExt, TLC

CONSTANTS
    Inodes,         \* numbers of inodes that files may have, up to 24
    Blocks,         \* numbers of data blocks
    Names,          \* names of files
    Image,          \* the files on the card at first: <<[name, ino], ...>>
    BLOCKS_MAX      \* bound: blocks of a file, all direct

NoNode == -1
Nobody == -1
Asks == 0

VARIABLES
    disk,       \* what the card holds
    buffer,     \* _sector_buf: the blocks that were read, as they were
    data,       \* info->data of each file's node in the kernel
    making,     \* who makes a file: nobody, one that asks, or has an answer
    gone,       \* nodes whose file was unlinked, before the call of vfs_del
    garbled     \* a file has been written into the root directory

card == <<disk, buffer>>
vars == <<card, data, making, gone, garbled>>

Index == 0 .. BLOCKS_MAX - 1
NoBlocks == [k \in Index |-> 0]

(* get_node_by_ino: the block of the table that has the inode.              *)
TableOf(ino) == <<"inodes0", "inodes1", "inodes2">>[(ino - 1) \div 8 + 1]
Tables == {TableOf(i) : i \in Inodes}
InTable(t) == {i \in Inodes : TableOf(i) = t}

Dir(d, n) == {d[i].ino : i \in {j \in DOMAIN d : d[j].name = n}}

(* The card as it was made, with empty files, and mounted: add_nodes reads   *)
(* the directory and the inodes, and makes the nodes.                       *)
Init ==
    /\ disk = [imap |-> {Image[i].ino : i \in DOMAIN Image}, bmap |-> {}, dir |-> Image]
              @@ [t \in Tables |-> [i \in InTable(t) |-> NoBlocks]]
    /\ buffer = [b \in {"dir"} \cup {TableOf(Image[i].ino) : i \in DOMAIN Image} |-> disk[b]]
    /\ data = [n \in Names |-> IF Dir(Image, n) = {} THEN NoNode ELSE Min(Dir(Image, n))]
    /\ making = [n \in Names |-> Nobody]
    /\ gone = {} /\ garbled = FALSE

-----------------------------------------------------------------------------
(* sd_read: the buffer if it has the block, else the card and the buffer.   *)
Read(b) == IF b \in DOMAIN buffer THEN buffer[b] ELSE disk[b]
Buffer(S) == buffer' = [b \in DOMAIN buffer \cup S |-> Read(b)]

(* sd_write of new blocks: to the card alone.                               *)
Write(new) == disk' = new @@ disk

(* put_node: the block is read, and written with the inode in it.           *)
WithNode(ino, file) == TableOf(ino) :> [Read(TableOf(ino)) EXCEPT ![ino] = file]

FreeInodes == Inodes \ Read("imap")
FreeBlocks == Blocks \ Read("bmap")

(* vfs_create up to vfs_add: a node, without a file yet.                    *)
Add(n) ==
    /\ ~ garbled /\ data[n] = NoNode
    /\ data' = [data EXCEPT ![n] = 0]
    /\ making' = [making EXCEPT ![n] = Asks]
    /\ UNCHANGED <<card, gone, garbled>>

(* sdext2_create: ext2_ialloc of the first free inode, put_node, and the    *)
(* entry behind the last one.                                              *)
Create(n) ==
    /\ ~ garbled /\ making[n] = Asks
    /\ FreeInodes # {}
    /\ LET ino == Min(FreeInodes)
       IN  /\ Write([imap |-> Read("imap") \cup {ino},
                     dir  |-> Append(Read("dir"), [name |-> n, ino |-> ino])]
                    @@ WithNode(ino, NoBlocks))
           /\ Buffer({"imap", "dir", TableOf(ino)})
           /\ making' = [making EXCEPT ![n] = ino]
    /\ UNCHANGED <<data, gone, garbled>>

(* The last call of vfs_create, on a node that is still there.              *)
Set(n) ==
    /\ ~ garbled /\ making[n] \in Inodes /\ data[n] # NoNode
    /\ data' = [data EXCEPT ![n] = making[n]]
    /\ making' = [making EXCEPT ![n] = Nobody]
    /\ UNCHANGED <<card, gone, garbled>>

(* The program is killed between two of the calls.                          *)
Kill(n) ==
    /\ ~ garbled /\ making[n] # Nobody
    /\ making' = [making EXCEPT ![n] = Nobody]
    /\ UNCHANGED <<card, data, gone, garbled>>

(* sdext2_write of block k: the inode, ext2_balloc of the first free block   *)
(* if the file has none there, and put_node.                               *)
Put(n, k) ==
    /\ ~ garbled /\ data[n] \in Inodes
    /\ LET ino  == data[n]
           file == Read(TableOf(ino))[ino]
           new  == file[k] = 0
           blk  == IF new THEN Min(FreeBlocks) ELSE file[k]
       IN  /\ new => FreeBlocks # {}
           /\ Write(WithNode(ino, [file EXCEPT ![k] = blk])
                    @@ IF new THEN [bmap |-> Read("bmap") \cup {blk}] ELSE <<>>)
           /\ Buffer({TableOf(ino)} \cup (IF new THEN {"bmap"} ELSE {}))
    /\ UNCHANGED <<data, making, gone, garbled>>

(* sdext2_write by a node that never got its inode: 0 is taken for that of   *)
(* the root directory, and what happens from there is not modelled.         *)
PutNowhere(n) ==
    /\ ~ garbled /\ data[n] = 0
    /\ garbled' = TRUE
    /\ UNCHANGED <<card, data, making, gone>>

(* ext2_unlink of the directory's last entry: ext2_rm_child, ext2_bdealloc  *)
(* of the blocks up to the first that is 0, ext2_idealloc, and put_node of   *)
(* the inode as it was.                                                    *)
Unlink(n) ==
    /\ ~ garbled /\ data[n] # NoNode
    /\ LET d    == Read("dir")
           ino  == Last(d).ino
           file == Read(TableOf(ino))[ino]
           used == {k \in Index : \A m \in 0 .. k : file[m] # 0}
       IN  /\ d # <<>> /\ Last(d).name = n
           /\ Write([imap |-> Read("imap") \ {ino}, dir |-> Front(d)]
                    @@ WithNode(ino, file)
                    @@ IF used = {} THEN <<>>
                       ELSE [bmap |-> Read("bmap") \ {file[k] : k \in used}])
           /\ Buffer({"imap", "dir", TableOf(ino)} \cup (IF used = {} THEN {} ELSE {"bmap"}))
    /\ gone' = gone \cup {n}
    /\ UNCHANGED <<data, making, garbled>>

(* The vfs_del after unlink: not of a node that is open, nor by a program    *)
(* that has been killed.                                                   *)
Del(n) ==
    /\ ~ garbled /\ n \in gone
    /\ data' = [data EXCEPT ![n] = NoNode] \/ UNCHANGED data
    /\ gone' = gone \ {n}
    /\ UNCHANGED <<card, making, garbled>>

Undefined == garbled /\ UNCHANGED vars

Next ==
    \/ \E n \in Names :
          \/ Add(n) \/ Create(n) \/ Set(n) \/ Kill(n) \/ Unlink(n) \/ Del(n)
          \/ PutNowhere(n) \/ \E k \in Index : Put(n, k)
    \/ Undefined

Spec == Init /\ [][Next]_vars

-----------------------------------------------------------------------------
Held(i) == {disk[TableOf(i)][i][k] : k \in Index} \ {0}
Listed == {disk.dir[i].ino : i \in DOMAIN disk.dir}

(* "if its the first one of the new block, allocatea new one"               *)
(* (ext2fs.c:486): a block that ext2_write gave to a file is new, and so    *)
(* no two files in the directory hold the same block.                      *)
NewBlock == \A i, j \in Listed : i # j => Held(i) \cap Held(j) = {}
=============================================================================
