----------------------------- MODULE Squashfs -----------------------------
(***************************************************************************)
(* Reading a file system in flash: fs/squashfs/squashfs.c, called by the   *)
(* commands fsload and ls of common/cmd_fs.c.  Every action is one block   *)
(* read and everything the code does with it.  A block may be damaged so   *)
(* that it cannot be uncompressed.  The tables are sequences of blocks; an *)
(* inode or a listing stands at a place of one of them and may go on in    *)
(* the next one.  A byte of a file is <<node, index>>.                     *)
(***************************************************************************)
EXTENDS Integers, Sequences, FiniteSets, SequencesExt

CONSTANTS
  Images,      \* file systems by name, see ImageShape
  BlockSize,   \* sBlk.block_size
  Metadata,    \* SQUASHFS_METADATA_SIZE
  Paths,       \* names typed, sequences of components
  MaxBad       \* damaged blocks

Types == {"dir", "file", "symlink", "ldir"}

(* An image: the lengths of the blocks of its inode and directory tables, its  *)
(* fragments, its nodes and its root.  A node has a type, the place (at) and   *)
(* length of its inode; a directory the place (listing) and length (listed) of *)
(* its listing and its entries; a file its size, and the fragment (frag, or 0) *)
(* and the place in it that hold its tail.  A fragment is raw when it is not   *)
(* compressed.                                                                 *)
ImageShape(i) ==
  /\ DOMAIN i = {"inodes", "dirs", "frags", "nodes", "root"}
  /\ \A b \in Range(i.inodes) \cup Range(i.dirs) : b \in 1..Metadata
  /\ \A n \in DOMAIN i.nodes :
       LET d == i.nodes[n]
       IN d.type \in Types /\ d.at[1] \in DOMAIN i.inodes /\ d.frag \in 0..Len(i.frags)

SquashSizes == /\ BlockSize \in Nat \ {0} /\ Metadata \in Nat \ {0} /\ MaxBad \in Nat
               /\ \A i \in DOMAIN Images : ImageShape(Images[i])

VARIABLES
  img,      \* the name of the file system
  bad,      \* its damaged blocks
  strtok,   \* ___strtok: the components not yet taken of the last name
  look,     \* squashfs_lookup: what for, its name, where it has come to
  mem,      \* what was loaded
  shown     \* the directory ls printed

vars == <<img, bad, strtok, look, mem, shown>>

None   == "none"
NoName == <<>>
Junk   == <<None, 0>>
NoLook == [flag |-> None, path |-> <<>>, name |-> NoName, place |-> "idle",
           node |-> None, k |-> 0, astray |-> FALSE, ret |-> 0, leftover |-> FALSE]

fs   == Images[img]
Node == fs.nodes[look.node]
Least(a, b) == IF a < b THEN a ELSE b

(* The blocks that hold all the data of a file, but the tail in its fragment. *)
DataBlocks(n) == IF n.frag = 0 THEN (n.size + BlockSize - 1) \div BlockSize
                               ELSE n.size \div BlockSize

(* Blocks that may be damaged. *)
BlocksOf(i) ==
  {<<"super", 1>>} \cup ({"inode"} \X DOMAIN i.inodes) \cup ({"dir"} \X DOMAIN i.dirs)
  \cup ({"table"} \X DOMAIN i.frags)
  \cup ({"frag"} \X {f \in DOMAIN i.frags : ~i.frags[f].raw})
  \cup UNION {{<<"data", n, k>> : k \in 1..DataBlocks(i.nodes[n])} : n \in DOMAIN i.nodes}

Init ==
  /\ img \in DOMAIN Images
  /\ bad \in {b \in SUBSET BlocksOf(fs) : Cardinality(b) <= MaxBad}
  /\ strtok = <<>>
  /\ look = NoLook
  /\ mem = <<>> /\ shown = None

---------------------------------------------------------------------------
(* The calls.  A load of a name that begins with "/" is refused before it      *)
(* begins.  ls of a partition alone gives squashfs_lookup no name at all, and  *)
(* strtok goes on with what the lookup before it left.                         *)
Begin(flag, path, leftover) ==
  /\ look.place = "idle"
  /\ look' = [NoLook EXCEPT !.flag = flag, !.path = path, !.place = "super",
                            !.leftover = leftover]
  /\ mem' = <<>> /\ shown' = None
  /\ UNCHANGED <<img, bad, strtok>>

Fsload      == \E p \in Paths : p # <<>> /\ Begin("load", p, FALSE)
Ls          == \E p \in Paths : Begin("ls", p, FALSE)
LsPartition == Begin("ls", <<>>, TRUE)

Damaged(kind, b) == <<kind, b>> \in bad

Goes(place) == look' = [look EXCEPT !.place = place]
Returns(v)  == look' = [look EXCEPT !.place = "done", !.ret = v]
Undefined   == Goes("undefined")

NextName(toks) == IF toks = <<>> THEN NoName ELSE Head(toks)
Behind(toks)   == IF toks = <<>> THEN <<>> ELSE Tail(toks)

(* squashfs_read_super, and the first component of the name.                   *)
ReadSuper ==
  /\ look.place = "super"
  /\ IF Damaged("super", 1)
       THEN Returns(0) /\ UNCHANGED strtok
       ELSE LET toks == IF look.leftover THEN strtok ELSE look.path
            IN /\ look' = [look EXCEPT !.place = "dir", !.node = fs.root,
                                       !.name = NextName(toks)]
               /\ strtok' = Behind(toks)
  /\ UNCHANGED <<img, bad, mem, shown>>

(* The inode of a directory on the way is taken from one block, though it may  *)
(* go on in the next.                                                          *)
ReadDirInode ==
  /\ look.place = "dir"
  /\ IF Damaged("inode", Node.at[1]) \/ Node.type # "dir" THEN Returns(0)
     ELSE IF Node.at[2] + Node.len > fs.inodes[Node.at[1]] THEN Undefined
     ELSE Goes("list")
  /\ UNCHANGED <<img, bad, strtok, mem, shown>>

---------------------------------------------------------------------------
(* squashfs_readdir *)

(* strncmp over the length of the entry's name *)
Matches(e) == IsPrefix(e.name, look.name)

First == {i \in DOMAIN Node.entries :
            Matches(Node.entries[i]) /\ \A j \in 1..(i - 1) : ~Matches(Node.entries[j])}

(* The entry is looked for, or, without a name, all are printed.               *)
Search ==
  IF look.name = NoName
    THEN Returns(1) /\ shown' = look.node /\ UNCHANGED strtok
    ELSE /\ UNCHANGED shown
         /\ IF First = {}
              THEN Returns(0) /\ UNCHANGED strtok
              ELSE \E i \in First :
                     /\ look' = [look EXCEPT !.node = Node.entries[i].node,
                                   !.name = NextName(strtok),
                                   !.place = IF strtok = <<>> THEN "final" ELSE "dir"]
                     /\ strtok' = Behind(strtok)

(* Whoever wanted a listing is told that it was printed.                       *)
Unreadable ==
  Returns(IF look.name = NoName THEN 1 ELSE 0) /\ UNCHANGED <<strtok, shown>>

(* The part of the listing that its first block holds.                         *)
InFirst == fs.dirs[Node.listing[1]] - Node.listing[2]

ReadListing ==
  /\ look.place = "list"
  /\ IF Damaged("dir", Node.listing[1]) THEN Unreadable
     ELSE IF Node.listed > InFirst
       THEN Goes("more") /\ UNCHANGED <<strtok, shown>>
       ELSE Search
  /\ UNCHANGED <<img, bad, mem>>

(* Two blocks are read at most, into room for one.                             *)
ReadMore ==
  LET b == Node.listing[1] + 1
  IN /\ look.place = "more"
     /\ IF Damaged("dir", b) THEN Unreadable
        ELSE IF InFirst + fs.dirs[b] > Metadata \/ Node.listed > InFirst + fs.dirs[b]
          THEN Undefined /\ UNCHANGED <<strtok, shown>>
          ELSE Search
     /\ UNCHANGED <<img, bad, mem>>

---------------------------------------------------------------------------
(* The inode of the last component, from n bytes of its table.                 *)
Inode(n) ==
  IF Node.at[2] + Node.len > n THEN Undefined
  ELSE CASE look.flag = "ls" /\ Node.type = "dir"    -> Goes("list")
         [] look.flag = "ls" /\ Node.type # "dir"    -> Returns(1)
         [] look.flag = "load" /\ Node.type = "file" -> Goes("data")
         [] look.flag = "load" /\ Node.type = "dir"  -> Returns(1)
         [] OTHER                                    -> Returns(0)

(* A mutant of GoesOnBehind: an inode is looked for in one block. *)
StaysInside == FALSE

(* A full block: the inode may go on in the next one, if there is one.         *)
GoesOnBehind == LET b == Node.at[1]
                IN fs.inodes[b] = Metadata /\ b < Len(fs.inodes)

ReadFinal ==
  /\ look.place = "final"
  /\ IF Damaged("inode", Node.at[1]) THEN Returns(0)
     ELSE IF GoesOnBehind THEN Goes("behind")
     ELSE Inode(fs.inodes[Node.at[1]])
  /\ UNCHANGED <<img, bad, strtok, mem, shown>>

ReadBehind ==
  LET b == Node.at[1] + 1
  IN /\ look.place = "behind"
     /\ IF Damaged("inode", b) THEN Returns(0)
        ELSE Inode(Metadata + fs.inodes[b])
     /\ UNCHANGED <<img, bad, strtok, mem, shown>>

---------------------------------------------------------------------------
(* The data *)

Content(n) == [i \in 1..fs.nodes[n].size |-> <<n, i>>]

Piece(k) == SubSeq(Content(look.node), (k - 1) * BlockSize + 1,
                   Least(k * BlockSize, Node.size))

(* A block that cannot be uncompressed counts for nothing, and the ones after  *)
(* it are read from the wrong place.                                           *)
ReadData ==
  /\ look.place = "data" /\ look.k < DataBlocks(Node)
  /\ LET k == look.k + 1
     IN CASE look.astray ->
               /\ \E n \in 0..BlockSize : mem' = mem \o [i \in 1..n |-> Junk]
               /\ look' = [look EXCEPT !.k = k]
          [] ~look.astray /\ <<"data", look.node, k>> \in bad ->
               /\ look' = [look EXCEPT !.k = k, !.astray = TRUE]
               /\ UNCHANGED mem
          [] OTHER ->
               /\ look' = [look EXCEPT !.k = k]
               /\ mem' = mem \o Piece(k)
  /\ UNCHANGED <<img, bad, strtok, shown>>

TailSize == Node.size % BlockSize

(* The tail in a fragment.  Nobody looks at whether the table of the fragments *)
(* could be read.  A fragment that is not compressed is read from its start,   *)
(* wherever in it the tail is.                                                 *)
ReadFragment ==
  /\ look.place = "data" /\ look.k = DataBlocks(Node)
  /\ IF Node.frag = 0 \/ TailSize = 0 THEN Returns(1) /\ UNCHANGED mem
     ELSE IF \E b \in DOMAIN fs.frags : Damaged("table", b) THEN Undefined /\ UNCHANGED mem
     ELSE /\ Returns(1)
          /\ mem' = IF Damaged("frag", Node.frag) THEN mem
                    ELSE LET frag == fs.frags[Node.frag]
                             from == IF frag.raw THEN 0 ELSE Node.inFrag
                         IN mem \o SubSeq(frag.bytes, from + 1, from + TailSize)
  /\ UNCHANGED <<img, bad, strtok, shown>>

Returned ==
  /\ look.place = "done" /\ look' = NoLook
  /\ UNCHANGED <<img, bad, strtok, mem, shown>>

Next ==
  \/ Fsload \/ Ls \/ LsPartition \/ Returned
  \/ ReadSuper \/ ReadDirInode \/ ReadListing \/ ReadMore
  \/ ReadFinal \/ ReadBehind \/ ReadData \/ ReadFragment

Spec == Init /\ [][Next]_vars

---------------------------------------------------------------------------
(* Every variable has its type. *)
SquashTypeOK ==
  /\ img \in DOMAIN Images /\ bad \subseteq BlocksOf(fs)
  /\ look.node \in DOMAIN fs.nodes \cup {None} /\ look.ret \in {0, 1}
  /\ look.place \in {"idle", "super", "dir", "list", "more", "final", "behind",
                     "data", "done", "undefined"}
  /\ shown \in DOMAIN fs.nodes \cup {None}

(* What a name means: the node reached from the root by entries of exactly the *)
(* names typed.                                                                *)
Child(n, name) ==
  IF n # None /\ fs.nodes[n].type = "dir"
     /\ \E i \in DOMAIN fs.nodes[n].entries : fs.nodes[n].entries[i].name = name
    THEN LET e == fs.nodes[n].entries
         IN e[CHOOSE i \in DOMAIN e : e[i].name = name].node
    ELSE None

Named(path) == FoldLeft(Child, fs.root, path)

(* On the way an entry's name is the beginning of the one typed.               *)
Ambiguous(path) ==
  \E i \in DOMAIN path :
    LET n == Named(SubSeq(path, 1, i - 1))
    IN /\ n # None /\ fs.nodes[n].type = "dir"
       /\ \E j \in DOMAIN fs.nodes[n].entries :
            LET e == fs.nodes[n].entries[j].name
            IN e # path[i] /\ IsPrefix(e, path[i])

(* The tail of a file stands behind others in a fragment not compressed.       *)
RawTail(n) == n # None /\ LET d == fs.nodes[n]
                          IN d.frag # 0 /\ d.inFrag # 0 /\ fs.frags[d.frag].raw

(* The directories' inodes and listings are where the code can read them: an    *)
(* inode in one block, a listing in two that have room in one.                 *)
Readable ==
  \A d \in {fs.nodes[n] : n \in DOMAIN fs.nodes} : d.type = "dir" =>
    LET inFirst == fs.dirs[d.listing[1]] - d.listing[2]
    IN /\ d.at[2] + d.len <= fs.inodes[d.at[1]]
       /\ d.listed > inFirst => inFirst + fs.dirs[d.listing[1] + 1] <= Metadata

(* squashfs_lookup ("looks for a given name"): fsload loads the file that was  *)
(* named, all of it, wherever its inode, its entry and its tail are, and ls    *)
(* prints the directory that was named.  In a damaged file system nothing else *)
(* is found, and a load is shorter than the file unless it is right, which is  *)
(* all a caller has to go by.  The exceptions are names of which an entry on   *)
(* the way is the beginning, tails in the middle of a fragment that is not     *)
(* compressed, and ls of a partition alone after a lookup that failed.  Memory *)
(* is read behind a table only where directories go on in the next block, or   *)
(* the table of the fragments is damaged.                                      *)
LoadsNamed ==
  /\ look.place = "undefined" => ~Readable \/ \E b \in DOMAIN fs.frags : Damaged("table", b)
  /\ look.place = "done" /\ ~Ambiguous(look.path) =>
       LET n  == Named(look.path)
           is(t) == n # None /\ fs.nodes[n].type = t
       IN /\ look.flag = "load" /\ ~RawTail(n) =>
               /\ mem # <<>> => is("file") /\ (Len(mem) >= fs.nodes[n].size => mem = Content(n))
               /\ bad = {} /\ is("file") => mem = Content(n)
          /\ look.flag = "ls" /\ ~look.leftover =>
               /\ shown \in {None, n}
               /\ bad = {} => (look.ret = 1 <=> n # None) /\ (is("dir") => shown = n)
=============================================================================
