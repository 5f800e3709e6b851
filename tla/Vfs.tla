--------------------------------- MODULE Vfs --------------------------------
(***************************************************************************)
(* The tree of the virtual file system: the nodes and mounts of             *)
(* kernel/kernel/vfs.c under the calls of svc.c, as the programs of the     *)
(* tree make them one after the other: vfs_create and unlink of libs/sys    *)
(* (vfs.c, unistd.c) and the mounting of a device (do_mount in vdevice.c).  *)
(* Between two calls everybody else may run, and a program may be killed.   *)
(*                                                                         *)
(* A program knows a node by its address.  Nothing tells it that another     *)
(* program deleted the node or mounted over it since it looked it up, and   *)
(* the next call with that address then goes to memory that is free, or to  *)
(* a node outside the tree, where a second mount leaves its name in the     *)
(* directory twice.  The module does not follow the tree any further (lost).*)
(***************************************************************************)
EXTENDS Integers, FiniteSets, FiniteSetsExt, Functions

CONSTANTS
    Addresses,      \* addresses of nodes, in the order kmalloc gives them
    ROOTFSD,        \* the server that mounts the root file system
    Devices,        \* the other servers
    Users,          \* programs that make and unlink files
    MountPoint,     \* the name under /dev that each device mounts on
    FileNames,      \* the names of the files each user makes there
    FS_MOUNT_MAX    \* places in _vfs_mounts

NULL == -1
NoName == "no name"
DEV == "dev"
Procs == {ROOTFSD} \cup Devices \cup Users

ASSUME VfsAssumption ==
    /\ Addresses \subseteq Nat /\ IsFiniteSet(Addresses) /\ 0 \in Addresses
    /\ NULL \notin Procs /\ ROOTFSD \notin Devices \cup Users
    /\ Devices \cap Users = {}
    /\ MountPoint \in [Devices -> STRING]
    /\ FileNames \in [Users -> SUBSET STRING]
    /\ FS_MOUNT_MAX \in Nat

VARIABLES
    node,       \* vfs_node_t: links, name, mount_id; free is a NULL-filled node
    live,       \* the nodes that are allocated
    root,       \* _vfs_root
    mounts,     \* _vfs_mounts: server and org_node
    job,        \* what each program is doing
    keeper,     \* for each node the server that it was made for
    stale,      \* programs whose node was deleted or mounted over by another
    lost        \* a program has used such a node

tree == <<node, live, root, mounts, keeper>>
vfsVars == <<tree, job, stale, lost>>

Fresh(nm) == [father |-> NULL, first_kid |-> NULL, last_kid |-> NULL, next |-> NULL,
              prev |-> NULL, kids_num |-> 0, name |-> nm, mount_id |-> NULL, file |-> FALSE]
Idle == [at |-> "idle"]
Serving == [at |-> "serve"]
NoMount == [pid |-> NULL, org |-> NULL]
MountIds == 0 .. FS_MOUNT_MAX - 1

(* vfs_init.                                                               *)
TreeInit ==
    /\ node = [n \in Addresses |-> Fresh(IF n = 0 THEN "/" ELSE NoName)]
    /\ live = {0} /\ root = 0
    /\ mounts = [i \in MountIds |-> NoMount]
    /\ job = [p \in Procs |-> Idle]
    /\ keeper = [n \in Addresses |-> NULL]
    /\ stale = {} /\ lost = FALSE

-----------------------------------------------------------------------------
(* What a loop comes by that starts at a and goes on by onto until NULL: all  *)
(* that is in every set that has a, and with n also onto[n].               *)
Walk(a, onto) ==
    LET places == ({a} \cup Range(onto)) \ {NULL}
        closed == {S \in SUBSET places : /\ a \in S \cup {NULL}
                                        /\ \A n \in S : onto[n] \in S \cup {NULL}}
    IN  {n \in places : \A S \in closed : n \in S}

(* vfs_simple_get: the kids of d, and those that have the name.             *)
Kids(nodes, d) == Walk(nodes[d].first_kid, [n \in Addresses |-> nodes[n].next])
Named(d, nm) == {n \in Kids(node, d) : node[n].name = nm}

(* vfs_get_mount: the server of the next mounted node on the way up.        *)
WayUp(nodes, n) ==
    Walk(n, [m \in Addresses |-> IF nodes[m].mount_id >= 0 THEN NULL ELSE nodes[m].father])
ServerOf(n) ==
    LET tops == {m \in WayUp(node, n) : node[m].mount_id >= 0}
    IN  IF tops = {} THEN NULL ELSE mounts[node[CHOOSE m \in tops : TRUE].mount_id].pid

(* vfs_new_node.                                                           *)
NextFree == Min(Addresses \ live)

(* Mutation of AddTo: the kid is not told its elder brother.               *)
AddTo_NoPrev(nodes, d, n) ==
    LET last == nodes[d].last_kid
        kid  == [nodes EXCEPT ![n].father = d,
                              ![d].last_kid = n, ![d].kids_num = @ + 1]
    IN  IF last = NULL THEN [kid EXCEPT ![d].first_kid = n]
                       ELSE [kid EXCEPT ![last].next = n]

(* vfs_add.                                                                *)
AddTo(nodes, d, n) ==
    LET last == nodes[d].last_kid
        kid  == [nodes EXCEPT ![n].father = d, ![n].prev = last,
                              ![d].last_kid = n, ![d].kids_num = @ + 1]
    IN  IF last = NULL THEN [kid EXCEPT ![d].first_kid = n]
                       ELSE [kid EXCEPT ![last].next = n]

(* Mutation of Without: the next kid goes on pointing to the one taken out.  *)
Without_OneWay(nodes, n, m) ==
    LET r == nodes[n]
    IN  [nodes[m] EXCEPT
            !.first_kid = IF m = r.father /\ @ = n THEN r.next ELSE @,
            !.last_kid  = IF m = r.father /\ @ = n THEN r.prev ELSE @,
            !.kids_num  = IF m = r.father THEN @ - 1 ELSE @,
            !.prev = IF m = n THEN NULL ELSE @,
            !.next = IF m = n THEN NULL ELSE IF m = r.prev THEN r.next ELSE @]

(* vfs_remove, and the part of vfs_del that is the same: what becomes of m  *)
(* when n is taken out.  The node n keeps its father.                       *)
Without(nodes, n, m) ==
    LET r == nodes[n]
    IN  [nodes[m] EXCEPT
            !.first_kid = IF m = r.father /\ @ = n THEN r.next ELSE @,
            !.last_kid  = IF m = r.father /\ @ = n THEN r.prev ELSE @,
            !.kids_num  = IF m = r.father THEN @ - 1 ELSE @,
            !.prev = IF m = n THEN NULL ELSE IF m = r.next THEN r.prev ELSE @,
            !.next = IF m = n THEN NULL ELSE IF m = r.prev THEN r.next ELSE @]
Unlinked(nodes, n) == [m \in Addresses |-> Without(nodes, n, m)]

-----------------------------------------------------------------------------
At(p, at) == ~ lost /\ job[p].at = at
Ready(p) == ~ lost /\ job[p] = Idle
Goto(p, at) == job' = [job EXCEPT ![p].at = at]

(* The programs that have looked up n, and will make one more call with it.  *)
Referrers(n) ==
    {q \in Procs : \/ job[q].at \in {"mount", "create", "unlink"} /\ job[q].node = n
                   \/ job[q].at = "set" /\ job[q].org = n}

(* The program p is done with its node, and the programs in S lose theirs.   *)
Leave(p, then, S) ==
    /\ job' = [job EXCEPT ![p] = then]
    /\ stale' = (stale \cup S) \ {p}

-----------------------------------------------------------------------------
(* vfs_create up to vfs_get_mount: a directory, and the server to ask.      *)
Begin(p, nm, d, then) ==
    /\ Ready(p)
    /\ ServerOf(d) # NULL
    /\ job' = [job EXCEPT ![p] = [at |-> "new", then |-> then, name |-> nm, dir |-> d,
                                  to |-> ServerOf(d), node |-> NULL]]
    /\ UNCHANGED <<tree, stale, lost>>

(* device_run: a device makes its mount point in /dev, a user a file there;*)
(* open does so when the name is not there.                                *)
BeginDevice(p) ==
    \E d \in Named(root, DEV) : Begin(p, MountPoint[p], d, "mount")
BeginFile(p) ==
    \E d \in Named(root, DEV), nm \in FileNames[p] :
        Named(d, nm) = {} /\ Begin(p, nm, d, "create")

(* The root file system is mounted on / itself, once: init starts it.       *)
BeginRoot ==
    /\ Ready(ROOTFSD) /\ root = 0
    /\ job' = [job EXCEPT ![ROOTFSD] =
                 [at |-> "over", then |-> "mount", name |-> "/", dir |-> NULL,
                  to |-> ROOTFSD, node |-> root]]
    /\ UNCHANGED <<tree, stale, lost>>

(* sys_vfs_new_node.                                                       *)
New(p) ==
    /\ At(p, "new")
    /\ live # Addresses
    /\ live' = live \cup {NextFree}
    /\ node' = [node EXCEPT ![NextFree] =
                  [Fresh(job[p].name) EXCEPT !.file = job[p].then = "create"]]
    /\ job' = [job EXCEPT ![p].at = "add", ![p].node = NextFree]
    /\ UNCHANGED <<root, mounts, keeper, stale, lost>>

(* Mutation of Add: a name that is there already is not looked for.        *)
Add_Blind(p) ==
    /\ At(p, "add")
    /\ Goto(p, job[p].then)
    /\ node' = AddTo(node, job[p].dir, job[p].node)
    /\ keeper' = [keeper EXCEPT ![job[p].node] = job[p].to]
    /\ UNCHANGED <<live, root, mounts, stale, lost>>

(* sys_vfs_add: the node that has the name already, if there is one (and    *)
(* the one just made is lost), otherwise vfs_add.                          *)
Add(p) ==
    /\ At(p, "add")
    /\ LET there == Named(job[p].dir, job[p].name)
       IN  IF there = {}
           THEN /\ node' = AddTo(node, job[p].dir, job[p].node)
                /\ keeper' = [keeper EXCEPT ![job[p].node] = job[p].to]
                /\ Goto(p, job[p].then)
           ELSE /\ job' = [job EXCEPT ![p].at = job[p].then, ![p].node = Min(there)]
                /\ UNCHANGED <<node, keeper>>
    /\ UNCHANGED <<live, root, mounts, stale, lost>>

(* A call with the node that p looked up, if the node is still there.        *)
Uses(p, Call) ==
    IF p \in stale THEN lost' = TRUE /\ Leave(p, Idle, {}) /\ UNCHANGED tree
                   ELSE lost' = lost /\ Call

(* vfs_del of a file: nothing happens while somebody has it open.           *)
Delete(p, n) ==
    /\ \/ Leave(p, Idle, {}) /\ UNCHANGED <<node, live, keeper>>
       \/ /\ node' = [Unlinked(node, n) EXCEPT ![n] = Fresh(NoName)]
          /\ live' = live \ {n}
          /\ keeper' = [keeper EXCEPT ![n] = NULL]
          /\ Leave(p, Idle, Referrers(n))
    /\ UNCHANGED <<root, mounts>>

(* The rest of vfs_create: the server's answer, and vfs_set of what it      *)
(* holds.  A server that refuses leaves the node where it is; one that is   *)
(* not there makes the caller delete it, even if it found it there.         *)
Created(p) ==
    /\ At(p, "create")
    /\ \/ Leave(p, Idle, {}) /\ UNCHANGED <<tree, lost>>
       \/ Uses(p, Leave(p, Idle, {}) /\ UNCHANGED tree)
       \/ job[job[p].to].at # "serve" /\ Uses(p, Delete(p, job[p].node))

-----------------------------------------------------------------------------
(* do_mount: a node to mount, and for the root file system the directories  *)
(* it holds, before it is mounted.                                         *)
Over(p) ==
    /\ At(p, "mount") \/ At(p, "over")
    /\ live # Addresses
    /\ live' = live \cup {NextFree}
    /\ node' = [node EXCEPT ![NextFree] = Fresh(job[p].name)]
    /\ job' = [job EXCEPT ![p] = [at |-> IF p = ROOTFSD THEN "fill" ELSE "set",
                                  org |-> job[p].node, node |-> NextFree]]
    /\ UNCHANGED <<root, mounts, keeper, stale, lost>>

(* add_dir of rootfsd.                                                     *)
Fill ==
    /\ At(ROOTFSD, "fill")
    /\ live # Addresses
    /\ LET n == NextFree
       IN  /\ live' = live \cup {n}
           /\ node' = AddTo([node EXCEPT ![n] = Fresh(DEV)], job[ROOTFSD].node, n)
    /\ Goto(ROOTFSD, "set")
    /\ UNCHANGED <<root, mounts, keeper, stale, lost>>

(* Mutation of Mounted: the node mounted over stays where it is.            *)
Mounted_Beside(p, id, org, n) ==
    LET named == [node EXCEPT ![n].name = node[org].name, ![n].mount_id = id]
        d     == node[org].father
    IN  /\ mounts' = [mounts EXCEPT ![id] = [pid |-> p, org |-> org]]
        /\ IF d = NULL THEN root' = n /\ node' = named
           ELSE root' = root /\ node' = AddTo(named, d, n)

(* Mutation of Mounted: the new node is not told its mount.                 *)
Mounted_NoId(p, id, org, n) ==
    LET named == [node EXCEPT ![n].name = node[org].name]
        d     == node[org].father
    IN  /\ mounts' = [mounts EXCEPT ![id] = [pid |-> p, org |-> org]]
        /\ IF d = NULL THEN root' = n /\ node' = [named EXCEPT ![n].mount_id = id]
           ELSE root' = root /\ node' = AddTo(Unlinked(named, org), d, n)

(* vfs_mount: the entry, and the new node in the place of the old one.     *)
Mounted(p, id, org, n) ==
    LET named == [node EXCEPT ![n].name = node[org].name, ![n].mount_id = id]
        d     == node[org].father
    IN  /\ mounts' = [mounts EXCEPT ![id] = [pid |-> p, org |-> org]]
        /\ IF d = NULL THEN root' = n /\ node' = named
           ELSE root' = root /\ node' = AddTo(Unlinked(named, org), d, n)

(* Mutation of FreeMounts: places are not taken up by the mounts.          *)
FreeMounts_All == MountIds

(* vfs_get_free_mount_id.                                                  *)
FreeMounts == {i \in MountIds : mounts[i].org = NULL}

(* sys_vfs_mount: nobody is told when there is no place left for it.       *)
Mount(p) ==
    /\ At(p, "set")
    /\ \/ FreeMounts = {} /\ Leave(p, Serving, {}) /\ UNCHANGED <<tree, lost>>
       \/ FreeMounts # {} /\ Uses(p,
            /\ Mounted(p, Min(FreeMounts), job[p].org, job[p].node)
            /\ keeper' = [m \in Addresses |-> IF m \in {job[p].node} \cup Kids(node, job[p].node)
                                           THEN p ELSE keeper[m]]
            /\ Leave(p, Serving, Referrers(job[p].org))
            /\ UNCHANGED live)

-----------------------------------------------------------------------------
(* unlink: look the file up, ask the server, delete the node if it agrees.  *)
Lookup(p) ==
    /\ Ready(p)
    /\ \E d \in Named(root, DEV), nm \in FileNames[p] : \E n \in Named(d, nm) :
          /\ node[n].file
          /\ job' = [job EXCEPT ![p] = [at |-> "unlink", node |-> n]]
    /\ UNCHANGED <<tree, stale, lost>>

Unlink(p) ==
    /\ At(p, "unlink")
    /\ \/ Leave(p, Idle, {}) /\ UNCHANGED <<tree, lost>>
       \/ Uses(p, Delete(p, job[p].node))

(* A program is killed between two calls; it may be started again.          *)
Kill(p) ==
    /\ ~ lost /\ job[p] # Idle
    /\ Leave(p, Idle, {})
    /\ UNCHANGED <<tree, lost>>

(* After the use of a node that is not there nothing is claimed.            *)
Undefined == lost /\ UNCHANGED vfsVars

TreeNext ==
    \/ BeginRoot \/ Fill
    \/ \E p \in Devices : BeginDevice(p)
    \/ \E p \in Users : BeginFile(p) \/ Lookup(p) \/ Unlink(p)
    \/ \E p \in Procs : New(p) \/ Add(p) \/ Created(p) \/ Over(p) \/ Mount(p) \/ Kill(p)
    \/ Undefined

TreeSpec == TreeInit /\ [][TreeNext]_vfsVars

-----------------------------------------------------------------------------
TreeTypeOK ==
    /\ live \subseteq Addresses /\ root \in live
    /\ \A n \in Addresses \ live : node[n] = Fresh(NoName)
    /\ \A n \in live : LET r == node[n] IN
          {r.father, r.first_kid, r.last_kid, r.next, r.prev} \subseteq live \cup {NULL}
    /\ \A i \in MountIds : mounts[i].org \in live \cup {NULL}

(* Every directory's kids are one list, the same in both directions, of     *)
(* nodes that know their father, and as many as are counted; a node that    *)
(* was taken out, or never put in, holds on to nobody.                     *)
(* (vfs_add, vfs_remove, vfs_mount and vfs_del on the same links.)  It is    *)
(* claimed, as the two below, until a program uses the address of a node    *)
(* that another has deleted or mounted over since it was looked up: neither *)
(* vfs_mount nor vfs_del looks whether the node is still in the tree.       *)
ListOK(d) ==
    LET first == node[d].first_kid
        last  == node[d].last_kid
        older(n) == IF n = first THEN NULL ELSE node[n].prev
        after(n) == IF n = last THEN NULL ELSE node[n].next
    IN  /\ node[d].kids_num = Cardinality(Kids(node, d))
        /\ (first = NULL) = (last = NULL)
        /\ Kids(node, d) # {} => last \in Kids(node, d)
        /\ \A n \in Kids(node, d) : /\ n \in live /\ node[n].father = d
                              /\ node[n].prev = older(n) /\ node[n].next = after(n)
                              /\ n # last => node[node[n].next].prev = n
ListsOK == ~ lost =>
    /\ TreeTypeOK
    /\ \A d \in live : ListOK(d)
    /\ \A n \in live : (\A d \in live : n \notin Kids(node, d))
                        => node[n].next = NULL /\ node[n].prev = NULL

(* A path leads to one node: no two kids of a directory have one name,      *)
(* though programs and servers look for it in one call and make, add, mount *)
(* or unlink it in others, several at a time on the same name, until one of *)
(* them uses a node that is gone (sys_vfs_add, vfs_mount, vfs_del).         *)
NamesUnique == ~ lost =>
    \A d \in live : \A n, m \in Kids(node, d) : node[n].name = node[m].name => n = m

(* The server that a node was made for is the one that gets the requests    *)
(* for it, whatever has been mounted, mounted over, killed and started      *)
(* again since (vfs_get_mount against vfs_create's mount.pid), until a      *)
(* program uses a node that is gone.  A program that finds the name there   *)
(* asks the server of the directory too; that node was not made for it.     *)
Routed == ~ lost => \A n \in live : keeper[n] # NULL => ServerOf(n) = keeper[n]
=============================================================================
