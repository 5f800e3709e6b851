----------------------------- MODULE VfsProofs ------------------------------
(***************************************************************************)
(* Two parts.  The tree of the virtual file system, for any number of       *)
(* devices, users, places for mounts and nodes, and any names, shared or    *)
(* not: the lists of kids are whole, a path leads to one node and a request *)
(* to the server that the node was made for.  All three rest on TreeInv,    *)
(* which says of every program between two calls that the node it looked up *)
(* is where it was or that the program is among the stale.  The files that  *)
(* are open, for any number of processes, descriptors, nodes and messages:  *)
(* a node counts the descriptors that lead to it, and a server that takes   *)
(* what is in its queue knows the descriptors it gave that are not closed.  *)
(***************************************************************************)
EXTENDS Vfs, Files, FiniteSetTheorems, SequenceTheorems, TLAPS

LEMMA MinFacts ==
    ASSUME NEW S \in SUBSET Nat, S # {}
    PROVE  Min(S) \in S
<1>1. \E x \in S : \A y \in S : ~ (<<y, x>> \in OpToRel(<, Nat))
  BY WFMin, NatLessThanWellFounded
<1>2. PICK x \in S : \A y \in S : ~ (<<y, x>> \in OpToRel(<, Nat))
  BY <1>1
<1>3. \A y \in S : ~ (y < x)
  BY <1>2, Zenon DEF OpToRel
<1>4. \A y \in S : x =< y
  BY <1>3
<1> QED
  BY <1>4 DEF Min

-----------------------------------------------------------------------------
(* The tree.  What its variables hold, and a directory with its kids.       *)

Link == Addresses \cup {NULL}
Names == {NoName, "/", DEV} \cup {MountPoint[p] : p \in Devices}
                            \cup UNION {FileNames[p] : p \in Users}
NodeRecords ==
    [father : Link, first_kid : Link, last_kid : Link, next : Link, prev : Link,
     kids_num : Int, name : Names, mount_id : MountIds \cup {NULL}, file : BOOLEAN]

(* K are the kids of d: one list from the first to the last, the same in     *)
(* both directions.                                                        *)
Linked(nodes, d, n, K) ==
    /\ nodes[n].father = d
    /\ IF n = nodes[d].first_kid THEN nodes[n].prev = NULL
       ELSE nodes[n].prev \in K /\ nodes[nodes[n].prev].next = n
    /\ IF n = nodes[d].last_kid THEN nodes[n].next = NULL
       ELSE nodes[n].next \in K /\ nodes[nodes[n].next].prev = n
(* No smaller set than K has the first and all that come next: a loop that   *)
(* follows next from the first comes by every kid.                          *)
ReachesAll(nodes, d, K) ==
    \A S \in SUBSET K :
        (nodes[d].first_kid \in S /\ \A n \in S : nodes[n].next \in S \cup {NULL}) => S = K
IsList(nodes, d, K) ==
    /\ K \subseteq Addresses
    /\ nodes[d].kids_num = Cardinality(K)
    /\ IF K = {} THEN nodes[d].first_kid = NULL /\ nodes[d].last_kid = NULL
       ELSE nodes[d].first_kid \in K /\ nodes[d].last_kid \in K
    /\ \A n \in K : Linked(nodes, d, n, K)
    /\ ReachesAll(nodes, d, K)

(* What NamesUnique says of one directory.                                  *)
NamesApart(nodes, K) == \A n, m \in K : nodes[n].name = nodes[m].name => n = m

(* The links of the whole tree: stronger than ListsOK, and about links only. *)
IsKid(nodes, lv, n) == nodes[n].father \in lv /\ n \in Kids(nodes, nodes[n].father)
Sound(nodes, lv) ==
    /\ nodes \in [Addresses -> NodeRecords]
    /\ lv \subseteq Addresses
    /\ \A n \in Addresses \ lv : nodes[n] = Fresh(NoName)
    /\ \A d \in lv : /\ IsList(nodes, d, Kids(nodes, d)) /\ Kids(nodes, d) \subseteq lv
                     /\ NamesApart(nodes, Kids(nodes, d))
    /\ \A n \in lv : IsKid(nodes, lv, n) \/ (nodes[n].next = NULL /\ nodes[n].prev = NULL)

-----------------------------------------------------------------------------
(* What a program can be doing, and between which calls.                    *)
Requests == [at : {"new", "add", "mount", "create", "over"}, then : {"mount", "create"},
             name : Names, dir : Link, to : Procs, node : Link]
Mountings == [at : {"fill", "set"}, org : Link, node : Addresses]
Removals == [at : {"unlink"}, node : Addresses]
Jobs == {Idle, Serving} \cup Requests \cup Mountings \cup Removals

(* The directory /dev.                                                      *)
Dev == node[root].first_kid

(* A node that is named, in nobody's list yet.                              *)
Blank(n, nm) ==
    /\ n \in live \ {0, root} /\ node[n].name = nm /\ keeper[n] = NULL
    /\ node[n].father = NULL /\ node[n].first_kid = NULL /\ node[n].mount_id = NULL

(* A kid of /dev with its name, and one that p looked up: it is still there, *)
(* or another program has taken it out and p is among the stale.            *)
InDev(n, nm) == root # 0 /\ n \in Kids(node, Dev) /\ node[n].name = nm
Known(p, n, nm) == p \in stale \/ InDev(n, nm)
Found(p, n) == Known(p, n, node[n].name)

(* The root file system with its directory, before it is mounted.            *)
Filled(n) ==
    /\ n \in live \ {0, root} /\ node[n].name = "/" /\ node[n].father = NULL
    /\ \E d \in live : /\ node[n].first_kid = d /\ Kids(node, n) = {d}
                       /\ node[d].name = DEV /\ node[d].mount_id = NULL /\ node[d].father = n

(* What must be so for the program p to have the job j.                     *)
Fits(p, j) ==
    /\ j.at \in {"new", "add", "create", "mount"} =>
          /\ root # 0 /\ p \in Devices \cup Users
          /\ j.dir = Dev /\ j.to = ROOTFSD
          /\ j.then = "mount" <=> p \in Devices
          /\ p \in Devices => j.name = MountPoint[p]
    /\ j.at = "add" => Blank(j.node, j.name)
    /\ j.at = "create" => p \in Users /\ Known(p, j.node, j.name)
    /\ j.at = "mount" => p \in Devices /\ Known(p, j.node, j.name)
    /\ j.at = "unlink" => root # 0 /\ p \in Users /\ Found(p, j.node)
    /\ j.at = "over" => p = ROOTFSD /\ root = 0 /\ j.node = 0 /\ j.name = "/"
    /\ j.at = "fill" => p = ROOTFSD /\ root = 0 /\ j.org = 0 /\ Blank(j.node, "/")
    /\ j.at = "set" =>
          IF p = ROOTFSD THEN root = 0 /\ j.org = 0 /\ Filled(j.node)
          ELSE /\ root # 0 /\ p \in Devices
               /\ Known(p, j.org, MountPoint[p]) /\ Blank(j.node, MountPoint[p])
JobsOK == \A p \in Procs, j \in Jobs : job[p] = j => Fits(p, j)

(* A node that is not in the tree yet is in one program's hands.            *)
HoldsAt == {"add", "fill", "set"}
Holds(p, n) == job[p].at \in HoldsAt /\ job[p].node = n
JobsApart == \A p, q \in Procs, n \in Addresses : Holds(p, n) /\ Holds(q, n) => p = q

TypesOK ==
    /\ Sound(node, live)
    /\ root \in live
    /\ mounts \in [MountIds -> [pid : Procs \cup {NULL}, org : Link]]
    /\ keeper \in [Addresses -> Procs \cup {NULL}]
    /\ job \in [Procs -> Jobs]

(* Node 0 stays as it was made, and once the root file system is mounted it  *)
(* has the one directory /dev.                                              *)
RootOK ==
    /\ 0 \in live /\ node[0].father = NULL /\ node[0].first_kid = NULL /\ node[0].name = "/"
    /\ node[root].father = NULL
    /\ root # 0 =>
          /\ node[root].mount_id \in MountIds
          /\ mounts[node[root].mount_id].pid = ROOTFSD /\ mounts[node[root].mount_id].org # NULL
          /\ Dev \in live /\ Kids(node, root) = {Dev}
          /\ node[Dev].name = DEV /\ node[Dev].father = root /\ node[Dev].mount_id = NULL

(* A node's father is there even when the node was mounted over: then it is  *)
(* /dev, which is never deleted.                                            *)
FathersOK ==
    \A n \in live : LET f == node[n].father IN
        f # NULL => /\ f \in live
                    /\ \/ root # 0 /\ f = Dev
                       \/ node[f].father = NULL /\ n \in Kids(node, f)

(* What was mounted over is out of the tree and keeps its father: nobody     *)
(* finds it again to delete it, so that no place gets free.                 *)
Aside(o) == root # 0 /\ node[o].father = Dev /\ o \notin Kids(node, Dev)
MountsOK ==
    \A i \in MountIds : LET o == mounts[i].org IN
        o # NULL => o \in live /\ (o = 0 \/ Aside(o))

(* Files and directories are kept by the root file system, and the others    *)
(* by the server of their own mount.                                        *)
KeepersOK ==
    \A n \in Addresses : keeper[n] # NULL =>
        /\ n \in live /\ root # 0
        /\ \/ node[n].mount_id = NULL /\ keeper[n] = ROOTFSD /\ (n = Dev \/ node[n].father = Dev)
           \/ /\ node[n].mount_id \in MountIds
              /\ mounts[node[n].mount_id].org # NULL
              /\ mounts[node[n].mount_id].pid = keeper[n]

(* The inductive invariant of the tree.                                     *)
TreeInv ==
    /\ TypesOK /\ RootOK /\ FathersOK /\ MountsOK /\ KeepersOK
    /\ JobsOK /\ JobsApart

-----------------------------------------------------------------------------
(* What a loop along the links comes by.                                    *)

Covers(a, onto, W) ==
    /\ W \subseteq ({a} \cup Range(onto)) \ {NULL}
    /\ a \in W \cup {NULL}
    /\ \A n \in W : onto[n] \in W \cup {NULL}
    /\ \A S \in SUBSET W :
          a \in S \cup {NULL} /\ (\A n \in S : onto[n] \in S \cup {NULL}) => S = W

LEMMA WalkIs ==
    ASSUME NEW a, NEW onto, NEW W, Covers(a, onto, W)
    PROVE  Walk(a, onto) = W
<1> DEFINE places == ({a} \cup Range(onto)) \ {NULL}
           closed == {S \in SUBSET places : /\ a \in S \cup {NULL}
                                           /\ \A n \in S : onto[n] \in S \cup {NULL}}
<1>1. W \in closed
  BY DEF Covers
<1>2. ASSUME NEW S \in closed
      PROVE  W \subseteq S
  <2>1. a \in (S \cap W) \cup {NULL} /\ \A n \in S \cap W : onto[n] \in (S \cap W) \cup {NULL}
    BY <1>1, <1>2
  <2>2. S \cap W = W
    BY <2>1 DEF Covers
  <2> QED
    BY <2>2
<1>3. Walk(a, onto) = {n \in places : \A S \in closed : n \in S}
  BY DEF Walk
<1>4. W \subseteq places
  BY DEF Covers
<1> HIDE DEF places, closed
<1> QED
  BY <1>1, <1>2, <1>3, <1>4

LEMMA NullFacts ==
    NULL \notin Addresses /\ IsFiniteSet(Addresses) /\ 0 \in Addresses
BY VfsAssumption DEF NULL

LEMMA KidsAre ==
    ASSUME NEW nodes, NEW d, NEW K, IsList(nodes, d, K)
    PROVE  Kids(nodes, d) = K
<1> DEFINE onto == [n \in Addresses |-> nodes[n].next]
           a == nodes[d].first_kid
<1>1. \A n \in K : n \in Addresses /\ onto[n] = nodes[n].next /\ n # NULL
  BY NullFacts DEF IsList
<1>2. \A n \in K : onto[n] \in K \cup {NULL}
  BY <1>1 DEF IsList, Linked
<1>3. a \in K \cup {NULL}
  BY DEF IsList
<1>4. ASSUME NEW n \in K
      PROVE  n \in {a} \cup Range(onto)
  <2>1. CASE n # a
    <3>1. nodes[n].prev \in K /\ nodes[nodes[n].prev].next = n
      BY <1>4, <2>1 DEF IsList, Linked
    <3> QED
      BY <1>1, <3>1 DEF Range
  <2> QED
    BY <2>1
<1>5. ASSUME NEW S \in SUBSET K, a \in S \cup {NULL}, \A n \in S : onto[n] \in S \cup {NULL}
      PROVE  S = K
  <2>1. CASE K # {}
    <3>1. a \in S
      BY <1>1, <1>5, <2>1 DEF IsList
    <3>2. \A n \in S : nodes[n].next \in S \cup {NULL}
      BY <1>1, <1>5
    <3> QED
      BY <1>5, <3>1, <3>2 DEF IsList, ReachesAll
  <2> QED
    BY <1>5, <2>1
<1>6. Covers(a, onto, K)
  BY <1>1, <1>2, <1>3, <1>4, <1>5 DEF Covers
<1> QED
  BY <1>6, WalkIs DEF Kids

-----------------------------------------------------------------------------
(* What the operations on the links do to a node.                           *)

SameLabels(r, s) == r.name = s.name /\ r.mount_id = s.mount_id /\ r.file = s.file

AddedAt(nodes, r, d, n, m) ==
    LET last == nodes[d].last_kid
        s    == nodes[m]
    IN  /\ r.father = IF m = n THEN d ELSE s.father
        /\ r.prev = IF m = n THEN last ELSE s.prev
        /\ r.next = IF m = last THEN n ELSE s.next
        /\ r.first_kid = IF m = d /\ last = NULL THEN n ELSE s.first_kid
        /\ r.last_kid = IF m = d THEN n ELSE s.last_kid
        /\ r.kids_num = IF m = d THEN s.kids_num + 1 ELSE s.kids_num
        /\ SameLabels(r, s)
Added(nodes, new, d, n) ==
    /\ new \in [Addresses -> NodeRecords]
    /\ \A m \in Addresses : AddedAt(nodes, new[m], d, n, m)

(* The fields of a node that are not named in F are as they were.           *)
Same(r, s, F) ==
    /\ SameLabels(r, s)
    /\ "father" \notin F => r.father = s.father
    /\ "prev" \notin F => r.prev = s.prev
    /\ "next" \notin F => r.next = s.next
    /\ "first_kid" \notin F => r.first_kid = s.first_kid
    /\ "last_kid" \notin F => r.last_kid = s.last_kid
    /\ "kids_num" \notin F => r.kids_num = s.kids_num

LEMMA RecordFacts ==
    ASSUME NEW r \in NodeRecords, NEW a \in Link, NEW b \in Link
    PROVE  /\ [r EXCEPT !.father = a, !.prev = b] \in NodeRecords
           /\ [r EXCEPT !.last_kid = a, !.kids_num = @ + 1] \in NodeRecords
           /\ [r EXCEPT !.first_kid = a] \in NodeRecords
           /\ [r EXCEPT !.next = a] \in NodeRecords
<1>1. r.kids_num + 1 \in Int
  BY DEF NodeRecords
<1>2. [r EXCEPT !.father = a, !.prev = b] \in NodeRecords
  BY DEF NodeRecords
<1>3. \A k \in Int : [r EXCEPT !.last_kid = a, !.kids_num = k] \in NodeRecords
  BY DEF NodeRecords
<1>4. [r EXCEPT !.first_kid = a] \in NodeRecords
  BY DEF NodeRecords
<1>5. [r EXCEPT !.next = a] \in NodeRecords
  BY DEF NodeRecords
<1> QED
  BY <1>1, <1>2, <1>3, <1>4, <1>5

IsPlaced(x, r, a, b) == x = [r EXCEPT !.father = a, !.prev = b]

LEMMA Placed ==
    ASSUME NEW r \in NodeRecords, NEW x, NEW a, NEW b, IsPlaced(x, r, a, b)
    PROVE  x.father = a /\ x.prev = b /\ Same(x, r, {"father", "prev"})
BY DEF IsPlaced, NodeRecords, Same, SameLabels

LEMMA Enlarged ==
    ASSUME NEW r \in NodeRecords, NEW x, NEW a, x = [r EXCEPT !.last_kid = a, !.kids_num = @ + 1]
    PROVE  /\ x.last_kid = a /\ x.kids_num = r.kids_num + 1
           /\ Same(x, r, {"last_kid", "kids_num"})
<1> DEFINE k == r.kids_num + 1
<1>1. x = [r EXCEPT !.last_kid = a, !.kids_num = k]
  OBVIOUS
<1> HIDE DEF k
<1>2. x.last_kid = a /\ x.kids_num = k /\ Same(x, r, {"last_kid", "kids_num"})
  BY <1>1 DEF NodeRecords, Same, SameLabels
<1> QED
  BY <1>2 DEF k

LEMMA Headed ==
    ASSUME NEW r \in NodeRecords, NEW x, NEW a, x = [r EXCEPT !.first_kid = a]
    PROVE  x.first_kid = a /\ Same(x, r, {"first_kid"})
BY DEF NodeRecords, Same, SameLabels

LEMMA Followed ==
    ASSUME NEW r \in NodeRecords, NEW x, NEW a, x = [r EXCEPT !.next = a]
    PROVE  x.next = a /\ Same(x, r, {"next"})
BY DEF NodeRecords, Same, SameLabels

LEMMA AddToNodes ==
    ASSUME NEW nodes \in [Addresses -> NodeRecords],
           NEW d \in Addresses, NEW n \in Addresses, d # n
    PROVE  Added(nodes, AddTo(nodes, d, n), d, n)
<1> DEFINE last == nodes[d].last_kid
           kid == [nodes EXCEPT ![n].father = d, ![n].prev = last,
                                ![d].last_kid = n, ![d].kids_num = @ + 1]
           new == AddTo(nodes, d, n)
<1>1. last \in Link /\ d \in Link /\ n \in Link /\ NULL \notin Addresses
  BY NullFacts DEF Link, NodeRecords
<1>2. /\ kid \in [Addresses -> NodeRecords]
      /\ kid[n] = [nodes[n] EXCEPT !.father = d, !.prev = last]
      /\ kid[d] = [nodes[d] EXCEPT !.last_kid = n, !.kids_num = @ + 1]
      /\ \A m \in Addresses \ {d, n} : kid[m] = nodes[m]
  <2> HIDE DEF last
  <2>1. [nodes[n] EXCEPT !.father = d, !.prev = last] \in NodeRecords
    BY <1>1, RecordFacts
  <2>2. [nodes[d] EXCEPT !.last_kid = n, !.kids_num = @ + 1] \in NodeRecords
    BY <1>1, RecordFacts
  <2>3. /\ kid[n] = [nodes[n] EXCEPT !.father = d, !.prev = last]
        /\ kid[d] = [nodes[d] EXCEPT !.last_kid = n, !.kids_num = @ + 1]
        /\ \A m \in Addresses \ {d, n} : kid[m] = nodes[m]
        /\ kid = [m \in Addresses |-> kid[m]]
    OBVIOUS
  <2> HIDE DEF kid
  <2>4. \A m \in Addresses : kid[m] \in NodeRecords
    BY <2>1, <2>2, <2>3
  <2> QED
    BY <2>3, <2>4
<1>3. new = IF last = NULL THEN [kid EXCEPT ![d].first_kid = n]
            ELSE [kid EXCEPT ![last].next = n]
  BY DEF AddTo
<1> HIDE DEF kid, new
<1>4. \A m \in Addresses : nodes[m] \in NodeRecords /\ kid[m] \in NodeRecords
  BY <1>2
<1>5. \A m \in Addresses :
          /\ kid[m].father = IF m = n THEN d ELSE nodes[m].father
          /\ kid[m].prev = IF m = n THEN last ELSE nodes[m].prev
          /\ kid[m].last_kid = IF m = d THEN n ELSE nodes[m].last_kid
          /\ kid[m].kids_num = IF m = d THEN nodes[m].kids_num + 1 ELSE nodes[m].kids_num
          /\ kid[m].next = nodes[m].next /\ kid[m].first_kid = nodes[m].first_kid
          /\ SameLabels(kid[m], nodes[m])
  <2> HIDE DEF last
  <2>1. kid[n].father = d /\ kid[n].prev = last /\ Same(kid[n], nodes[n], {"father", "prev"})
    <3>1. IsPlaced(kid[n], nodes[n], d, last)
      BY <1>2 DEF IsPlaced
    <3> QED
      BY <1>4, <3>1, Placed
  <2>2. /\ kid[d].last_kid = n /\ kid[d].kids_num = nodes[d].kids_num + 1
        /\ Same(kid[d], nodes[d], {"last_kid", "kids_num"})
    BY <1>2, <1>4, Enlarged
  <2>3. ASSUME NEW m \in Addresses \ {d, n}
        PROVE  kid[m] = nodes[m] /\ SameLabels(kid[m], nodes[m])
    BY <1>2 DEF SameLabels
  <2> QED
    BY <2>1, <2>2, <2>3 DEF Same
<1>6. CASE last = NULL
  <2>1. new \in [Addresses -> NodeRecords]
    <3>1. [kid[d] EXCEPT !.first_kid = n] \in NodeRecords
      BY <1>1, <1>4, RecordFacts
    <3> QED
      BY <1>2, <1>3, <1>6, <3>1
  <2>2. new[d] = [kid[d] EXCEPT !.first_kid = n] /\ \A m \in Addresses \ {d} : new[m] = kid[m]
    BY <1>2, <1>3, <1>6
  <2>3. new[d].first_kid = n /\ Same(new[d], kid[d], {"first_kid"})
    BY <1>4, <2>2, Headed
  <2>4. AddedAt(nodes, new[d], d, n, d)
    BY <1>1, <1>5, <1>6, <2>3 DEF AddedAt, Same, SameLabels
  <2>5. ASSUME NEW m \in Addresses \ {d}
        PROVE  AddedAt(nodes, new[m], d, n, m)
    <3>1. m \in Addresses /\ m # d /\ m # last /\ new[m] = kid[m]
      BY <1>1, <1>6, <2>2
    <3>2. /\ new[m].father = IF m = n THEN d ELSE nodes[m].father
          /\ new[m].prev = IF m = n THEN last ELSE nodes[m].prev
          /\ new[m].last_kid = nodes[m].last_kid /\ new[m].kids_num = nodes[m].kids_num
          /\ new[m].next = nodes[m].next /\ new[m].first_kid = nodes[m].first_kid
          /\ SameLabels(new[m], nodes[m])
      BY <1>5, <3>1
    <3> QED
      BY <3>1, <3>2 DEF AddedAt
  <2> QED
    BY <2>1, <2>4, <2>5 DEF Added, new
<1>7. CASE last # NULL
  <2>1. last \in Addresses
    BY <1>1, <1>7 DEF Link
  <2>2. new \in [Addresses -> NodeRecords]
    <3>1. [kid[last] EXCEPT !.next = n] \in NodeRecords
      BY <1>1, <1>4, <2>1, RecordFacts
    <3> QED
      BY <1>2, <1>3, <1>7, <3>1
  <2>3. new[last] = [kid[last] EXCEPT !.next = n] /\ \A m \in Addresses \ {last} : new[m] = kid[m]
    BY <1>2, <1>3, <1>7, <2>1
  <2>4. new[last].next = n /\ Same(new[last], kid[last], {"next"})
    BY <1>4, <2>1, <2>3, Followed
  <2>5. AddedAt(nodes, new[last], d, n, last)
    BY <1>5, <1>7, <2>1, <2>4 DEF AddedAt, Same, SameLabels
  <2>6. ASSUME NEW m \in Addresses \ {last}
        PROVE  AddedAt(nodes, new[m], d, n, m)
    <3>1. m \in Addresses /\ m # last /\ new[m] = kid[m]
      BY <2>3
    <3>2. /\ new[m].father = IF m = n THEN d ELSE nodes[m].father
          /\ new[m].prev = IF m = n THEN last ELSE nodes[m].prev
          /\ new[m].last_kid = IF m = d THEN n ELSE nodes[m].last_kid
          /\ new[m].kids_num = IF m = d THEN nodes[m].kids_num + 1 ELSE nodes[m].kids_num
          /\ new[m].next = nodes[m].next /\ new[m].first_kid = nodes[m].first_kid
          /\ SameLabels(new[m], nodes[m])
      BY <1>5, <3>1
    <3> QED
      BY <1>7, <3>1, <3>2 DEF AddedAt
  <2> QED
    BY <2>2, <2>5, <2>6 DEF Added, new
<1> QED
  BY <1>6, <1>7 DEF new

RemovedAt(nodes, r, n, m) ==
    LET x == nodes[n]
        s == nodes[m]
    IN  /\ r.father = s.father
        /\ r.next = IF m = n THEN NULL ELSE IF m = x.prev THEN x.next ELSE s.next
        /\ r.prev = IF m = n THEN NULL ELSE IF m = x.next THEN x.prev ELSE s.prev
        /\ r.first_kid = IF m = x.father /\ s.first_kid = n THEN x.next ELSE s.first_kid
        /\ r.last_kid = IF m = x.father /\ s.last_kid = n THEN x.prev ELSE s.last_kid
        /\ r.kids_num = IF m = x.father THEN s.kids_num - 1 ELSE s.kids_num
        /\ SameLabels(r, s)
Removed(nodes, new, n) ==
    /\ new \in [Addresses -> NodeRecords]
    /\ \A m \in Addresses : RemovedAt(nodes, new[m], n, m)

IsCut(x, r, first, last, k, prev, next) ==
    x = [r EXCEPT !.first_kid = first, !.last_kid = last, !.kids_num = k,
                  !.prev = prev, !.next = next]

LEMMA Cut ==
    ASSUME NEW r \in NodeRecords, NEW x, NEW first \in Link, NEW last \in Link, NEW k \in Int,
           NEW prev \in Link, NEW next \in Link, IsCut(x, r, first, last, k, prev, next)
    PROVE  /\ x \in NodeRecords
           /\ x.first_kid = first /\ x.last_kid = last /\ x.kids_num = k
           /\ x.prev = prev /\ x.next = next
           /\ x.father = r.father /\ SameLabels(x, r)
<1>1. x \in NodeRecords
  BY DEF IsCut, NodeRecords
<1> QED
  BY <1>1 DEF IsCut, NodeRecords, SameLabels

LEMMA LinkFacts ==
    ASSUME NEW r \in NodeRecords
    PROVE  /\ r.father \in Link /\ r.first_kid \in Link /\ r.last_kid \in Link
           /\ r.next \in Link /\ r.prev \in Link
           /\ r.kids_num \in Int /\ r.mount_id \in MountIds \cup {NULL} /\ r.name \in Names
BY DEF NodeRecords

LEMMA UnlinkedNodes ==
    ASSUME NEW nodes \in [Addresses -> NodeRecords], NEW n \in Addresses
    PROVE  Removed(nodes, Unlinked(nodes, n), n)
<1> DEFINE new == Unlinked(nodes, n)
<1>1. ASSUME NEW m \in Addresses
      PROVE  new[m] \in NodeRecords /\ RemovedAt(nodes, new[m], n, m)
  <2> DEFINE r == nodes[n]
             s == nodes[m]
             first == IF m = r.father /\ s.first_kid = n THEN r.next ELSE s.first_kid
             last == IF m = r.father /\ s.last_kid = n THEN r.prev ELSE s.last_kid
             k == IF m = r.father THEN s.kids_num - 1 ELSE s.kids_num
             prev == IF m = n THEN NULL ELSE IF m = r.next THEN r.prev ELSE s.prev
             next == IF m = n THEN NULL ELSE IF m = r.prev THEN r.next ELSE s.next
  <2>1. new[m] = Without(nodes, n, m)
    BY DEF Unlinked
  <2>2. IsCut(Without(nodes, n, m), s, first, last, k, prev, next)
    BY DEF Without, IsCut
  <2>3. IsCut(new[m], s, first, last, k, prev, next)
    BY <2>1, <2>2
  <2>4. r \in NodeRecords /\ s \in NodeRecords
    OBVIOUS
  <2>5. first \in Link /\ last \in Link /\ k \in Int /\ prev \in Link /\ next \in Link
    <3>1. NULL \in Link
      BY DEF Link
    <3> QED
      BY <2>4, <3>1, LinkFacts
  <2> HIDE DEF new, first, last, k, prev, next, r, s
  <2>6. /\ new[m] \in NodeRecords
        /\ new[m].first_kid = first /\ new[m].last_kid = last /\ new[m].kids_num = k
        /\ new[m].prev = prev /\ new[m].next = next
        /\ new[m].father = s.father /\ SameLabels(new[m], s)
    BY <2>3, <2>4, <2>5, Cut
  <2> QED
    BY <2>6 DEF RemovedAt, first, last, k, prev, next, r, s
<1>2. new = [m \in Addresses |-> new[m]]
  BY DEF Unlinked
<1> HIDE DEF new
<1>3. new \in [Addresses -> NodeRecords]
  BY <1>1, <1>2
<1> QED
  BY <1>1, <1>3 DEF Removed, new

-----------------------------------------------------------------------------
(* What the operations do to the lists.                                     *)

SameAt(nodes, new, d, K) ==
    /\ new[d].first_kid = nodes[d].first_kid /\ new[d].last_kid = nodes[d].last_kid
    /\ new[d].kids_num = nodes[d].kids_num
    /\ \A n \in K : /\ new[n].father = nodes[n].father
                    /\ new[n].prev = nodes[n].prev /\ new[n].next = nodes[n].next

LEMMA OtherList ==
    ASSUME NEW nodes, NEW new, NEW d, NEW K, IsList(nodes, d, K), SameAt(nodes, new, d, K)
    PROVE  IsList(new, d, K)
<1>1. ReachesAll(new, d, K)
  BY DEF IsList, ReachesAll, SameAt
<1>2. ASSUME NEW n \in K
      PROVE  Linked(new, d, n, K)
  BY DEF IsList, Linked, SameAt
<1> QED
  BY <1>1, <1>2 DEF IsList, SameAt

LEMMA KidSets ==
    ASSUME NEW K \in SUBSET Addresses, NEW n
    PROVE  /\ IsFiniteSet(K)
           /\ Cardinality(K \cup {n}) = IF n \in K THEN Cardinality(K) ELSE Cardinality(K) + 1
           /\ Cardinality(K \ {n}) = IF n \in K THEN Cardinality(K) - 1 ELSE Cardinality(K)
<1>1. IsFiniteSet(K)
  BY NullFacts, FS_Subset
<1> QED
  BY <1>1, FS_AddElement, FS_RemoveElement

LEMMA AddList ==
    ASSUME NEW nodes, NEW new, NEW d \in Addresses, NEW n \in Addresses, NEW K,
           IsList(nodes, d, K), Added(nodes, new, d, n), d # n, n \notin K,
           nodes[n].next = NULL
    PROVE  IsList(new, d, K \cup {n})
<1> DEFINE last == nodes[d].last_kid
<1>1. K \subseteq Addresses /\ NULL \notin Addresses
  BY NullFacts DEF IsList
<1>2. new[d].last_kid = n /\ new[d].first_kid = (IF K = {} THEN n ELSE nodes[d].first_kid)
      /\ new[d].kids_num = nodes[d].kids_num + 1
  BY <1>1 DEF Added, AddedAt, IsList
<1>3. new[n].father = d /\ new[n].prev = last /\ new[n].next = NULL
  <2>1. n # last
    BY <1>1 DEF IsList
  <2> QED
    BY <2>1 DEF Added, AddedAt
<1>4. \A m \in K : /\ new[m].father = nodes[m].father /\ new[m].prev = nodes[m].prev
                   /\ new[m].next = IF m = last THEN n ELSE nodes[m].next
  BY <1>1 DEF Added, AddedAt
<1>5. ASSUME NEW m \in K
      PROVE  Linked(new, d, m, K \cup {n})
  <2>1. Linked(nodes, d, m, K)
    BY DEF IsList
  <2>2. K # {} /\ nodes[d].first_kid \in K /\ last \in K
    BY <1>5 DEF IsList
  <2>3. IF m = new[d].first_kid THEN new[m].prev = NULL
        ELSE new[m].prev \in K \cup {n} /\ new[new[m].prev].next = m
    <3>1. CASE m # nodes[d].first_kid
      <4>1. nodes[m].prev \in K /\ nodes[nodes[m].prev].next = m
        BY <2>1, <3>1 DEF Linked
      <4>2. nodes[m].prev # last
        <5>1. nodes[last].next = NULL
          BY <2>2 DEF IsList, Linked
        <5> QED
          BY <1>1, <4>1, <5>1
      <4> QED
        BY <1>2, <1>4, <2>2, <3>1, <4>1, <4>2
    <3>2. CASE m = nodes[d].first_kid
      BY <1>2, <1>4, <2>1, <2>2, <3>2 DEF Linked
    <3> QED
      BY <3>1, <3>2
  <2>4. IF m = new[d].last_kid THEN new[m].next = NULL
        ELSE new[m].next \in K \cup {n} /\ new[new[m].next].prev = m
    <3>1. m # n
      OBVIOUS
    <3>2. CASE m = last
      BY <1>2, <1>3, <1>4, <3>1, <3>2
    <3>3. CASE m # last
      <4>1. nodes[m].next \in K /\ nodes[nodes[m].next].prev = m
        BY <2>1, <3>3 DEF Linked
      <4> QED
        BY <1>2, <1>4, <3>1, <3>3, <4>1
    <3> QED
      BY <3>2, <3>3
  <2>5. new[m].father = d
    BY <1>4, <2>1 DEF Linked
  <2> QED
    BY <2>3, <2>4, <2>5 DEF Linked
<1>6. Linked(new, d, n, K \cup {n})
  <2>1. CASE K = {}
    BY <1>2, <1>3, <2>1 DEF Linked, IsList
  <2>2. CASE K # {}
    <3>1. last \in K /\ nodes[d].first_kid \in K /\ last # NULL
      BY <1>1, <2>2 DEF IsList
    <3>2. new[last].next = n
      BY <1>4, <3>1
    <3> QED
      BY <1>2, <1>3, <2>2, <3>1, <3>2 DEF Linked
  <2> QED
    BY <2>1, <2>2
<1>7. ReachesAll(new, d, K \cup {n})
  <2> SUFFICES ASSUME NEW S \in SUBSET (K \cup {n}), new[d].first_kid \in S,
                      \A m \in S : new[m].next \in S \cup {NULL}
               PROVE  S = K \cup {n}
    BY DEF ReachesAll
  <2>1. CASE K = {}
    BY <1>2, <2>1
  <2>2. CASE K # {}
    <3>1. last \in K /\ nodes[d].first_kid \in K /\ last # NULL
      BY <1>1, <2>2 DEF IsList
    <3>2. nodes[last].next = NULL
      BY <3>1 DEF IsList, Linked
    <3>3. nodes[d].first_kid \in S \cap K
      BY <1>2, <2>2, <3>1
    <3>4. ASSUME NEW m \in S \cap K
          PROVE  nodes[m].next \in (S \cap K) \cup {NULL}
      <4>1. CASE m # last
        <5>1. nodes[m].next \in K
          BY <4>1 DEF IsList, Linked
        <5>2. new[m].next = nodes[m].next
          BY <1>4, <4>1
        <5> QED
          BY <1>1, <5>1, <5>2
      <4> QED
        BY <3>2, <4>1
    <3>5. S \cap K = K
      <4>1. ReachesAll(nodes, d, K) /\ S \cap K \in SUBSET K
        BY DEF IsList
      <4> QED
        BY <3>3, <3>4, <4>1 DEF ReachesAll
    <3>6. new[last].next = n
      BY <1>4, <3>1
    <3>7. n \in S
      BY <1>1, <3>1, <3>5, <3>6
    <3> QED
      BY <3>5, <3>7
  <2> QED
    BY <2>1, <2>2
<1>8. new[d].kids_num = Cardinality(K \cup {n})
  BY <1>1, <1>2, KidSets DEF IsList
<1>9. new[d].first_kid \in K \cup {n} /\ new[d].last_kid \in K \cup {n}
  BY <1>2 DEF IsList
<1> QED
  BY <1>1, <1>5, <1>6, <1>7, <1>8, <1>9 DEF IsList

LEMMA RemoveList ==
    ASSUME NEW nodes, NEW new, NEW d \in Addresses, NEW n, NEW K,
           IsList(nodes, d, K), n \in K, Removed(nodes, new, n)
    PROVE  IsList(new, d, K \ {n})
<1> DEFINE first == nodes[d].first_kid
           last == nodes[d].last_kid
           next == nodes[n].next
           prev == nodes[n].prev
           L == K \ {n}
<1>1. K \subseteq Addresses /\ NULL \notin Addresses /\ first \in K /\ last \in K
  BY NullFacts DEF IsList
<1>2. nodes[n].father = d
  BY DEF IsList, Linked
<1>3. /\ new[d].first_kid = IF first = n THEN next ELSE first
      /\ new[d].last_kid = IF last = n THEN prev ELSE last
      /\ new[d].kids_num = nodes[d].kids_num - 1
  BY <1>2 DEF Removed, RemovedAt
<1>4. \A m \in L : /\ new[m].father = d
                   /\ new[m].prev = IF m = next THEN prev ELSE nodes[m].prev
                   /\ new[m].next = IF m = prev THEN next ELSE nodes[m].next
  BY <1>1 DEF Removed, RemovedAt, IsList, Linked
<1>5. /\ IF n = first THEN prev = NULL ELSE prev \in L /\ nodes[prev].next = n
      /\ IF n = last THEN next = NULL ELSE next \in L /\ nodes[next].prev = n
  <2>1. Linked(nodes, d, n, K)
    BY DEF IsList
  <2>2. prev # n
    <3>1. ASSUME prev = n
          PROVE  FALSE
      <4>1. n # first /\ nodes[n].next = n
        BY <1>1, <2>1, <3>1 DEF Linked
      <4>2. \A m \in K \ {n} : nodes[m].next \in (K \ {n}) \cup {NULL}
        <5> SUFFICES ASSUME NEW m \in K \ {n}, nodes[m].next = n
                     PROVE  FALSE
          BY DEF IsList, Linked
        <5>1. m = n
          BY <1>1, <3>1 DEF IsList, Linked
        <5> QED
          BY <5>1
      <4>3. K \ {n} = K
        BY <1>1, <4>1, <4>2 DEF IsList, ReachesAll
      <4> QED
        BY <4>3
    <3> QED
      BY <3>1
  <2>3. next # n
    BY <1>1, <2>1, <2>2 DEF Linked
  <2> QED
    BY <2>1, <2>2, <2>3 DEF Linked
<1>6. \A m \in L : /\ IF m = first THEN nodes[m].prev = NULL
                      ELSE nodes[m].prev \in K /\ nodes[nodes[m].prev].next = m
                   /\ IF m = last THEN nodes[m].next = NULL
                      ELSE nodes[m].next \in K /\ nodes[nodes[m].next].prev = m
  BY DEF IsList, Linked
<1>7. \A m \in L : /\ nodes[m].prev = n => m = next
                   /\ nodes[m].next = n => m = prev
  BY <1>1, <1>6
<1> HIDE DEF first, last, next, prev, L
<1>8. ASSUME NEW m \in L
      PROVE  Linked(new, d, m, L)
  <2>0. L = K \ {n} /\ L \subseteq K
    BY DEF L
  <2>1. IF m = new[d].first_kid THEN new[m].prev = NULL
        ELSE new[m].prev \in L /\ new[new[m].prev].next = m
    <3>1. CASE m = next
      <4>1. new[m].prev = prev
        BY <1>4, <3>1
      <4>2. CASE n = first
        BY <1>3, <1>5, <3>1, <4>1, <4>2
      <4>3. CASE n # first
        <5>1. prev \in L /\ new[prev].next = next
          BY <1>4, <1>5, <4>3
        <5>2. m # first
          BY <1>1, <1>5, <1>6, <2>0, <3>1
        <5> QED
          BY <1>3, <3>1, <4>1, <4>3, <5>1, <5>2
      <4> QED
        BY <4>2, <4>3
    <3>2. CASE m # next
      <4>1. new[m].prev = nodes[m].prev /\ nodes[m].prev # n
        BY <1>4, <1>7, <3>2
      <4>2. CASE m = first
        BY <1>3, <1>6, <2>0, <4>1, <4>2
      <4>3. CASE m # first
        <5>1. nodes[m].prev \in L /\ nodes[nodes[m].prev].next = m
          BY <1>6, <2>0, <4>1, <4>3
        <5>2. nodes[m].prev # prev
          <6>1. ASSUME nodes[m].prev = prev
                PROVE  FALSE
            <7>1. nodes[prev].next = m /\ prev \in L
              BY <5>1, <6>1
            <7>2. prev # NULL
              BY <1>1, <2>0, <7>1
            <7>3. nodes[prev].next = n
              BY <1>5, <7>2
            <7> QED
              BY <2>0, <7>1, <7>3
          <6> QED
            BY <6>1
        <5>3. new[nodes[m].prev].next = m
          BY <1>4, <5>1, <5>2
        <5>4. m # new[d].first_kid
          BY <1>3, <3>2, <4>3
        <5> QED
          BY <4>1, <5>1, <5>3, <5>4
      <4> QED
        BY <4>2, <4>3
    <3> QED
      BY <3>1, <3>2
  <2>2. IF m = new[d].last_kid THEN new[m].next = NULL
        ELSE new[m].next \in L /\ new[new[m].next].prev = m
    <3>1. CASE m = prev
      <4>1. new[m].next = next
        BY <1>4, <3>1
      <4>2. CASE n = last
        BY <1>3, <1>5, <3>1, <4>1, <4>2
      <4>3. CASE n # last
        <5>1. next \in L /\ new[next].prev = prev
          BY <1>4, <1>5, <4>3
        <5>2. m # last
          BY <1>1, <1>5, <1>6, <2>0, <3>1
        <5> QED
          BY <1>3, <3>1, <4>1, <4>3, <5>1, <5>2
      <4> QED
        BY <4>2, <4>3
    <3>2. CASE m # prev
      <4>1. new[m].next = nodes[m].next /\ nodes[m].next # n
        BY <1>4, <1>7, <3>2
      <4>2. CASE m = last
        BY <1>3, <1>6, <2>0, <4>1, <4>2
      <4>3. CASE m # last
        <5>1. nodes[m].next \in L /\ nodes[nodes[m].next].prev = m
          BY <1>6, <2>0, <4>1, <4>3
        <5>2. nodes[m].next # next
          <6>1. ASSUME nodes[m].next = next
                PROVE  FALSE
            <7>1. nodes[next].prev = m /\ next \in L
              BY <5>1, <6>1
            <7>2. next # NULL
              BY <1>1, <2>0, <7>1
            <7>3. nodes[next].prev = n
              BY <1>5, <7>2
            <7> QED
              BY <2>0, <7>1, <7>3
          <6> QED
            BY <6>1
        <5>3. new[nodes[m].next].prev = m
          BY <1>4, <5>1, <5>2
        <5>4. m # new[d].last_kid
          BY <1>3, <3>2, <4>3
        <5> QED
          BY <4>1, <5>1, <5>3, <5>4
      <4> QED
        BY <4>2, <4>3
    <3> QED
      BY <3>1, <3>2
  <2> QED
    BY <1>4, <2>1, <2>2 DEF Linked
<1>9. ASSUME NEW S \in SUBSET L, new[d].first_kid \in S,
             \A m \in S : new[m].next \in S \cup {NULL}
      PROVE  S = L
  <2>0. L = K \ {n} /\ S \subseteq K /\ n \notin S
    BY DEF L
  <2>1. ReachesAll(nodes, d, K)
    BY DEF IsList
  <2>2. CASE n = first \/ prev \in S
    <3>1. first \in S \cup {n}
      BY <1>3, <1>9, <2>2
    <3>2. next \in S \cup {NULL}
      <4>1. CASE n = first
        BY <1>3, <1>9, <4>1
      <4>2. CASE prev \in S
        <5>1. new[prev].next = next
          BY <1>4, <1>9, <4>2
        <5> QED
          BY <1>9, <4>2, <5>1
      <4> QED
        BY <2>2, <4>1, <4>2
    <3>3. ASSUME NEW m \in S
          PROVE  nodes[m].next \in (S \cup {n}) \cup {NULL}
      <4>1. CASE m = prev
        <5>1. prev \in L /\ prev # NULL
          BY <1>1, <2>0, <4>1
        <5>2. nodes[prev].next = n
          BY <1>5, <5>1
        <5> QED
          BY <4>1, <5>2
      <4>2. CASE m # prev
        BY <1>4, <1>9, <4>2
      <4> QED
        BY <4>1, <4>2
    <3>4. nodes[n].next = next
      BY DEF next
    <3>5. S \cup {n} = K
      <4>1. S \cup {n} \in SUBSET K
        BY <2>0
      <4>2. \A m \in S \cup {n} : nodes[m].next \in (S \cup {n}) \cup {NULL}
        BY <3>2, <3>3, <3>4
      <4>3. nodes[d].first_kid \in S \cup {n}
        BY <3>1 DEF first
      <4> QED
        BY <2>1, <4>1, <4>2, <4>3 DEF ReachesAll
    <3> QED
      BY <2>0, <3>5
  <2>3. CASE n # first /\ prev \notin S
    <3>1. nodes[d].first_kid \in S
      BY <1>3, <1>9, <2>3 DEF first
    <3>2. \A m \in S : nodes[m].next \in S \cup {NULL}
      BY <1>4, <1>9, <2>3
    <3>3. S = K
      BY <2>0, <2>1, <3>1, <3>2 DEF ReachesAll
    <3> QED
      BY <2>0, <3>3
  <2> QED
    BY <2>2, <2>3
<1>10. new[d].kids_num = Cardinality(L)
  BY <1>1, <1>3, KidSets DEF IsList, L
<1>11. IF L = {} THEN new[d].first_kid = NULL /\ new[d].last_kid = NULL
       ELSE new[d].first_kid \in L /\ new[d].last_kid \in L
  <2>1. CASE L = {}
    <3>1. first = n /\ last = n
      BY <1>1, <2>1 DEF L
    <3>2. next = NULL /\ prev = NULL
      BY <1>5, <3>1
    <3>3. new[d].first_kid = next /\ new[d].last_kid = prev
      BY <1>3, <3>1
    <3> QED
      BY <2>1, <3>2, <3>3
  <2>2. CASE L # {}
    <3>1. n = first => n # last
      <4>1. ASSUME n = first, n = last
            PROVE  FALSE
        <5>1. nodes[n].next = NULL
          BY <1>5, <4>1 DEF next
        <5>2. {n} = K
          <6>1. nodes[d].first_kid \in {n} /\ \A m \in {n} : nodes[m].next \in {n} \cup {NULL}
            BY <4>1, <5>1 DEF first
          <6>2. {n} \in SUBSET K /\ ReachesAll(nodes, d, K)
            BY DEF IsList
          <6> QED
            BY <6>1, <6>2 DEF ReachesAll
        <5> QED
          BY <2>2, <5>2 DEF L
      <4> QED
        BY <4>1
    <3> QED
      BY <1>1, <1>3, <1>5, <3>1 DEF L
  <2> QED
    BY <2>1, <2>2
<1> QED
  <2>1. ReachesAll(new, d, L)
    BY <1>9 DEF ReachesAll
  <2> QED
    BY <1>1, <1>8, <1>10, <1>11, <2>1 DEF IsList, L

-----------------------------------------------------------------------------
(* What the operations do to the whole tree.                                *)

LEMMA RecordsEqual ==
    ASSUME NEW r \in NodeRecords, NEW s \in NodeRecords, Same(r, s, {})
    PROVE  r = s
BY DEF NodeRecords, Same, SameLabels

LEMMA SoundFacts ==
    ASSUME NEW nodes, NEW lv, Sound(nodes, lv)
    PROVE  /\ nodes \in [Addresses -> NodeRecords] /\ lv \subseteq Addresses
           /\ NULL \notin Addresses
           /\ \A n \in Addresses \ lv : nodes[n] = Fresh(NoName)
BY NullFacts DEF Sound

LEMMA DirFacts ==
    ASSUME NEW nodes, NEW lv, Sound(nodes, lv), NEW d \in lv
    PROVE  /\ IsList(nodes, d, Kids(nodes, d)) /\ Kids(nodes, d) \subseteq lv
           /\ NamesApart(nodes, Kids(nodes, d))
           /\ \A n \in Kids(nodes, d) : /\ nodes[n].father = d
                                       /\ nodes[n].prev \in Kids(nodes, d) \cup {NULL}
                                       /\ nodes[n].next \in Kids(nodes, d) \cup {NULL}
           /\ nodes[d].first_kid \in Kids(nodes, d) \cup {NULL}
           /\ nodes[d].last_kid \in Kids(nodes, d) \cup {NULL}
           /\ nodes[d].first_kid = NULL <=> Kids(nodes, d) = {}
           /\ nodes[d].last_kid = NULL <=> Kids(nodes, d) = {}
<1> DEFINE K == Kids(nodes, d)
<1>1. IsList(nodes, d, K) /\ K \subseteq lv /\ NamesApart(nodes, K)
  BY DEF Sound
<1> HIDE DEF K
<1>2. NULL \notin K
  BY <1>1, NullFacts DEF IsList
<1>3. /\ \A n \in K : /\ nodes[n].father = d
                      /\ nodes[n].prev \in K \cup {NULL} /\ nodes[n].next \in K \cup {NULL}
      /\ nodes[d].first_kid \in K \cup {NULL} /\ nodes[d].last_kid \in K \cup {NULL}
      /\ nodes[d].first_kid = NULL <=> K = {}
      /\ nodes[d].last_kid = NULL <=> K = {}
  BY <1>1, <1>2 DEF IsList, Linked
<1> QED
  BY <1>1, <1>3 DEF K

(* What makes the tree new from nodes: the kids are these.                  *)
KidsBecome(nodes, new, lv, d, K) ==
    /\ Kids(new, d) = K
    /\ \A e \in lv \ {d} : Kids(new, e) = Kids(nodes, e)

LEMMA SoundIf ==
    ASSUME NEW new \in [Addresses -> NodeRecords], NEW lv \in SUBSET Addresses,
           \A n \in Addresses \ lv : new[n] = Fresh(NoName),
           \A d \in lv : \E K \in SUBSET lv : IsList(new, d, K) /\ NamesApart(new, K),
           \A n \in lv : IsKid(new, lv, n) \/ (new[n].next = NULL /\ new[n].prev = NULL)
    PROVE  Sound(new, lv)
<1>1. ASSUME NEW d \in lv
      PROVE  /\ IsList(new, d, Kids(new, d)) /\ Kids(new, d) \subseteq lv
             /\ NamesApart(new, Kids(new, d))
  <2>1. PICK K \in SUBSET lv : IsList(new, d, K) /\ NamesApart(new, K)
    OBVIOUS
  <2>2. Kids(new, d) = K
    BY <2>1, KidsAre
  <2> QED
    BY <2>1, <2>2
<1> QED
  BY <1>1 DEF Sound

LEMMA SoundNew ==
    ASSUME NEW nodes, NEW lv, Sound(nodes, lv), NEW n \in Addresses \ lv,
           NEW r \in NodeRecords,
           r.first_kid = NULL, r.last_kid = NULL, r.next = NULL, r.prev = NULL, r.kids_num = 0
    PROVE  LET new == [nodes EXCEPT ![n] = r]
           IN  Sound(new, lv \cup {n}) /\ KidsBecome(nodes, new, lv, n, {})
<1> DEFINE new == [nodes EXCEPT ![n] = r]
<1>1. /\ nodes \in [Addresses -> NodeRecords] /\ lv \subseteq Addresses
      /\ NULL \notin Addresses
      /\ \A m \in Addresses \ lv : nodes[m] = Fresh(NoName)
  BY SoundFacts
<1>2. /\ new \in [Addresses -> NodeRecords] /\ new[n] = r
      /\ \A m \in Addresses \ {n} : new[m] = nodes[m]
  BY <1>1
<1> HIDE DEF new
<1>3. IsList(new, n, {})
  BY <1>2, FS_EmptySet DEF IsList, ReachesAll
<1>4. Kids(new, n) = {}
  BY <1>3, KidsAre
<1>5. ASSUME NEW d \in lv
      PROVE  /\ IsList(new, d, Kids(nodes, d)) /\ Kids(new, d) = Kids(nodes, d)
             /\ Kids(nodes, d) \subseteq lv /\ NamesApart(new, Kids(nodes, d))
  <2>1. IsList(nodes, d, Kids(nodes, d)) /\ Kids(nodes, d) \subseteq lv
        /\ NamesApart(nodes, Kids(nodes, d))
    BY DirFacts
  <2>2. SameAt(nodes, new, d, Kids(nodes, d))
    BY <1>1, <1>2, <2>1 DEF SameAt
  <2>3. IsList(new, d, Kids(nodes, d))
    BY <2>1, <2>2, OtherList
  <2>4. NamesApart(new, Kids(nodes, d))
    BY <1>1, <1>2, <2>1 DEF NamesApart
  <2> QED
    BY <2>1, <2>3, <2>4, KidsAre
<1>6. ASSUME NEW m \in lv \cup {n}
      PROVE  IsKid(new, lv \cup {n}, m) \/ (new[m].next = NULL /\ new[m].prev = NULL)
  <2>1. CASE m \in lv
    <3>1. IsKid(nodes, lv, m) \/ (nodes[m].next = NULL /\ nodes[m].prev = NULL)
      BY <2>1 DEF Sound
    <3>2. new[m] = nodes[m]
      BY <1>1, <1>2, <2>1
    <3> QED
      BY <1>5, <3>1, <3>2 DEF IsKid
  <2> QED
    BY <1>2, <2>1
<1>7. \A m \in Addresses \ (lv \cup {n}) : new[m] = Fresh(NoName)
  BY <1>1, <1>2
<1>8. ASSUME NEW d \in lv \cup {n}
      PROVE  \E K \in SUBSET (lv \cup {n}) : IsList(new, d, K) /\ NamesApart(new, K)
  <2>1. CASE d \in lv
    BY <1>5, <2>1
  <2>2. CASE d = n
    <3>1. NamesApart(new, {})
      BY DEF NamesApart
    <3> QED
      BY <1>3, <2>2, <3>1
  <2> QED
    BY <2>1, <2>2
<1>9. lv \cup {n} \in SUBSET Addresses
  BY <1>1
<1>10. Sound(new, lv \cup {n})
  BY <1>2, <1>6, <1>7, <1>8, <1>9, SoundIf
<1>11. KidsBecome(nodes, new, lv, n, {})
  BY <1>4, <1>5 DEF KidsBecome
<1> QED
  BY <1>10, <1>11 DEF new

LEMMA SoundAdd ==
    ASSUME NEW nodes, NEW lv, Sound(nodes, lv), NEW d \in lv, NEW n \in lv, d # n,
           nodes[n].father = NULL,
           \A m \in Kids(nodes, d) : nodes[m].name # nodes[n].name
    PROVE  LET new == AddTo(nodes, d, n)
           IN  /\ Sound(new, lv) /\ Added(nodes, new, d, n)
               /\ KidsBecome(nodes, new, lv, d, Kids(nodes, d) \cup {n})
<1> DEFINE new == AddTo(nodes, d, n)
           K == Kids(nodes, d)
<1>1. /\ nodes \in [Addresses -> NodeRecords] /\ lv \subseteq Addresses
      /\ NULL \notin Addresses
      /\ \A m \in Addresses \ lv : nodes[m] = Fresh(NoName)
  BY SoundFacts
<1>2. Added(nodes, new, d, n)
  BY <1>1, AddToNodes
<1> HIDE DEF new, K
<1>3. new \in [Addresses -> NodeRecords] /\ \A m \in Addresses : AddedAt(nodes, new[m], d, n, m)
  BY <1>2 DEF Added
<1>4. \A e \in lv : n \notin Kids(nodes, e)
  BY <1>1, DirFacts
<1>5. nodes[n].next = NULL
  BY <1>1 DEF Sound, IsKid
<1>6. /\ IsList(nodes, d, K) /\ K \subseteq lv /\ NamesApart(nodes, K) /\ n \notin K
      /\ nodes[d].last_kid \in K \cup {NULL}
      /\ \A m \in K : nodes[m].father = d /\ nodes[m].name # nodes[n].name
  BY <1>4, DirFacts DEF K
<1>7. IsList(new, d, K \cup {n})
  BY <1>1, <1>2, <1>5, <1>6, AddList
<1>8. NamesApart(new, K \cup {n})
  BY <1>1, <1>3, <1>6 DEF NamesApart, AddedAt, SameLabels
<1>9. ASSUME NEW e \in lv \ {d}
      PROVE  /\ IsList(new, e, Kids(nodes, e)) /\ Kids(nodes, e) \subseteq lv
             /\ NamesApart(new, Kids(nodes, e))
  <2> DEFINE L == Kids(nodes, e)
  <2>1. /\ IsList(nodes, e, L) /\ L \subseteq lv /\ NamesApart(nodes, L)
        /\ \A m \in L : nodes[m].father = e
    BY DirFacts
  <2> HIDE DEF L
  <2>2. SameAt(nodes, new, e, L)
    <3>1. /\ new[e].first_kid = nodes[e].first_kid /\ new[e].last_kid = nodes[e].last_kid
          /\ new[e].kids_num = nodes[e].kids_num
      BY <1>1, <1>3 DEF AddedAt
    <3>2. ASSUME NEW m \in L
          PROVE  /\ new[m].father = nodes[m].father
                 /\ new[m].prev = nodes[m].prev /\ new[m].next = nodes[m].next
      <4>1. m \in Addresses /\ m # n /\ m # nodes[d].last_kid
        BY <1>1, <1>4, <1>6, <2>1 DEF L
      <4> QED
        BY <1>3, <4>1 DEF AddedAt
    <3> QED
      BY <3>1, <3>2 DEF SameAt
  <2>3. NamesApart(new, L)
    BY <1>1, <1>3, <2>1 DEF NamesApart, AddedAt, SameLabels
  <2> QED
    BY <2>1, <2>2, <2>3, OtherList DEF L
<1>10. ASSUME NEW e \in lv
       PROVE  \E L \in SUBSET lv : IsList(new, e, L) /\ NamesApart(new, L)
  BY <1>6, <1>7, <1>8, <1>9
<1>11. KidsBecome(nodes, new, lv, d, K \cup {n})
  BY <1>7, <1>9, KidsAre DEF KidsBecome
<1>12. ASSUME NEW m \in lv
       PROVE  IsKid(new, lv, m) \/ (new[m].next = NULL /\ new[m].prev = NULL)
  <2>1. CASE m = n
    BY <1>1, <1>3, <1>11, <2>1 DEF AddedAt, IsKid, KidsBecome
  <2>2. CASE m # n /\ IsKid(nodes, lv, m)
    <3>1. new[m].father = nodes[m].father
      BY <1>1, <1>3, <2>2 DEF AddedAt
    <3> QED
      BY <1>11, <2>2, <3>1 DEF IsKid, KidsBecome, K
  <2>3. CASE m # n /\ ~ IsKid(nodes, lv, m)
    <3>1. nodes[m].next = NULL /\ nodes[m].prev = NULL
      BY <2>3 DEF Sound
    <3>2. m # nodes[d].last_kid
      BY <1>1, <1>6, <2>3 DEF IsKid, K
    <3> QED
      BY <1>1, <1>3, <2>3, <3>1, <3>2 DEF AddedAt
  <2> QED
    BY <2>1, <2>2, <2>3
<1>13. ASSUME NEW m \in Addresses \ lv
       PROVE  new[m] = Fresh(NoName)
  <2>1. m # n /\ m # d /\ m # nodes[d].last_kid
    BY <1>1, <1>6
  <2>2. Same(new[m], nodes[m], {}) /\ new[m] \in NodeRecords /\ nodes[m] \in NodeRecords
    BY <1>1, <1>3, <2>1 DEF AddedAt, Same
  <2> QED
    BY <1>1, <2>2, RecordsEqual
<1>14. Sound(new, lv)
  BY <1>1, <1>3, <1>10, <1>12, <1>13, SoundIf
<1> QED
  BY <1>2, <1>11, <1>14 DEF new, K

LEMMA SoundRemove ==
    ASSUME NEW nodes, NEW lv, Sound(nodes, lv), NEW d \in lv, NEW n \in Kids(nodes, d)
    PROVE  LET new == Unlinked(nodes, n)
           IN  /\ Sound(new, lv) /\ Removed(nodes, new, n)
               /\ KidsBecome(nodes, new, lv, d, Kids(nodes, d) \ {n})
<1> DEFINE new == Unlinked(nodes, n)
           K == Kids(nodes, d)
<1>1. /\ nodes \in [Addresses -> NodeRecords] /\ lv \subseteq Addresses
      /\ NULL \notin Addresses
      /\ \A m \in Addresses \ lv : nodes[m] = Fresh(NoName)
  BY SoundFacts
<1>2. /\ IsList(nodes, d, K) /\ K \subseteq lv /\ NamesApart(nodes, K) /\ n \in K
      /\ \A m \in K : nodes[m].father = d
      /\ nodes[n].prev \in K \cup {NULL} /\ nodes[n].next \in K \cup {NULL}
  BY DirFacts
<1>3. Removed(nodes, new, n)
  BY <1>1, <1>2, UnlinkedNodes
<1> HIDE DEF new, K
<1>4. new \in [Addresses -> NodeRecords] /\ \A m \in Addresses : RemovedAt(nodes, new[m], n, m)
  BY <1>3 DEF Removed
<1>5. n \in lv /\ nodes[n].father = d
  BY <1>2
<1>6. IsList(new, d, K \ {n})
  BY <1>1, <1>2, <1>3, RemoveList
<1>7. NamesApart(new, K \ {n})
  BY <1>1, <1>2, <1>4 DEF NamesApart, RemovedAt, SameLabels
<1>8. ASSUME NEW e \in lv \ {d}
      PROVE  /\ IsList(new, e, Kids(nodes, e)) /\ Kids(nodes, e) \subseteq lv
             /\ NamesApart(new, Kids(nodes, e))
  <2> DEFINE L == Kids(nodes, e)
  <2>1. /\ IsList(nodes, e, L) /\ L \subseteq lv /\ NamesApart(nodes, L)
        /\ \A m \in L : nodes[m].father = e
    BY DirFacts
  <2> HIDE DEF L
  <2>2. SameAt(nodes, new, e, L)
    <3>1. /\ new[e].first_kid = nodes[e].first_kid /\ new[e].last_kid = nodes[e].last_kid
          /\ new[e].kids_num = nodes[e].kids_num
      BY <1>1, <1>4, <1>5 DEF RemovedAt
    <3>2. ASSUME NEW m \in L
          PROVE  /\ new[m].father = nodes[m].father
                 /\ new[m].prev = nodes[m].prev /\ new[m].next = nodes[m].next
      <4>1. m \in Addresses /\ m # n /\ m # nodes[n].prev /\ m # nodes[n].next
        BY <1>1, <1>2, <1>5, <2>1
      <4> QED
        BY <1>4, <4>1 DEF RemovedAt
    <3> QED
      BY <3>1, <3>2 DEF SameAt
  <2>3. NamesApart(new, L)
    BY <1>1, <1>4, <2>1 DEF NamesApart, RemovedAt, SameLabels
  <2> QED
    BY <2>1, <2>2, <2>3, OtherList DEF L
<1>9. ASSUME NEW e \in lv
      PROVE  \E L \in SUBSET lv : IsList(new, e, L) /\ NamesApart(new, L)
  BY <1>2, <1>6, <1>7, <1>8
<1>10. KidsBecome(nodes, new, lv, d, K \ {n})
  BY <1>6, <1>8, KidsAre DEF KidsBecome
<1>11. ASSUME NEW m \in lv
       PROVE  IsKid(new, lv, m) \/ (new[m].next = NULL /\ new[m].prev = NULL)
  <2>1. CASE m = n
    BY <1>1, <1>4, <2>1 DEF RemovedAt
  <2>2. CASE m # n /\ IsKid(nodes, lv, m)
    <3>1. new[m].father = nodes[m].father
      BY <1>1, <1>4 DEF RemovedAt
    <3> QED
      BY <1>10, <2>2, <3>1 DEF IsKid, KidsBecome, K
  <2>3. CASE m # n /\ ~ IsKid(nodes, lv, m)
    <3>1. nodes[m].next = NULL /\ nodes[m].prev = NULL
      BY <2>3 DEF Sound
    <3>2. m # nodes[n].prev /\ m # nodes[n].next
      BY <1>1, <1>2, <2>3 DEF IsKid, K
    <3> QED
      BY <1>1, <1>4, <2>3, <3>1, <3>2 DEF RemovedAt
  <2> QED
    BY <2>1, <2>2, <2>3
<1>12. ASSUME NEW m \in Addresses \ lv
       PROVE  new[m] = Fresh(NoName)
  <2>1. m # n /\ m # nodes[n].father /\ m # nodes[n].prev /\ m # nodes[n].next
    BY <1>1, <1>2, <1>5
  <2>2. Same(new[m], nodes[m], {}) /\ new[m] \in NodeRecords /\ nodes[m] \in NodeRecords
    BY <1>1, <1>4, <2>1 DEF RemovedAt, Same
  <2> QED
    BY <1>1, <2>2, RecordsEqual
<1>13. Sound(new, lv)
  BY <1>1, <1>4, <1>9, <1>11, <1>12, SoundIf
<1> QED
  BY <1>3, <1>10, <1>13 DEF new, K

(* The links of the nodes are the same; the names are too, but perhaps n's.  *)
SameLinks(nodes, new, n) ==
    /\ new \in [Addresses -> NodeRecords]
    /\ \A m \in Addresses : /\ new[m].father = nodes[m].father
                            /\ new[m].first_kid = nodes[m].first_kid
                            /\ new[m].last_kid = nodes[m].last_kid
                            /\ new[m].next = nodes[m].next /\ new[m].prev = nodes[m].prev
                            /\ new[m].kids_num = nodes[m].kids_num
                            /\ m # n => new[m] = nodes[m]

KidsStay(nodes, new, lw) == \A e \in lw : Kids(new, e) = Kids(nodes, e)

LEMMA SoundLabel ==
    ASSUME NEW nodes, NEW lv, Sound(nodes, lv), NEW n \in lv, nodes[n].father = NULL,
           NEW new, SameLinks(nodes, new, n)
    PROVE  Sound(new, lv) /\ KidsStay(nodes, new, lv)
<1>1. /\ nodes \in [Addresses -> NodeRecords] /\ lv \subseteq Addresses
      /\ NULL \notin Addresses
      /\ \A m \in Addresses \ lv : nodes[m] = Fresh(NoName)
  BY SoundFacts
<1>2. new \in [Addresses -> NodeRecords]
  BY DEF SameLinks
<1>3. ASSUME NEW e \in lv
      PROVE  /\ IsList(new, e, Kids(nodes, e)) /\ Kids(nodes, e) \subseteq lv
             /\ NamesApart(new, Kids(nodes, e))
  <2> DEFINE L == Kids(nodes, e)
  <2>1. /\ IsList(nodes, e, L) /\ L \subseteq lv /\ NamesApart(nodes, L)
        /\ \A m \in L : nodes[m].father = e
    BY DirFacts
  <2> HIDE DEF L
  <2>2. SameAt(nodes, new, e, L)
    BY <1>1, <2>1 DEF SameAt, SameLinks
  <2>3. NamesApart(new, L)
    BY <1>1, <2>1 DEF NamesApart, SameLinks
  <2> QED
    BY <2>1, <2>2, <2>3, OtherList DEF L
<1>4. \A e \in lv : Kids(new, e) = Kids(nodes, e)
  BY <1>3, KidsAre
<1>5. ASSUME NEW m \in lv
      PROVE  IsKid(new, lv, m) \/ (new[m].next = NULL /\ new[m].prev = NULL)
  <2>1. IsKid(nodes, lv, m) \/ (nodes[m].next = NULL /\ nodes[m].prev = NULL)
    BY DEF Sound
  <2>2. /\ new[m].father = nodes[m].father
        /\ new[m].next = nodes[m].next /\ new[m].prev = nodes[m].prev
    BY <1>1 DEF SameLinks
  <2> QED
    BY <1>4, <2>1, <2>2 DEF IsKid
<1>6. \A m \in Addresses \ lv : new[m] = Fresh(NoName)
  BY <1>1 DEF SameLinks
<1>7. ASSUME NEW e \in lv
      PROVE  \E L \in SUBSET lv : IsList(new, e, L) /\ NamesApart(new, L)
  BY <1>3
<1> QED
  BY <1>1, <1>2, <1>4, <1>5, <1>6, <1>7, SoundIf DEF KidsStay

(* The node n is nobody's father and nobody's kid, and is given back.        *)
Freed(nodes, lv, new, lw, n) ==
    /\ n \in lv /\ Kids(nodes, n) = {} /\ \A e \in lv : n \notin Kids(nodes, e)
    /\ new = [nodes EXCEPT ![n] = Fresh(NoName)] /\ lw = lv \ {n}

LEMMA SoundFree ==
    ASSUME NEW nodes, NEW lv, Sound(nodes, lv), NEW new, NEW lw, NEW n,
           Freed(nodes, lv, new, lw, n)
    PROVE  Sound(new, lw) /\ KidsStay(nodes, new, lw)
<1>0. /\ n \in lv /\ Kids(nodes, n) = {} /\ \A e \in lv : n \notin Kids(nodes, e)
      /\ new = [nodes EXCEPT ![n] = Fresh(NoName)] /\ lw = lv \ {n}
  BY DEF Freed
<1>1. /\ nodes \in [Addresses -> NodeRecords] /\ lv \subseteq Addresses
      /\ NULL \notin Addresses
      /\ \A m \in Addresses \ lv : nodes[m] = Fresh(NoName)
  BY SoundFacts
<1>2. Fresh(NoName) \in NodeRecords
  BY DEF Fresh, NodeRecords, Link, Names
<1>3. /\ new \in [Addresses -> NodeRecords] /\ new[n] = Fresh(NoName)
      /\ \A m \in Addresses \ {n} : new[m] = nodes[m]
  BY <1>0, <1>1, <1>2
<1>4. ASSUME NEW e \in lw
      PROVE  /\ IsList(new, e, Kids(nodes, e)) /\ Kids(nodes, e) \subseteq lw
             /\ NamesApart(new, Kids(nodes, e))
  <2> DEFINE L == Kids(nodes, e)
  <2>1. /\ IsList(nodes, e, L) /\ L \subseteq lv /\ NamesApart(nodes, L)
        /\ n \notin L
    BY <1>0, DirFacts
  <2> HIDE DEF L
  <2>2. SameAt(nodes, new, e, L)
    BY <1>0, <1>1, <1>3, <2>1 DEF SameAt
  <2>3. NamesApart(new, L)
    BY <1>0, <1>1, <1>3, <2>1 DEF NamesApart
  <2>4. L \subseteq lw
    BY <1>0, <2>1
  <2> QED
    BY <2>1, <2>2, <2>3, <2>4, OtherList DEF L
<1>5. \A e \in lw : Kids(new, e) = Kids(nodes, e)
  BY <1>4, KidsAre
<1>6. ASSUME NEW m \in lw
      PROVE  IsKid(new, lw, m) \/ (new[m].next = NULL /\ new[m].prev = NULL)
  <2>1. IsKid(nodes, lv, m) \/ (nodes[m].next = NULL /\ nodes[m].prev = NULL)
    BY <1>0 DEF Sound
  <2>2. new[m] = nodes[m]
    BY <1>0, <1>1, <1>3
  <2>3. CASE IsKid(nodes, lv, m)
    <3>1. PICK f \in lw : nodes[m].father = f /\ m \in Kids(nodes, f)
      BY <1>0, <2>3 DEF IsKid
    <3>2. m \in Kids(new, f) /\ new[m].father = f
      BY <1>5, <2>2, <3>1
    <3> QED
      BY <3>2 DEF IsKid
  <2> QED
    BY <2>1, <2>2, <2>3
<1>7. \A m \in Addresses \ lw : new[m] = Fresh(NoName)
  BY <1>0, <1>1, <1>3
<1>8. ASSUME NEW e \in lw
      PROVE  \E L \in SUBSET lw : IsList(new, e, L) /\ NamesApart(new, L)
  BY <1>4
<1>9. lw \in SUBSET Addresses
  BY <1>0, <1>1
<1>10. Sound(new, lw)
  BY <1>3, <1>6, <1>7, <1>8, <1>9, SoundIf
<1> QED
  BY <1>5, <1>10 DEF KidsStay

-----------------------------------------------------------------------------
(* The invariants that are checked follow.                                  *)

LEMMA SoundGivesLists ==
    ASSUME Sound(node, live), TreeTypeOK
    PROVE  ListsOK
<1>1. ASSUME NEW d \in live
      PROVE  ListOK(d)
  <2> DEFINE K == Kids(node, d)
  <2>1. IsList(node, d, K) /\ K \subseteq live
    BY DirFacts
  <2> HIDE DEF K
  <2>2. NULL \notin K
    BY <2>1, NullFacts DEF IsList
  <2>3. /\ node[d].kids_num = Cardinality(K)
        /\ (node[d].first_kid = NULL) = (node[d].last_kid = NULL)
        /\ K # {} => node[d].last_kid \in K
    BY <2>1, <2>2 DEF IsList
  <2>4. ASSUME NEW n \in K
        PROVE  /\ n \in live /\ node[n].father = d
               /\ node[n].prev = IF n = node[d].first_kid THEN NULL ELSE node[n].prev
               /\ node[n].next = IF n = node[d].last_kid THEN NULL ELSE node[n].next
               /\ n # node[d].last_kid => node[node[n].next].prev = n
    BY <2>1 DEF IsList, Linked
  <2> QED
    BY <2>3, <2>4 DEF ListOK, K
<1>2. ASSUME NEW n \in live, \A d \in live : n \notin Kids(node, d)
      PROVE  node[n].next = NULL /\ node[n].prev = NULL
  BY <1>2 DEF Sound, IsKid
<1> QED
  BY <1>1, <1>2 DEF ListsOK

LEMMA SoundGivesNames == Sound(node, live) => NamesUnique
BY DEF Sound, NamesApart, NamesUnique

(* The server of a node is that of the next mounted node on the way up.      *)
Leads(nodes, n, W) ==
    /\ n \in W
    /\ \A m \in W \ {n} : \E k \in W : nodes[k].mount_id = NULL /\ nodes[k].father = m
    /\ \A m \in W : nodes[m].mount_id = NULL => nodes[m].father \in W \cup {NULL}
    /\ \A S \in SUBSET W :
          n \in S /\ (\A m \in S : nodes[m].mount_id = NULL => nodes[m].father \in S \cup {NULL})
              => S = W
    /\ \A m \in W : nodes[m].mount_id \in MountIds \cup {NULL}

LEMMA WayUpIs ==
    ASSUME NEW n \in Addresses, NEW W \in SUBSET Addresses, Leads(node, n, W)
    PROVE  WayUp(node, n) = W
<1> DEFINE onto == [m \in Addresses |-> IF node[m].mount_id >= 0 THEN NULL ELSE node[m].father]
<1>1. \A m \in W : node[m].mount_id >= 0 <=> node[m].mount_id # NULL
  BY VfsAssumption DEF MountIds, NULL, Leads
<1>2. \A m \in W : onto[m] = IF node[m].mount_id = NULL THEN node[m].father ELSE NULL
  BY <1>1
<1>3. NULL \notin Addresses
  BY NullFacts
<1>4. W \subseteq ({n} \cup Range(onto)) \ {NULL}
  <2> SUFFICES ASSUME NEW m \in W, m # n
               PROVE  m \in Range(onto)
    BY <1>3
  <2>1. PICK k \in W : node[k].mount_id = NULL /\ node[k].father = m
    BY DEF Leads
  <2>2. onto[k] = m /\ k \in Addresses
    BY <1>2, <2>1
  <2> QED
    BY <2>2 DEF Range
<1>5. \A m \in W : onto[m] \in W \cup {NULL}
  BY <1>2 DEF Leads
<1>6. ASSUME NEW S \in SUBSET W, n \in S \cup {NULL}, \A m \in S : onto[m] \in S \cup {NULL}
      PROVE  S = W
  <2>1. n \in S
    BY <1>3, <1>6
  <2>2. \A m \in S : node[m].mount_id = NULL => node[m].father \in S \cup {NULL}
    BY <1>2, <1>6
  <2> QED
    BY <2>1, <2>2 DEF Leads
<1> HIDE DEF onto
<1>7. Covers(n, onto, W)
  BY <1>4, <1>5, <1>6 DEF Covers, Leads
<1> QED
  BY <1>7, WalkIs DEF WayUp, onto

LEMMA ServerIs ==
    ASSUME NEW n \in Addresses, NEW t \in Addresses, t \in WayUp(node, n),
           node[t].mount_id \in MountIds,
           \A m \in WayUp(node, n) : m # t => node[m].mount_id = NULL
    PROVE  ServerOf(n) = mounts[node[t].mount_id].pid
<1>1. node[t].mount_id >= 0 /\ ~ (NULL >= 0)
  BY VfsAssumption DEF MountIds, NULL
<1>2. {m \in WayUp(node, n) : node[m].mount_id >= 0} = {t}
  BY <1>1
<1> QED
  BY <1>2 DEF ServerOf

LEMMA ServerOfMount ==
    ASSUME NEW n \in Addresses, node[n].mount_id \in MountIds
    PROVE  ServerOf(n) = mounts[node[n].mount_id].pid
<1>1. node[n].mount_id # NULL
  BY VfsAssumption DEF MountIds, NULL
<1>2. Leads(node, n, {n})
  BY <1>1 DEF Leads
<1>3. WayUp(node, n) = {n}
  BY <1>2, WayUpIs
<1> QED
  BY <1>3, ServerIs

LEMMA ServerOfDev ==
    ASSUME TypesOK, RootOK, root # 0, NEW n \in live, node[n].mount_id = NULL,
           n = Dev \/ node[n].father = Dev
    PROVE  ServerOf(n) = ROOTFSD
<1>1. /\ node \in [Addresses -> NodeRecords] /\ live \subseteq Addresses /\ NULL \notin Addresses
  BY SoundFacts DEF TypesOK
<1>2. /\ root \in live /\ Dev \in live /\ node[Dev].father = root /\ node[Dev].mount_id = NULL
      /\ node[root].mount_id \in MountIds /\ mounts[node[root].mount_id].pid = ROOTFSD
      /\ node[root].father = NULL
  BY DEF TypesOK, RootOK
<1>3. node[root].mount_id # NULL
  BY <1>2, VfsAssumption DEF MountIds, NULL
<1> DEFINE d == Dev
           W == {n, d, root}
<1> HIDE DEF d
<1>4. /\ d \in live /\ node[d].father = root /\ node[d].mount_id = NULL
      /\ n = d \/ node[n].father = d
  BY <1>2 DEF d
<1>5. \A m \in W \ {n} : \E k \in W : node[k].mount_id = NULL /\ node[k].father = m
  BY <1>2, <1>3, <1>4
<1>6. \A m \in W : node[m].mount_id = NULL => node[m].father \in W \cup {NULL}
  BY <1>2, <1>3, <1>4
<1>7. ASSUME NEW S \in SUBSET W, n \in S,
             \A m \in S : node[m].mount_id = NULL => node[m].father \in S \cup {NULL}
      PROVE  S = W
  <2>1. d \in S
    BY <1>1, <1>4, <1>7
  <2>2. root \in S
    BY <1>1, <1>2, <1>4, <1>7, <2>1
  <2> QED
    BY <1>7, <2>1, <2>2
<1>8. \A m \in W : node[m].mount_id \in MountIds \cup {NULL}
  BY <1>2, <1>4
<1>9. WayUp(node, n) = W
  <2>1. n \in Addresses /\ W \in SUBSET Addresses /\ n \in W
    BY <1>1, <1>2, <1>4
  <2> HIDE DEF W
  <2>2. Leads(node, n, W)
    BY <1>5, <1>6, <1>7, <1>8, <2>1 DEF Leads
  <2> QED
    BY <2>1, <2>2, WayUpIs
<1>10. ServerOf(n) = mounts[node[root].mount_id].pid
  BY <1>1, <1>2, <1>4, <1>9, ServerIs
<1> QED
  BY <1>2, <1>10

LEMMA InvGivesRouted ==
    ASSUME TypesOK, RootOK, KeepersOK
    PROVE  Routed
<1> SUFFICES ASSUME NEW n \in live, keeper[n] # NULL
             PROVE  ServerOf(n) = keeper[n]
  BY DEF Routed
<1>1. n \in Addresses
  BY SoundFacts DEF TypesOK
<1>2. /\ root # 0
      /\ \/ node[n].mount_id = NULL /\ keeper[n] = ROOTFSD /\ (n = Dev \/ node[n].father = Dev)
         \/ node[n].mount_id \in MountIds /\ mounts[node[n].mount_id].pid = keeper[n]
  BY <1>1 DEF KeepersOK
<1>3. CASE node[n].mount_id = NULL /\ keeper[n] = ROOTFSD /\ (n = Dev \/ node[n].father = Dev)
  <2>1. ServerOf(n) = ROOTFSD
    BY <1>2, <1>3, ServerOfDev
  <2> QED
    BY <1>3, <2>1
<1>4. CASE node[n].mount_id \in MountIds /\ mounts[node[n].mount_id].pid = keeper[n]
  <2>1. ServerOf(n) = mounts[node[n].mount_id].pid
    BY <1>1, <1>4, ServerOfMount
  <2> QED
    BY <1>4, <2>1
<1> QED
  BY <1>2, <1>3, <1>4

-----------------------------------------------------------------------------
(* Who is at what.                                                          *)

LEMMA ProcFacts ==
    /\ \A p \in Procs : p # ROOTFSD => (p \in Devices <=> p \notin Users)
    /\ ROOTFSD \notin Devices /\ ROOTFSD \notin Users /\ ROOTFSD \in Procs
    /\ \A p \in Devices : p \in Procs /\ p \notin Users
    /\ \A p \in Users : p \in Procs /\ p \notin Devices
BY VfsAssumption DEF Procs

RestAt == {"idle", "serve"}

LEMMA JobFacts ==
    ASSUME NEW j \in Jobs
    PROVE  /\ j.at \in {"new", "add", "mount", "create", "over", "fill", "set", "unlink"}
                        \cup RestAt
           /\ j.at \in {"new", "add", "mount", "create", "over"} => j \in Requests
           /\ j.at \in {"fill", "set"} => j \in Mountings
           /\ j.at = "unlink" => j \in Removals
BY DEF Jobs, Requests, Mountings, Removals, Idle, Serving, RestAt

(* The jobs that hold no node and lead to none.                             *)
LEMMA AtRest ==
    ASSUME NEW p, NEW j, j.at \in RestAt
    PROVE  Fits(p, j) /\ Fits(p, j)'
BY DEF Fits, RestAt

(* What a step leaves to the others: all but the node X that the program     *)
(* held, and the kid Y that it took out.                                    *)
Steady(X, Y) ==
    /\ root' = root /\ Dev' = Dev
    /\ \A n, nm : Blank(n, nm) /\ n # X => Blank(n, nm)'
    /\ \A n, nm : InDev(n, nm) /\ n # Y => InDev(n, nm)'
    /\ \A n : Filled(n) /\ n # X => Filled(n)'

(* A job that will use the address n, and that its program is among the      *)
(* stale after the step when p takes n out.                                 *)
Refers(j, n) == \/ j.at \in {"mount", "create", "unlink"} /\ j.node = n
                \/ j.at = "set" /\ j.org = n
Told(p, Y) == \A q \in Procs \ {p} :
    q \in stale \/ (Y # NULL /\ Refers(job[q], Y)) => q \in stale'

LEMMA LeaveTells ==
    ASSUME NEW p, NEW then, NEW n, Leave(p, then, Referrers(n))
    PROVE  Told(p, n)
<1>1. stale' = (stale \cup Referrers(n)) \ {p}
  BY DEF Leave
<1>2. \A q \in Procs : Refers(job[q], n) => q \in Referrers(n)
  BY DEF Referrers, Refers
<1> QED
  BY <1>1, <1>2 DEF Told

LEMMA LeaveQuietly ==
    ASSUME NEW p, NEW then, Leave(p, then, {})
    PROVE  Told(p, NULL)
BY DEF Leave, Told

LEMMA StaleSame ==
    ASSUME NEW p, UNCHANGED stale
    PROVE  Told(p, NULL)
BY DEF Told

LEMMA JobFrame ==
    ASSUME NEW X, NEW Y, Steady(X, Y), NEW q, NEW j, Fits(q, j),
           j.at \in HoldsAt => j.node # X,
           q \in stale => q \in stale',
           \A nm : Refers(j, Y) /\ InDev(Y, nm) => q \in stale'
    PROVE  Fits(q, j)'
<1>1. \A nm : j.at \in HoldsAt /\ Blank(j.node, nm) => Blank(j.node, nm)'
  BY DEF Steady
<1>2. \A n, nm : Refers(j, n) /\ Known(q, n, nm) => Known(q, n, nm)'
  <2> SUFFICES ASSUME NEW n, NEW nm, Refers(j, n), Known(q, n, nm), q \notin stale'
               PROVE  InDev(n, nm)'
    BY DEF Known
  <2>1. InDev(n, nm) /\ n # Y
    BY DEF Known
  <2> QED
    BY <2>1 DEF Steady
<1>6. \A n : Refers(j, n) /\ Found(q, n) => Found(q, n)'
  <2> SUFFICES ASSUME NEW n, NEW nm, Refers(j, n), nm = node[n].name, Known(q, n, nm)
               PROVE  Found(q, n)'
    BY DEF Found
  <2>1. q \in stale' \/ InDev(n, nm)'
    BY <1>2 DEF Known
  <2> QED
    BY <2>1 DEF Found, Known, InDev
<1>3. j.at \in HoldsAt /\ Filled(j.node) => Filled(j.node)'
  BY DEF Steady
<1>4. root' = root /\ Dev' = Dev
  BY DEF Steady
<1>5. /\ j.at \in {"mount", "create", "unlink"} => Refers(j, j.node)
      /\ j.at = "set" => Refers(j, j.org)
  BY DEF Refers
<1> QED
  BY <1>1, <1>2, <1>3, <1>4, <1>5, <1>6 DEF Fits, HoldsAt

LEMMA LiveFacts ==
    ASSUME TypesOK
    PROVE  /\ live \subseteq Addresses /\ NULL \notin Addresses /\ root \in live
           /\ node \in [Addresses -> NodeRecords]
           /\ Sound(node, live)
BY SoundFacts DEF TypesOK

LEMMA HeldFacts ==
    ASSUME NEW p, NEW j, Fits(p, j), j.at \in HoldsAt
    PROVE  j.node \in live \ {0, root}
BY DEF Fits, Blank, Filled, HoldsAt

LEMMA InDevFacts ==
    ASSUME TypesOK, RootOK, NEW n, NEW nm, InDev(n, nm)
    PROVE  /\ root # 0 /\ Dev \in live /\ n \in live /\ n \in Kids(node, Dev)
           /\ node[n].father = Dev /\ node[Dev].father = root /\ root # Dev
           /\ n # 0 /\ n # root /\ n # Dev
           /\ node[n].name = nm
<1>1. root # 0 /\ Dev \in live /\ n \in Kids(node, Dev) /\ node[n].name = nm
      /\ node[Dev].father = root /\ node[root].father = NULL /\ node[0].father = NULL
  BY DEF InDev, RootOK
<1> DEFINE d == Dev
<1> HIDE DEF d
<1>2. d \in live /\ n \in Kids(node, d)
  BY <1>1 DEF d
<1>3. n \in live /\ node[n].father = d
  BY <1>2, LiveFacts, DirFacts
<1>4. d \in Addresses /\ root \in Addresses /\ NULL \notin Addresses
  BY <1>2, LiveFacts
<1> QED
  BY <1>1, <1>2, <1>3, <1>4 DEF d

LEMMA OtherJobs ==
    ASSUME TypesOK, RootOK, JobsOK, JobsApart,
           NEW X, NEW Y, Steady(X, Y), NEW p \in Procs, NEW j, job' = [job EXCEPT ![p] = j],
           X # NULL => Holds(p, X), Told(p, Y)
    PROVE  \A q \in Procs \ {p}, k \in Jobs : job'[q] = k => Fits(q, k)'
<1> SUFFICES ASSUME NEW q \in Procs \ {p}, NEW k \in Jobs, job'[q] = k
             PROVE  Fits(q, k)'
  OBVIOUS
<1>1. job[q] = k
  BY DEF TypesOK
<1>2. Fits(q, k)
  BY <1>1 DEF JobsOK
<1>3. ASSUME k.at \in HoldsAt, k.node = X
      PROVE  FALSE
  <2>1. X \in Addresses /\ X # NULL
    BY <1>2, <1>3, HeldFacts, LiveFacts
  <2>2. Holds(q, X) /\ Holds(p, X)
    BY <1>1, <1>3, <2>1 DEF Holds
  <2> QED
    BY <2>1, <2>2 DEF JobsApart
<1>4. ASSUME NEW nm, Refers(k, Y), InDev(Y, nm)
      PROVE  q \in stale'
  <2>1. Y # NULL
    BY <1>4, InDevFacts, LiveFacts
  <2> QED
    BY <1>1, <1>4, <2>1 DEF Told
<1>5. q \in stale => q \in stale'
  BY DEF Told
<1> QED
  BY <1>2, <1>3, <1>4, <1>5, JobFrame

(* The nodes in hand stay apart when p keeps its node, gets a new one or     *)
(* gives it up.                                                            *)
LEMMA HandsApart ==
    ASSUME TypesOK, JobsOK, JobsApart,
           NEW p \in Procs, NEW j, job' = [job EXCEPT ![p] = j],
           j.at \in HoldsAt => Holds(p, j.node) \/ j.node \notin live
    PROVE  JobsApart'
<1>1. \A q, n : q \in Procs \ {p} /\ Holds(q, n)' => Holds(q, n)
  BY DEF TypesOK, Holds
<1>2. \A n : Holds(p, n)' => j.at \in HoldsAt /\ j.node = n
  BY DEF TypesOK, Holds
<1>3. ASSUME NEW q \in Procs, NEW n, Holds(q, n)
      PROVE  n \in live
  <2>1. PICK k \in Jobs : job[q] = k
    BY DEF TypesOK
  <2>2. Fits(q, k) /\ k.at \in HoldsAt /\ k.node = n
    BY <1>3, <2>1 DEF Holds, JobsOK
  <2> QED
    BY <2>2, HeldFacts
<1>4. ASSUME NEW q \in Procs, NEW n \in Addresses, q # p, Holds(q, n)', Holds(p, n)'
      PROVE  FALSE
  BY <1>1, <1>2, <1>3, <1>4 DEF JobsApart
<1>5. ASSUME NEW q \in Procs, NEW r \in Procs, NEW n \in Addresses, q # p, r # p,
             Holds(q, n)', Holds(r, n)'
      PROVE  q = r
  BY <1>1, <1>5 DEF JobsApart
<1> QED
  BY <1>4, <1>5 DEF JobsApart

TreeOK == RootOK /\ FathersOK /\ MountsOK /\ KeepersOK

LEMMA StepJobs ==
    ASSUME TypesOK, RootOK, JobsOK, JobsApart,
           NEW X, NEW Y, Steady(X, Y), NEW p \in Procs, NEW j \in Jobs,
           job' = [job EXCEPT ![p] = j], Fits(p, j)',
           X # NULL => Holds(p, X), Told(p, Y),
           j.at \in HoldsAt => Holds(p, j.node) \/ j.node \notin live
    PROVE  JobsOK' /\ JobsApart' /\ job' \in [Procs -> Jobs]
<1>1. job' \in [Procs -> Jobs] /\ job'[p] = j
  BY DEF TypesOK
<1>2. \A q \in Procs \ {p}, k \in Jobs : job'[q] = k => Fits(q, k)'
  BY OtherJobs
<1>3. JobsOK'
  BY <1>1, <1>2 DEF JobsOK
<1>4. JobsApart'
  BY HandsApart
<1> QED
  BY <1>1, <1>3, <1>4

LEMMA SameTree ==
    ASSUME UNCHANGED tree
    PROVE  /\ Steady(NULL, NULL)
           /\ TypesOK /\ job' \in [Procs -> Jobs] => TypesOK'
           /\ TreeOK => TreeOK'
           /\ \A p, j : Fits(p, j) /\ (p \in stale => p \in stale') => Fits(p, j)'
<1>1. /\ node' = node /\ live' = live /\ root' = root /\ mounts' = mounts /\ keeper' = keeper
      /\ Dev' = Dev
  BY DEF tree, Dev
<1>2. \A n, nm : Blank(n, nm) => Blank(n, nm)'
  BY <1>1 DEF Blank
<1>3. \A n, nm : InDev(n, nm) => InDev(n, nm)'
  BY <1>1 DEF InDev
<1>4. \A n : Filled(n) => Filled(n)'
  BY <1>1 DEF Filled
<1>5. Steady(NULL, NULL)
  BY <1>1, <1>2, <1>3, <1>4 DEF Steady
<1>6. ASSUME NEW p, NEW j, Fits(p, j), p \in stale => p \in stale'
      PROVE  Fits(p, j)'
  <2>1. \A n, nm : Known(p, n, nm) => Known(p, n, nm)'
    BY <1>3, <1>6 DEF Known
  <2>2. \A n : Found(p, n) => Found(p, n)'
    BY <1>1, <2>1 DEF Found
  <2> QED
    BY <1>1, <1>2, <1>4, <1>6, <2>1, <2>2 DEF Fits
<1>7. TypesOK /\ job' \in [Procs -> Jobs] => TypesOK'
  BY <1>1 DEF TypesOK
<1>8. RootOK => RootOK'
  BY <1>1 DEF RootOK
<1>9. FathersOK => FathersOK'
  BY <1>1 DEF FathersOK
<1>10. MountsOK => MountsOK'
  BY <1>1 DEF MountsOK, Aside
<1>11. KeepersOK => KeepersOK'
  BY <1>1 DEF KeepersOK
<1> QED
  BY <1>5, <1>6, <1>7, <1>8, <1>9, <1>10, <1>11 DEF TreeOK

LEMMA QuietStep ==
    ASSUME TreeInv, UNCHANGED tree, NEW p \in Procs, NEW j \in Jobs, job' = [job EXCEPT ![p] = j],
           Fits(p, j)', Told(p, NULL), j.at \notin HoldsAt
    PROVE  TreeInv'
<1>1. /\ Steady(NULL, NULL)
      /\ TypesOK /\ job' \in [Procs -> Jobs] => TypesOK'
      /\ TreeOK => TreeOK'
  BY SameTree
<1>2. TypesOK /\ RootOK /\ JobsOK /\ JobsApart /\ TreeOK
  BY DEF TreeInv, TreeOK
<1>3. JobsOK' /\ JobsApart' /\ job' \in [Procs -> Jobs]
  BY <1>1, <1>2, StepJobs
<1> QED
  BY <1>1, <1>2, <1>3 DEF TreeInv, TreeOK

LEMMA AskStep ==
    ASSUME TreeInv, UNCHANGED <<tree, stale>>, NEW p \in Procs, NEW j \in Jobs,
           job' = [job EXCEPT ![p] = j], Fits(p, j), j.at \notin HoldsAt
    PROVE  TreeInv'
<1>1. Fits(p, j)' /\ Told(p, NULL)
  BY SameTree, StaleSame
<1> QED
  BY <1>1, QuietStep

(* The directory /dev is the one that Dev is.                               *)
LEMMA DevIs ==
    ASSUME TreeInv, NEW d \in Named(root, DEV)
    PROVE  root # 0 /\ d = Dev /\ d \in live /\ ServerOf(d) = ROOTFSD
<1>1. d \in Kids(node, root) /\ TypesOK /\ RootOK
  BY DEF Named, TreeInv
<1>2. root # 0
  BY <1>1, LiveFacts, DirFacts DEF RootOK
<1>3. d = Dev /\ d \in live /\ node[d].mount_id = NULL
  BY <1>1, <1>2 DEF RootOK
<1> QED
  BY <1>1, <1>2, <1>3, ServerOfDev

LEMMA BeginStep ==
    ASSUME TreeInv, NEW p \in Devices \cup Users, NEW nm \in Names,
           p \in Devices => nm = MountPoint[p], NEW d \in Named(root, DEV), NEW then \in {"mount", "create"},
           then = "mount" <=> p \in Devices, Begin(p, nm, d, then)
    PROVE  TreeInv'
<1>1. root # 0 /\ d = Dev /\ d \in live /\ ServerOf(d) = ROOTFSD
  BY DevIs
<1> DEFINE j == [at |-> "new", then |-> then, name |-> nm, dir |-> d, to |-> ROOTFSD, node |-> NULL]
<1>2. job' = [job EXCEPT ![p] = j] /\ UNCHANGED <<tree, stale>>
  BY <1>1 DEF Begin
<1>3. p \in Procs /\ ROOTFSD \in Procs /\ d \in Link /\ NULL \in Link
  BY <1>1, ProcFacts, LiveFacts DEF Link, TreeInv
<1>4. j \in Requests /\ j.at = "new"
  BY <1>3 DEF Requests
<1>5. j \in Jobs
  BY <1>4 DEF Jobs
<1>6. Fits(p, j)
  BY <1>1 DEF Fits
<1> HIDE DEF j
<1>7. j.at \notin HoldsAt
  BY <1>4 DEF HoldsAt
<1> QED
  BY <1>2, <1>3, <1>5, <1>6, <1>7, AskStep

LEMMA BeginRootStep == TreeInv /\ BeginRoot => TreeInv'
<1> SUFFICES ASSUME TreeInv, BeginRoot
             PROVE  TreeInv'
  OBVIOUS
<1> DEFINE j == [at |-> "over", then |-> "mount", name |-> "/", dir |-> NULL,
                 to |-> ROOTFSD, node |-> 0]
<1>1. job' = [job EXCEPT ![ROOTFSD] = j] /\ UNCHANGED <<tree, stale>> /\ root = 0
  BY DEF BeginRoot
<1>2. ROOTFSD \in Procs /\ 0 \in Link /\ NULL \in Link /\ "/" \in Names
  BY ProcFacts, NullFacts DEF Link, Names
<1>3. j \in Requests /\ j.at = "over"
  BY <1>2 DEF Requests
<1>4. j \in Jobs
  BY <1>3 DEF Jobs
<1>5. Fits(ROOTFSD, j)
  BY <1>1 DEF Fits
<1> HIDE DEF j
<1>6. j.at \notin HoldsAt
  BY <1>3 DEF HoldsAt
<1> QED
  BY <1>1, <1>2, <1>4, <1>5, <1>6, AskStep

LEMMA RestStep ==
    ASSUME TreeInv, UNCHANGED tree, NEW p \in Procs, NEW j \in {Idle, Serving}, Leave(p, j, {})
    PROVE  TreeInv'
<1>1. j \in Jobs /\ j.at \in RestAt
  BY DEF Jobs, Idle, Serving, RestAt
<1>2. Fits(p, j)' /\ j.at \notin HoldsAt
  BY <1>1, AtRest DEF RestAt, HoldsAt
<1>3. Told(p, NULL) /\ job' = [job EXCEPT ![p] = j]
  BY LeaveQuietly DEF Leave
<1> QED
  BY <1>1, <1>2, <1>3, QuietStep

LEMMA LookupStep ==
    ASSUME TreeInv, NEW p \in Users, Lookup(p)
    PROVE  TreeInv'
<1>1. PICK d \in Named(root, DEV), nm \in FileNames[p] : \E n \in Named(d, nm) :
          node[n].file /\ job' = [job EXCEPT ![p] = [at |-> "unlink", node |-> n]]
  BY DEF Lookup
<1>2. PICK n \in Named(d, nm) : job' = [job EXCEPT ![p] = [at |-> "unlink", node |-> n]]
  BY <1>1
<1> DEFINE j == [at |-> "unlink", node |-> n]
<1>3. root # 0 /\ d = Dev /\ d \in live
  BY DevIs
<1>4. InDev(n, nm) /\ nm \in Names
  BY <1>3 DEF InDev, Named, Names
<1>5. n \in Addresses /\ p \in Procs
  BY <1>4, InDevFacts, LiveFacts, ProcFacts DEF TreeInv
<1>6. j \in Removals /\ j.at = "unlink"
  BY <1>5 DEF Removals
<1>7. j \in Jobs /\ j.at \notin HoldsAt
  BY <1>6 DEF Jobs, HoldsAt
<1>8. Fits(p, j)
  BY <1>3, <1>4 DEF Fits, Found, Known, InDev
<1>9. job' = [job EXCEPT ![p] = j] /\ UNCHANGED <<tree, stale>>
  BY <1>2 DEF Lookup
<1> HIDE DEF j
<1> QED
  BY <1>5, <1>7, <1>8, <1>9, AskStep

-----------------------------------------------------------------------------
(* A new node, in the hands of the program.                                 *)

LEMMA NextFreeFacts ==
    ASSUME TypesOK, live # Addresses
    PROVE  NextFree \in Addresses \ live
<1>1. Addresses \ live \in SUBSET Nat /\ Addresses \ live # {}
  BY LiveFacts, VfsAssumption
<1> QED
  BY <1>1, MinFacts DEF NextFree

Allocated(n, r) ==
    /\ n \in Addresses \ live /\ r \in NodeRecords
    /\ r.father = NULL /\ r.mount_id = NULL
    /\ r.first_kid = NULL /\ r.last_kid = NULL /\ r.next = NULL /\ r.prev = NULL
    /\ r.kids_num = 0
    /\ live' = live \cup {n} /\ node' = [node EXCEPT ![n] = r]
    /\ UNCHANGED <<root, mounts, keeper>>

LEMMA Alloc ==
    ASSUME TypesOK, TreeOK, NEW n, NEW r, Allocated(n, r)
    PROVE  /\ Sound(node', live')
           /\ TreeOK' /\ Steady(NULL, NULL) /\ Blank(n, r.name)'
           /\ \A d \in live : node'[d] = node[d] /\ Kids(node', d) = Kids(node, d)
<1>1. /\ live \subseteq Addresses /\ NULL \notin Addresses /\ root \in live
      /\ node \in [Addresses -> NodeRecords] /\ Sound(node, live) /\ n \notin live
  BY LiveFacts DEF Allocated
<1>2. Sound(node', live') /\ KidsBecome(node, node', live, n, {})
  BY <1>1, SoundNew DEF Allocated
<1>3. /\ root' = root /\ mounts' = mounts /\ keeper' = keeper /\ live' = live \cup {n}
      /\ node'[n] = r /\ \A d \in live : node'[d] = node[d]
  BY <1>1 DEF Allocated
<1>4. \A d \in live : Kids(node', d) = Kids(node, d)
  BY <1>1, <1>2 DEF KidsBecome
<1>5. Dev' = Dev
  BY <1>1, <1>3 DEF Dev
<1>6. keeper[n] = NULL
  BY <1>1 DEF TreeOK, KeepersOK, Allocated
<1>7. n # root /\ n # 0 /\ 0 \in live
  BY <1>1 DEF TreeOK, RootOK
<1>8. Blank(n, r.name)'
  BY <1>3, <1>6, <1>7 DEF Blank, Allocated
<1>9. Steady(NULL, NULL)
  <2>1. \A m, nm : Blank(m, nm) => Blank(m, nm)'
    BY <1>3 DEF Blank
  <2>2. ASSUME NEW m, NEW q, InDev(m, q)
        PROVE  InDev(m, q)'
    <3>1. Dev \in live /\ m \in live
      BY <2>2, InDevFacts DEF TreeOK
    <3>2. Kids(node', Dev) = Kids(node, Dev)
      BY <1>4, <3>1
    <3> QED
      BY <1>3, <1>5, <2>2, <3>1, <3>2 DEF InDev
  <2>3. ASSUME NEW m, Filled(m)
        PROVE  Filled(m)'
    BY <1>3, <1>4, <2>3 DEF Filled
  <2> QED
    BY <1>3, <1>5, <2>1, <2>2, <2>3 DEF Steady
<1>10. RootOK'
  <2>1. /\ node'[0] = node[0] /\ node'[root] = node[root] /\ Kids(node', root) = Kids(node, root)
    BY <1>1, <1>3, <1>4, <1>7
  <2>2. root # 0 => node'[Dev] = node[Dev]
    BY <1>3 DEF TreeOK, RootOK
  <2> QED
    BY <1>3, <1>5, <2>1, <2>2 DEF TreeOK, RootOK
<1>11. FathersOK'
  <2> SUFFICES ASSUME NEW m \in live', node'[m].father # NULL
               PROVE  LET f == node'[m].father
                      IN  f \in live' /\ ((root' # 0 /\ f = Dev')
                                          \/ (node'[f].father = NULL /\ m \in Kids(node', f)))
    BY DEF FathersOK
  <2>1. m \in live
    BY <1>3 DEF Allocated
  <2>2. node[m].father # NULL /\ node'[m].father = node[m].father
    BY <1>3, <2>1
  <2> QED
    BY <1>3, <1>4, <1>5, <2>1, <2>2 DEF TreeOK, FathersOK
<1>12. MountsOK'
  <2>1. root # 0 => Kids(node', Dev) = Kids(node, Dev)
    BY <1>4 DEF TreeOK, RootOK
  <2> QED
    BY <1>3, <1>5, <2>1 DEF TreeOK, MountsOK, Aside
<1>13. KeepersOK'
  BY <1>3, <1>5 DEF TreeOK, KeepersOK
<1> QED
  BY <1>2, <1>3, <1>4, <1>8, <1>9, <1>10, <1>11, <1>12, <1>13 DEF TreeOK

LEMMA AllocTypes ==
    ASSUME TypesOK, NEW n, NEW r, Allocated(n, r), Sound(node', live'), job' \in [Procs -> Jobs]
    PROVE  TypesOK'
BY DEF TypesOK, Allocated

LEMMA FreshFacts ==
    ASSUME NEW nm \in Names, NEW f \in BOOLEAN, NEW r, NEW n \in Addresses \ live,
           r = [Fresh(nm) EXCEPT !.file = f] \/ r = Fresh(nm),
           live' = live \cup {n}, node' = [node EXCEPT ![n] = r],
           UNCHANGED <<root, mounts, keeper>>
    PROVE  Allocated(n, r) /\ r.name = nm
<1>1. NULL \in Link /\ NULL \in MountIds \cup {NULL}
  BY DEF Link
<1>2. \A g \in BOOLEAN : LET s == [father |-> NULL, first_kid |-> NULL, last_kid |-> NULL,
                    next |-> NULL, prev |-> NULL, kids_num |-> 0, name |-> nm,
                    mount_id |-> NULL, file |-> g]
                         IN  s \in NodeRecords
  BY <1>1 DEF NodeRecords
<1>3. r \in NodeRecords
  BY <1>2 DEF Fresh
<1>4. /\ r.father = NULL /\ r.mount_id = NULL
      /\ r.first_kid = NULL /\ r.last_kid = NULL /\ r.next = NULL /\ r.prev = NULL
      /\ r.kids_num = 0 /\ r.name = nm
  BY DEF Fresh
<1> QED
  BY <1>3, <1>4 DEF Allocated

LEMMA NewStep ==
    ASSUME TreeInv, NEW p \in Procs, New(p)
    PROVE  TreeInv'
<1>1. TypesOK /\ TreeOK /\ JobsOK /\ JobsApart /\ RootOK
  BY DEF TreeInv, TreeOK
<1>2. PICK i \in Jobs : job[p] = i
  BY <1>1 DEF TypesOK
<1>3. PICK n \in Addresses \ live : n = NextFree
  BY <1>1, NextFreeFacts DEF New
<1>4. Fits(p, i) /\ i.at = "new" /\ i \in Requests
  BY <1>1, <1>2, JobFacts DEF JobsOK, New, At
<1> DEFINE f == i.then = "create"
           r == [Fresh(i.name) EXCEPT !.file = f]
           j == [i EXCEPT !.at = "add", !.node = n]
<1>5. Allocated(n, r) /\ r.name = i.name
  <2>1. i.name \in Names /\ f \in BOOLEAN
    BY <1>4 DEF Requests
  <2>2. live' = live \cup {n} /\ node' = [node EXCEPT ![n] = r] /\ UNCHANGED <<root, mounts, keeper>>
    BY <1>2, <1>3 DEF New
  <2> HIDE DEF f
  <2> QED
    BY <2>1, <2>2, FreshFacts
<1>6. job' = [job EXCEPT ![p] = j]
  BY <1>2, <1>3 DEF New
<1>7. /\ j \in Requests /\ j.at = "add" /\ j.node = n
      /\ j.dir = i.dir /\ j.to = i.to /\ j.name = i.name /\ j.then = i.then
  BY <1>4 DEF Requests, Link
<1> HIDE DEF r, j
<1>8. /\ Sound(node', live') /\ TreeOK' /\ Steady(NULL, NULL) /\ Blank(n, r.name)'
  BY <1>1, <1>5, Alloc
<1>9. Fits(p, j)'
  <2>1. root' = root /\ Dev' = Dev
    BY <1>8 DEF Steady
  <2>2. root # 0 /\ p \in Devices \cup Users /\ i.dir = Dev /\ i.to = ROOTFSD
        /\ (p \in Devices => i.name = MountPoint[p]) /\ (i.then = "mount" <=> p \in Devices)
    BY <1>4 DEF Fits
  <2>3. Blank(j.node, j.name)'
    BY <1>5, <1>7, <1>8
  <2> QED
    BY <1>7, <2>1, <2>2, <2>3 DEF Fits
<1>10. j \in Jobs
  BY <1>7 DEF Jobs
<1>11. JobsOK' /\ JobsApart' /\ job' \in [Procs -> Jobs]
  <2>1. Told(p, NULL)
    BY StaleSame DEF New
  <2> QED
    BY <1>1, <1>6, <1>7, <1>8, <1>9, <1>10, <2>1, StepJobs
<1>12. TypesOK'
  BY <1>1, <1>5, <1>8, <1>11, AllocTypes
<1> QED
  BY <1>8, <1>11, <1>12 DEF TreeInv, TreeOK

LEMMA OverStep ==
    ASSUME TreeInv, NEW p \in Procs, Over(p)
    PROVE  TreeInv'
<1>1. TypesOK /\ TreeOK /\ JobsOK /\ JobsApart /\ RootOK
  BY DEF TreeInv, TreeOK
<1>2. PICK i \in Jobs : job[p] = i
  BY <1>1 DEF TypesOK
<1>3. PICK n \in Addresses \ live : n = NextFree
  BY <1>1, NextFreeFacts DEF Over
<1>4. Fits(p, i) /\ i.at \in {"mount", "over"} /\ i \in Requests
  BY <1>1, <1>2, JobFacts DEF JobsOK, Over, At
<1> DEFINE r == Fresh(i.name)
           at == IF p = ROOTFSD THEN "fill" ELSE "set"
           j == [at |-> at, org |-> i.node, node |-> n]
<1>5. Allocated(n, r) /\ r.name = i.name
  <2>1. i.name \in Names /\ FALSE \in BOOLEAN
    BY <1>4 DEF Requests
  <2>2. live' = live \cup {n} /\ node' = [node EXCEPT ![n] = r] /\ UNCHANGED <<root, mounts, keeper>>
    BY <1>2, <1>3 DEF Over
  <2> QED
    BY <2>1, <2>2, FreshFacts
<1>6. job' = [job EXCEPT ![p] = j]
  BY <1>2, <1>3 DEF Over
<1>7. /\ i.at = "over" => p = ROOTFSD /\ root = 0 /\ i.node = 0 /\ i.name = "/"
      /\ i.at = "mount" => /\ root # 0 /\ p \in Devices /\ p # ROOTFSD
                           /\ Known(p, i.node, i.name) /\ i.name = MountPoint[p]
  BY <1>4, ProcFacts DEF Fits
<1>8. i.node \in Link
  BY <1>4 DEF Requests
<1>9. j \in Mountings /\ j.at = at /\ j.org = i.node /\ j.node = n
  BY <1>8 DEF Mountings
<1> HIDE DEF r, j
<1>10. /\ Sound(node', live') /\ TreeOK' /\ Steady(NULL, NULL) /\ Blank(n, r.name)'
  BY <1>1, <1>5, Alloc
<1>11. Fits(p, j)'
  <2>1. root' = root
    BY <1>10 DEF Steady
  <2>2. CASE i.at = "over"
    BY <1>5, <1>7, <1>9, <1>10, <2>1, <2>2 DEF Fits
  <2>3. CASE i.at = "mount"
    <3>1. Known(p, i.node, i.name)'
      <4>1. InDev(i.node, i.name) => i.node # NULL
        BY <1>1, InDevFacts, LiveFacts
      <4>2. stale' = stale
        BY DEF Over
      <4> QED
        BY <1>7, <1>10, <2>3, <4>1, <4>2 DEF Known, Steady
    <3>2. /\ root # 0 /\ p \in Devices /\ p # ROOTFSD /\ j.at = "set"
          /\ j.org = i.node /\ j.node = n /\ i.name = MountPoint[p] /\ r.name = MountPoint[p]
      BY <1>5, <1>7, <1>9, <2>3
    <3>3. Known(p, j.org, MountPoint[p])'
      BY <3>1, <3>2
    <3>4. Blank(j.node, MountPoint[p])'
      BY <1>10, <3>2
    <3> QED
      BY <2>1, <3>2, <3>3, <3>4 DEF Fits
  <2> QED
    BY <1>4, <2>2, <2>3
<1>12. j \in Jobs
  BY <1>9 DEF Jobs
<1>13. JobsOK' /\ JobsApart' /\ job' \in [Procs -> Jobs]
  <2>1. Told(p, NULL)
    BY StaleSame DEF Over
  <2> QED
    BY <1>1, <1>6, <1>9, <1>10, <1>11, <1>12, <2>1, StepJobs
<1>14. TypesOK'
  BY <1>1, <1>5, <1>10, <1>13, AllocTypes
<1> QED
  BY <1>10, <1>13, <1>14 DEF TreeInv, TreeOK

-----------------------------------------------------------------------------
(* A node that was in somebody's hands becomes a kid of /dev.               *)

LEMMA Attach ==
    ASSUME TypesOK, TreeOK, root # 0, NEW d, d = Dev, NEW n, NEW nm, Blank(n, nm),
           Named(d, nm) = {}, node' = AddTo(node, d, n),
           keeper' = [keeper EXCEPT ![n] = ROOTFSD], UNCHANGED <<live, root, mounts>>
    PROVE  /\ Sound(node', live') /\ TreeOK' /\ Steady(n, NULL)
           /\ Dev' = d /\ n \in Kids(node', d) /\ node'[n].name = nm
<1>1. /\ live \subseteq Addresses /\ NULL \notin Addresses /\ root \in live
      /\ node \in [Addresses -> NodeRecords] /\ Sound(node, live)
  BY LiveFacts
<1>2. /\ d \in live /\ Kids(node, root) = {d} /\ node[d].father = root
      /\ node[root].father = NULL /\ node[0].father = NULL /\ 0 \in live
      /\ node[root].first_kid = d
  BY DEF TreeOK, RootOK, Dev
<1>3. n \in live \ {0, root} /\ node[n].father = NULL /\ node[n].first_kid = NULL
      /\ node[n].mount_id = NULL /\ keeper[n] = NULL /\ node[n].name = nm
  BY DEF Blank
<1>4. d # n /\ d # root /\ d # 0 /\ Kids(node, n) = {}
  BY <1>1, <1>2, <1>3, DirFacts
<1>5. /\ Sound(node', live) /\ Added(node, node', d, n)
      /\ KidsBecome(node, node', live, d, Kids(node, d) \cup {n})
  <2>1. \A m \in Kids(node, d) : node[m].name # node[n].name
    BY <1>3 DEF Named
  <2> QED
    BY <1>1, <1>2, <1>3, <1>4, <2>1, SoundAdd
<1>6. /\ \A m \in Addresses : /\ SameLabels(node'[m], node[m])
                              /\ node'[m].father = IF m = n THEN d ELSE node[m].father
                              /\ m # d => node'[m].first_kid = node[m].first_kid
      /\ Kids(node', d) = Kids(node, d) \cup {n}
      /\ \A e \in live \ {d} : Kids(node', e) = Kids(node, e)
  BY <1>5 DEF Added, AddedAt, KidsBecome
<1>7. /\ root' = root /\ live' = live /\ mounts' = mounts
      /\ keeper'[n] = ROOTFSD /\ \A m \in Addresses \ {n} : keeper'[m] = keeper[m]
  BY <1>1, <1>3 DEF TypesOK
<1>8. Dev' = d
  BY <1>1, <1>2, <1>4, <1>6, <1>7 DEF Dev
<1>9. Steady(n, NULL)
  <2>1. ASSUME NEW m, NEW name, Blank(m, name), m # n
        PROVE  Blank(m, name)'
    <3>1. m \in live /\ m # d
      BY <1>1, <1>2, <2>1 DEF Blank
    <3> QED
      BY <1>1, <1>6, <1>7, <2>1, <3>1 DEF Blank, SameLabels
  <2>2. ASSUME NEW m, NEW q, InDev(m, q)
        PROVE  InDev(m, q)'
    <3>1. m \in live /\ m \in Kids(node, d) /\ node[m].name = q
      BY <2>2, InDevFacts DEF TreeOK
    <3>2. m \in Kids(node', d) /\ node'[m].name = node[m].name
      BY <1>1, <1>6, <3>1 DEF SameLabels
    <3> QED
      BY <1>7, <1>8, <3>1, <3>2 DEF InDev
  <2>3. ASSUME NEW m, Filled(m), m # n
        PROVE  Filled(m)'
    <3>1. m \in live /\ m # d
      BY <1>1, <1>2, <2>3 DEF Filled
    <3>2. PICK e \in live : /\ node[m].first_kid = e /\ Kids(node, m) = {e}
                            /\ node[e].name = DEV /\ node[e].mount_id = NULL /\ node[e].father = m
      BY <2>3 DEF Filled
    <3>3. e # n
      BY <1>1, <1>3, <3>1, <3>2
    <3> QED
      BY <1>1, <1>6, <1>7, <2>3, <3>1, <3>2, <3>3 DEF Filled, SameLabels
  <2> QED
    BY <1>7, <1>8, <2>1, <2>2, <2>3 DEF Steady
<1>10. RootOK'
  BY <1>1, <1>2, <1>3, <1>4, <1>6, <1>7, <1>8 DEF TreeOK, RootOK, SameLabels
<1>11. FathersOK'
  <2> SUFFICES ASSUME NEW m \in live, NEW f, f = node'[m].father, f # NULL
               PROVE  f \in live /\ ((root # 0 /\ f = d)
                                      \/ (node'[f].father = NULL /\ m \in Kids(node', f)))
    BY <1>7, <1>8 DEF FathersOK
  <2>1. CASE m = n
    BY <1>1, <1>2, <1>6, <2>1
  <2>2. CASE m # n /\ f # d
    <3>1. f = node[m].father
      BY <1>1, <1>6, <2>2
    <3>2. f \in live /\ node[f].father = NULL /\ m \in Kids(node, f)
      BY <2>2, <3>1 DEF TreeOK, FathersOK
    <3> QED
      BY <1>1, <1>4, <1>6, <2>2, <3>2
  <2> QED
    BY <1>2, <2>1, <2>2
<1>12. MountsOK'
  <2> SUFFICES ASSUME NEW i \in MountIds, NEW o, o = mounts[i].org, o # NULL, o # 0
               PROVE  o \in live /\ node'[o].father = d /\ o \notin Kids(node', d)
    BY <1>2, <1>7, <1>8 DEF MountsOK, Aside
  <2>1. o \in live /\ node[o].father = d /\ o \notin Kids(node, d)
    BY DEF TreeOK, MountsOK, Aside
  <2>2. o # n
    BY <1>1, <1>2, <1>3, <2>1
  <2> QED
    BY <1>1, <1>6, <2>1, <2>2
<1>13. KeepersOK'
  BY <1>1, <1>3, <1>6, <1>7, <1>8 DEF TreeOK, KeepersOK, SameLabels
<1> QED
  BY <1>3, <1>1, <1>5, <1>6, <1>7, <1>8, <1>9, <1>10, <1>11, <1>12, <1>13 DEF TreeOK, SameLabels

LEMMA AddStep ==
    ASSUME TreeInv, NEW p \in Procs, Add(p)
    PROVE  TreeInv'
<1>1. TypesOK /\ TreeOK /\ JobsOK /\ JobsApart /\ RootOK
  BY DEF TreeInv, TreeOK
<1>2. PICK i \in Jobs : job[p] = i
  BY <1>1 DEF TypesOK
<1>3. Fits(p, i) /\ i.at = "add" /\ i \in Requests
  BY <1>1, <1>2, JobFacts DEF JobsOK, Add, At
<1>4. /\ root # 0 /\ p \in Devices \cup Users /\ i.dir = Dev /\ i.to = ROOTFSD
      /\ (p \in Devices => i.name = MountPoint[p]) /\ (i.then = "mount" <=> p \in Devices)
      /\ Blank(i.node, i.name)
  BY <1>3 DEF Fits
<1>5. i.then \in {"mount", "create"} /\ (p \in Devices => p \notin Users)
  BY <1>3, ProcFacts DEF Requests
<1>6. PICK d : d = Dev
  OBVIOUS
<1>7. d \in live
  BY <1>1, <1>4, <1>6 DEF RootOK
<1>8. CASE Named(i.dir, i.name) # {}
  <2>1. PICK m \in Named(d, i.name) : m = Min(Named(i.dir, i.name))
    <3>1. Named(i.dir, i.name) \subseteq Nat
      BY <1>4, <1>1, <1>6, <1>7, LiveFacts, DirFacts, VfsAssumption DEF Named
    <3> QED
      BY <1>4, <1>6, <1>8, <3>1, MinFacts
  <2> DEFINE j == [i EXCEPT !.at = i.then, !.node = m]
  <2>2. job' = [job EXCEPT ![p] = j] /\ UNCHANGED <<tree, stale>>
    BY <1>2, <1>8, <2>1 DEF Add, tree
  <2>3. InDev(m, i.name)
    BY <1>4, <1>6, <2>1 DEF Named, InDev
  <2>4. m \in Link
    BY <1>1, <2>3, InDevFacts, LiveFacts DEF Link
  <2>5. /\ j \in Requests /\ j.at = i.then /\ j.node = m
        /\ j.dir = i.dir /\ j.to = i.to /\ j.name = i.name /\ j.then = i.then
    BY <1>3, <2>4 DEF Requests
  <2> HIDE DEF j
  <2>6. Fits(p, j) /\ j.at \notin HoldsAt /\ j \in Jobs
    BY <1>4, <1>5, <2>3, <2>5 DEF Fits, Known, HoldsAt, Jobs
  <2>7. p \in Procs
    OBVIOUS
  <2> QED
    BY <2>2, <2>6, <2>7, AskStep
<1>9. CASE Named(i.dir, i.name) = {}
  <2> DEFINE j == [i EXCEPT !.at = i.then]
             n == i.node
  <2>1. /\ job' = [job EXCEPT ![p] = j] /\ node' = AddTo(node, d, n)
        /\ keeper' = [keeper EXCEPT ![n] = ROOTFSD] /\ UNCHANGED <<live, root, mounts>>
    BY <1>2, <1>4, <1>6, <1>9 DEF Add, Goto
  <2>2. /\ j \in Requests /\ j.at = i.then /\ j.node = i.node
        /\ j.dir = i.dir /\ j.to = i.to /\ j.name = i.name /\ j.then = i.then
    BY <1>3 DEF Requests
  <2> HIDE DEF j
  <2>3. /\ Sound(node', live') /\ TreeOK' /\ Steady(n, NULL)
        /\ Dev' = d /\ n \in Kids(node', d) /\ node'[n].name = i.name
    <3>1. PICK m, nm : m = n /\ nm = i.name
      OBVIOUS
    <3>2. root # 0 /\ Blank(m, nm) /\ Named(d, nm) = {}
      BY <1>4, <1>6, <1>9, <3>1
    <3>3. /\ node' = AddTo(node, d, m) /\ keeper' = [keeper EXCEPT ![m] = ROOTFSD]
          /\ UNCHANGED <<live, root, mounts>>
      BY <2>1, <3>1
    <3> HIDE DEF n
    <3>4. /\ Sound(node', live') /\ TreeOK' /\ Steady(m, NULL)
          /\ Dev' = d /\ m \in Kids(node', d) /\ node'[m].name = nm
      BY <1>1, <1>6, <3>2, <3>3, Attach
    <3> QED
      BY <3>1, <3>4
  <2>4. InDev(n, i.name)' /\ root' # 0
    BY <1>4, <2>1, <2>3 DEF InDev
  <2>5. Fits(p, j)' /\ j.at \notin HoldsAt /\ j \in Jobs
    BY <1>4, <1>5, <1>6, <2>2, <2>3, <2>4 DEF Fits, Known, HoldsAt, Jobs
  <2>6. Holds(p, n)
    BY <1>2, <1>3 DEF Holds, HoldsAt
  <2>7. JobsOK' /\ JobsApart' /\ job' \in [Procs -> Jobs]
    <3>1. Told(p, NULL)
      BY StaleSame DEF Add
    <3> QED
      BY <1>1, <2>1, <2>3, <2>5, <2>6, <3>1, StepJobs
  <2>8. TypesOK'
    <3>1. keeper' \in [Addresses -> Procs \cup {NULL}]
      BY <1>1, <2>1, ProcFacts DEF TypesOK
    <3> QED
      BY <1>1, <2>1, <2>3, <2>7, <3>1 DEF TypesOK
  <2> QED
    BY <2>3, <2>7, <2>8 DEF TreeInv, TreeOK
<1> QED
  BY <1>8, <1>9

-----------------------------------------------------------------------------
(* The root file system.                                                    *)

LEMMA FillTree ==
    ASSUME TypesOK, TreeOK, root = 0, NEW m, Blank(m, "/"), NEW n \in Addresses \ live,
           live' = live \cup {n}, node' = AddTo([node EXCEPT ![n] = Fresh(DEV)], m, n),
           UNCHANGED <<root, mounts, keeper>>
    PROVE  Sound(node', live') /\ TreeOK' /\ Steady(m, NULL) /\ Filled(m)'
<1> DEFINE r == Fresh(DEV)
           mid == [node EXCEPT ![n] = r]
           lv == live \cup {n}
<1>1. /\ live \subseteq Addresses /\ NULL \notin Addresses /\ root \in live
      /\ node \in [Addresses -> NodeRecords] /\ Sound(node, live)
  BY LiveFacts
<1>2. /\ m \in live \ {0} /\ node[m].father = NULL /\ node[m].first_kid = NULL
      /\ node[m].name = "/" /\ 0 \in live
      /\ node[0].father = NULL /\ node[0].first_kid = NULL
  BY DEF Blank, TreeOK, RootOK
<1>3. Kids(node, m) = {}
  BY <1>1, <1>2, DirFacts
<1>4. /\ r \in NodeRecords /\ r.father = NULL /\ r.mount_id = NULL /\ r.name = DEV
      /\ r.first_kid = NULL /\ r.last_kid = NULL /\ r.next = NULL /\ r.prev = NULL
      /\ r.kids_num = 0
  <2>1. NULL \in Link /\ NULL \in MountIds \cup {NULL} /\ DEV \in Names
    BY DEF Link, Names
  <2> QED
    BY <2>1 DEF Fresh, NodeRecords
<1> HIDE DEF r
<1>5. Sound(mid, lv) /\ KidsBecome(node, mid, live, n, {})
  BY <1>1, <1>4, SoundNew
<1>6. /\ mid[n] = r /\ \A x \in Addresses \ {n} : mid[x] = node[x]
      /\ Kids(mid, n) = {} /\ \A x \in live : Kids(mid, x) = Kids(node, x)
  BY <1>1, <1>5 DEF KidsBecome
<1> HIDE DEF mid
<1>7. /\ Sound(node', lv) /\ Added(mid, node', m, n)
      /\ KidsBecome(mid, node', lv, m, Kids(mid, m) \cup {n})
  <2>1. m \in lv /\ n \in lv /\ m # n /\ mid[n].father = NULL
    BY <1>2, <1>4, <1>6
  <2>2. \A k \in Kids(mid, m) : mid[k].name # mid[n].name
    BY <1>2, <1>3, <1>6
  <2>3. node' = AddTo(mid, m, n)
    BY DEF mid, r
  <2> HIDE DEF lv
  <2> QED
    BY <1>5, <2>1, <2>2, <2>3, SoundAdd
<1>8. /\ \A x \in live : /\ SameLabels(node'[x], node[x]) /\ node'[x].father = node[x].father
                         /\ x # m => node'[x].first_kid = node[x].first_kid
      /\ node'[n].father = m /\ SameLabels(node'[n], r)
      /\ node'[m].first_kid = n
      /\ Kids(node', m) = {n}
      /\ \A x \in live \ {m} : Kids(node', x) = Kids(node, x)
  <2>1. \A x \in Addresses : AddedAt(mid, node'[x], m, n, x)
    BY <1>7 DEF Added
  <2>2. mid[m].last_kid = NULL
    BY <1>1, <1>2, <1>3, <1>6, DirFacts
  <2>3. /\ Kids(node', m) = {n} /\ \A x \in live \ {m} : Kids(node', x) = Kids(node, x)
    BY <1>1, <1>2, <1>3, <1>6, <1>7 DEF KidsBecome
  <2>4. n \in Addresses /\ AddedAt(mid, node'[n], m, n, n) /\ AddedAt(mid, node'[m], m, n, m)
    BY <1>1, <1>2, <2>1
  <2>5. node'[n].father = m /\ SameLabels(node'[n], r) /\ node'[m].first_kid = n
    BY <1>6, <2>2, <2>4 DEF AddedAt
  <2>6. ASSUME NEW x \in live
        PROVE  /\ SameLabels(node'[x], node[x]) /\ node'[x].father = node[x].father
               /\ x # m => node'[x].first_kid = node[x].first_kid
    <3>1. x \in Addresses \ {n} /\ mid[x] = node[x] /\ AddedAt(mid, node'[x], m, n, x)
      BY <1>1, <1>6, <2>1
    <3> QED
      BY <3>1 DEF AddedAt
  <2> QED
    BY <2>3, <2>5, <2>6
<1>9. root' = root /\ live' = lv /\ mounts' = mounts /\ keeper' = keeper
  OBVIOUS
<1>10. Dev' = Dev /\ Dev = NULL
  BY <1>2, <1>8, <1>9 DEF Dev
<1>11. Filled(m)'
  BY <1>2, <1>4, <1>8, <1>9 DEF Filled, SameLabels
<1>12. Steady(m, NULL)
  <2>1. ASSUME NEW x, NEW nm, Blank(x, nm), x # m
        PROVE  Blank(x, nm)'
    BY <1>8, <1>9, <2>1 DEF Blank, SameLabels
  <2>2. ASSUME NEW x, NEW q, InDev(x, q)
        PROVE  FALSE
    BY <2>2 DEF InDev
  <2>3. ASSUME NEW x, Filled(x), x # m
        PROVE  Filled(x)'
    <3>1. PICK e \in live : /\ node[x].first_kid = e /\ Kids(node, x) = {e}
                            /\ node[e].name = DEV /\ node[e].mount_id = NULL /\ node[e].father = x
      BY <2>3 DEF Filled
    <3>2. x \in live \ {0, root} /\ node[x].name = "/" /\ node[x].father = NULL
      BY <2>3 DEF Filled
    <3>3. /\ node'[x].first_kid = e /\ Kids(node', x) = {e}
          /\ node'[e].name = DEV /\ node'[e].mount_id = NULL /\ node'[e].father = x
      BY <1>8, <2>3, <3>1, <3>2 DEF SameLabels
    <3>4. x \in live' \ {0, root'} /\ node'[x].name = "/" /\ node'[x].father = NULL /\ e \in live'
      BY <1>8, <1>9, <3>2 DEF SameLabels
    <3> QED
      BY <3>3, <3>4 DEF Filled
  <2> QED
    BY <1>9, <1>10, <2>1, <2>2, <2>3 DEF Steady
<1>13. RootOK'
  BY <1>2, <1>8, <1>9 DEF TreeOK, RootOK, SameLabels
<1>14. FathersOK'
  <2> SUFFICES ASSUME NEW x \in lv, NEW f, f = node'[x].father, f # NULL
               PROVE  f \in lv /\ node'[f].father = NULL /\ x \in Kids(node', f)
    BY <1>9 DEF FathersOK
  <2>1. CASE x = n
    BY <1>2, <1>8, <2>1
  <2>2. CASE x \in live
    <3>1. f = node[x].father
      BY <1>8, <2>2
    <3>2. f \in live /\ node[f].father = NULL /\ x \in Kids(node, f)
      BY <2>2, <3>1 DEF TreeOK, FathersOK
    <3> QED
      BY <1>3, <1>8, <3>2
  <2> QED
    BY <2>1, <2>2
<1>15. MountsOK'
  <2>1. \A x \in live : x \in live'
    BY <1>9
  <2> QED
    BY <1>9, <2>1 DEF TreeOK, MountsOK, Aside
<1>16. KeepersOK'
  BY <1>9 DEF TreeOK, KeepersOK
<1> QED
  BY <1>7, <1>9, <1>11, <1>12, <1>13, <1>14, <1>15, <1>16 DEF TreeOK

LEMMA FillStep == TreeInv /\ Fill => TreeInv'
<1> SUFFICES ASSUME TreeInv, Fill
             PROVE  TreeInv'
  OBVIOUS
<1>1. TypesOK /\ TreeOK /\ JobsOK /\ JobsApart /\ RootOK /\ ROOTFSD \in Procs
  BY ProcFacts DEF TreeInv, TreeOK
<1>2. PICK i \in Jobs : job[ROOTFSD] = i
  BY <1>1 DEF TypesOK
<1>3. PICK n \in Addresses \ live : n = NextFree
  BY <1>1, NextFreeFacts DEF Fill
<1>4. Fits(ROOTFSD, i) /\ i.at = "fill" /\ i \in Mountings
  BY <1>1, <1>2, JobFacts DEF JobsOK, Fill, At
<1>5. root = 0 /\ i.org = 0 /\ Blank(i.node, "/")
  BY <1>4 DEF Fits
<1> DEFINE j == [i EXCEPT !.at = "set"]
           m == i.node
<1>6. /\ live' = live \cup {n} /\ node' = AddTo([node EXCEPT ![n] = Fresh(DEV)], m, n)
      /\ UNCHANGED <<root, mounts, keeper>> /\ job' = [job EXCEPT ![ROOTFSD] = j]
  BY <1>2, <1>3 DEF Fill, Goto
<1>7. j \in Mountings /\ j.at = "set" /\ j.org = i.org /\ j.node = i.node
  BY <1>4 DEF Mountings
<1> HIDE DEF j
<1>8. Sound(node', live') /\ TreeOK' /\ Steady(m, NULL) /\ Filled(m)'
  BY <1>1, <1>5, <1>6, FillTree
<1>9. Fits(ROOTFSD, j)' /\ j \in Jobs
  BY <1>5, <1>6, <1>7, <1>8 DEF Fits, Jobs
<1>10. Holds(ROOTFSD, m)
  BY <1>2, <1>4 DEF Holds, HoldsAt
<1>11. JobsOK' /\ JobsApart' /\ job' \in [Procs -> Jobs]
  <2>1. Told(ROOTFSD, NULL)
    BY StaleSame DEF Fill
  <2> QED
    BY <1>1, <1>6, <1>7, <1>8, <1>9, <1>10, <2>1, StepJobs
<1>12. TypesOK'
  BY <1>1, <1>6, <1>8, <1>11 DEF TypesOK
<1> QED
  BY <1>8, <1>11, <1>12 DEF TreeInv, TreeOK

-----------------------------------------------------------------------------
(* A file is taken out and its node is free.                                *)

LEMMA DeleteTree ==
    ASSUME TypesOK, TreeOK, NEW n, NEW name, InDev(n, name),
           node' = [Unlinked(node, n) EXCEPT ![n] = Fresh(NoName)], live' = live \ {n},
           keeper' = [keeper EXCEPT ![n] = NULL], UNCHANGED <<root, mounts>>
    PROVE  Sound(node', live') /\ TreeOK' /\ Steady(NULL, n)
<1> DEFINE mid == Unlinked(node, n)
<1>1. /\ live \subseteq Addresses /\ NULL \notin Addresses /\ root \in live
      /\ node \in [Addresses -> NodeRecords] /\ Sound(node, live)
  BY LiveFacts
<1>2. PICK d : d = Dev
  OBVIOUS
<1>3. /\ root # 0 /\ d \in live /\ n \in live /\ n \in Kids(node, d)
      /\ node[n].father = d /\ node[d].father = root /\ root # d
      /\ n # 0 /\ n # root /\ n # d
  BY <1>2, InDevFacts DEF TreeOK
<1>4. /\ node[root].father = NULL /\ node[0].father = NULL /\ 0 \in live
      /\ node[root].first_kid = d
  BY <1>2 DEF TreeOK, RootOK, Dev
<1>5. \A x \in live : node[x].father # n
  BY <1>1, <1>2, <1>3 DEF TreeOK, FathersOK
<1>6. Kids(node, n) = {}
  BY <1>1, <1>3, <1>5, DirFacts
<1>7. /\ Sound(mid, live) /\ Removed(node, mid, n)
      /\ KidsBecome(node, mid, live, d, Kids(node, d) \ {n})
  BY <1>1, <1>3, SoundRemove
<1> HIDE DEF mid
<1>8. /\ Kids(mid, d) = Kids(node, d) \ {n} /\ Kids(mid, n) = {}
      /\ \A x \in live \ {d} : Kids(mid, x) = Kids(node, x)
      /\ \A x \in Addresses : /\ SameLabels(mid[x], node[x]) /\ mid[x].father = node[x].father
                              /\ x # d => mid[x].first_kid = node[x].first_kid
      /\ mid \in [Addresses -> NodeRecords]
  <2>1. /\ Kids(mid, d) = Kids(node, d) \ {n}
        /\ \A x \in live \ {d} : Kids(mid, x) = Kids(node, x)
    BY <1>7 DEF KidsBecome
  <2>2. Kids(mid, n) = {}
    BY <1>3, <1>6, <2>1
  <2>3. mid \in [Addresses -> NodeRecords] /\ \A x \in Addresses : RemovedAt(node, mid[x], n, x)
    BY <1>7 DEF Removed
  <2>4. ASSUME NEW x \in Addresses
        PROVE  /\ SameLabels(mid[x], node[x]) /\ mid[x].father = node[x].father
               /\ x # d => mid[x].first_kid = node[x].first_kid
    <3>1. RemovedAt(node, mid[x], n, x)
      BY <2>3
    <3> QED
      BY <1>3, <3>1 DEF RemovedAt
  <2> QED
    BY <2>1, <2>2, <2>3, <2>4
<1>9. \A x \in live : n \notin Kids(mid, x)
  BY <1>1, <1>3, <1>8, DirFacts
<1>10. node' = [mid EXCEPT ![n] = Fresh(NoName)]
  BY DEF mid
<1>11. Sound(node', live') /\ \A x \in live' : Kids(node', x) = Kids(mid, x)
  <2>1. PICK old, lv : old = mid /\ lv = live
    OBVIOUS
  <2>2. PICK new, lw : new = node' /\ lw = live'
    OBVIOUS
  <2>3. Sound(old, lv)
    BY <1>7, <2>1
  <2>4. Freed(old, lv, new, lw, n)
    BY <1>3, <1>8, <1>9, <1>10, <2>1, <2>2 DEF Freed
  <2>5. Sound(new, lw) /\ KidsStay(old, new, lw)
    BY <2>3, <2>4, SoundFree
  <2>6. Sound(node', live')
    BY <2>2, <2>5
  <2>7. \A x \in live' : Kids(node', x) = Kids(mid, x)
    BY <2>1, <2>2, <2>5 DEF KidsStay
  <2> QED
    BY <2>6, <2>7
<1>12. /\ root' = root /\ mounts' = mounts
       /\ keeper'[n] = NULL /\ \A x \in Addresses \ {n} : keeper'[x] = keeper[x]
       /\ \A x \in live' : /\ x \in live /\ x # n /\ x \in Addresses
                           /\ SameLabels(node'[x], node[x]) /\ node'[x].father = node[x].father
                           /\ x # d => node'[x].first_kid = node[x].first_kid
       /\ d \in live' /\ 0 \in live' /\ root \in live' /\ \A x \in live : x # n => x \in live'
  BY <1>1, <1>3, <1>4, <1>8, <1>10 DEF TypesOK
<1>13. /\ Kids(node', d) = Kids(node, d) \ {n}
       /\ \A x \in live' \ {d} : Kids(node', x) = Kids(node, x)
  BY <1>8, <1>11, <1>12
<1>14. Dev' = d
  BY <1>3, <1>4, <1>12 DEF Dev
<1>15. Steady(NULL, n)
  <2>1. ASSUME NEW x, NEW nm, Blank(x, nm)
        PROVE  Blank(x, nm)'
    <3>1. x \in live /\ x # n /\ x # d
      BY <1>1, <1>3, <2>1 DEF Blank
    <3> QED
      BY <1>1, <1>12, <2>1, <3>1 DEF Blank, SameLabels
  <2>2. ASSUME NEW x, NEW q, InDev(x, q), x # n
        PROVE  InDev(x, q)'
    <3>1. x \in live /\ x \in Kids(node, d) /\ node[x].name = q
      BY <1>2, <2>2, InDevFacts DEF TreeOK
    <3>2. x \in Kids(node', d) /\ node'[x].name = node[x].name
      BY <1>12, <1>13, <2>2, <3>1 DEF SameLabels
    <3> QED
      BY <1>3, <1>12, <1>14, <3>1, <3>2 DEF InDev
  <2>3. ASSUME NEW x, Filled(x)
        PROVE  Filled(x)'
    <3>1. PICK e \in live : /\ node[x].first_kid = e /\ Kids(node, x) = {e}
                            /\ node[e].name = DEV /\ node[e].mount_id = NULL /\ node[e].father = x
      BY <2>3 DEF Filled
    <3>2. /\ x \in live \ {0, root} /\ node[x].name = "/" /\ node[x].father = NULL
      BY <2>3 DEF Filled
    <3>3. x # n /\ x # d /\ e # n
      BY <1>1, <1>3, <3>1, <3>2
    <3>4. x \in live' /\ e \in live'
      BY <1>12, <3>1, <3>2, <3>3
    <3>5. /\ node'[x].first_kid = e /\ Kids(node', x) = {e}
          /\ node'[e].name = DEV /\ node'[e].mount_id = NULL /\ node'[e].father = x
          /\ node'[x].name = "/" /\ node'[x].father = NULL
      BY <1>12, <1>13, <3>1, <3>2, <3>3, <3>4 DEF SameLabels
    <3> QED
      BY <1>12, <3>2, <3>4, <3>5 DEF Filled
  <2> QED
    BY <1>2, <1>12, <1>14, <2>1, <2>2, <2>3 DEF Steady
<1>16. RootOK'
  <2>1. /\ node[0].first_kid = NULL /\ node[0].name = "/"
        /\ node[root].mount_id \in MountIds
        /\ mounts[node[root].mount_id].pid = ROOTFSD /\ mounts[node[root].mount_id].org # NULL
        /\ Kids(node, root) = {d} /\ node[d].name = DEV /\ node[d].mount_id = NULL
    BY <1>2, <1>3 DEF TreeOK, RootOK
  <2>2. d # 0
    BY <1>1, <1>3, <1>4
  <2>3. /\ node'[0].first_kid = NULL /\ node'[0].name = "/" /\ node'[0].father = NULL
        /\ node'[root].father = NULL /\ node'[root].mount_id = node[root].mount_id
        /\ Kids(node', root) = {d} /\ node'[d].name = DEV /\ node'[d].mount_id = NULL
        /\ node'[d].father = root
    BY <1>3, <1>4, <1>12, <1>13, <2>1, <2>2 DEF SameLabels
  <2> QED
    BY <1>12, <1>14, <2>1, <2>3 DEF RootOK
<1>17. FathersOK'
  <2> SUFFICES ASSUME NEW x \in live', NEW f, f = node'[x].father, f # NULL
               PROVE  f \in live' /\ ((root' # 0 /\ f = Dev')
                                       \/ (node'[f].father = NULL /\ x \in Kids(node', f)))
    BY DEF FathersOK
  <2>1. x \in live /\ f = node[x].father
    BY <1>12
  <2>2. CASE f = d
    BY <1>3, <1>12, <1>14, <2>2
  <2>3. CASE f # d
    <3>1. f \in live /\ node[f].father = NULL /\ x \in Kids(node, f) /\ f # n
      BY <1>2, <1>5, <2>1, <2>3 DEF TreeOK, FathersOK
    <3> QED
      BY <1>12, <1>13, <2>3, <3>1
  <2> QED
    BY <2>2, <2>3
<1>18. MountsOK'
  <2> SUFFICES ASSUME NEW i \in MountIds, NEW o, o = mounts[i].org, o # NULL
               PROVE  o \in live' /\ (o = 0 \/ (node'[o].father = d /\ o \notin Kids(node', d)))
    BY <1>3, <1>12, <1>14 DEF MountsOK, Aside
  <2>1. o \in live /\ (o = 0 \/ (node[o].father = d /\ o \notin Kids(node, d)))
    BY <1>2 DEF TreeOK, MountsOK, Aside
  <2>2. o # n
    BY <1>3, <2>1
  <2> QED
    BY <1>12, <1>13, <2>1, <2>2
<1>19. KeepersOK'
  <2> SUFFICES ASSUME NEW x \in Addresses, keeper'[x] # NULL
               PROVE  /\ x \in live' /\ root # 0
                      /\ \/ node'[x].mount_id = NULL /\ keeper'[x] = ROOTFSD
                            /\ (x = d \/ node'[x].father = d)
                         \/ /\ node'[x].mount_id \in MountIds
                            /\ mounts[node'[x].mount_id].org # NULL
                            /\ mounts[node'[x].mount_id].pid = keeper'[x]
    BY <1>12, <1>14 DEF KeepersOK
  <2>1. x # n /\ keeper'[x] = keeper[x]
    BY <1>12
  <2>2. x \in live /\ x \in live'
    BY <1>12, <2>1 DEF TreeOK, KeepersOK
  <2>3. node'[x].mount_id = node[x].mount_id /\ node'[x].father = node[x].father
    BY <1>12, <2>2 DEF SameLabels
  <2> QED
    BY <1>2, <1>3, <2>1, <2>2, <2>3 DEF TreeOK, KeepersOK
<1> QED
  BY <1>11, <1>15, <1>16, <1>17, <1>18, <1>19 DEF TreeOK

(* The end of unlink and of vfs_create.                                     *)
LEMMA DeleteStep ==
    ASSUME TreeInv, NEW p \in Users, NEW n, NEW name, InDev(n, name), Delete(p, n)
    PROVE  TreeInv'
<1>1. TypesOK /\ TreeOK /\ JobsOK /\ JobsApart /\ RootOK /\ p \in Procs
  BY ProcFacts DEF TreeInv, TreeOK
<1>2. root' = root /\ mounts' = mounts
  BY DEF Delete
<1>3. CASE Leave(p, Idle, {}) /\ UNCHANGED <<node, live, keeper>>
  BY <1>1, <1>2, <1>3, RestStep DEF tree
<1>4. CASE /\ node' = [Unlinked(node, n) EXCEPT ![n] = Fresh(NoName)] /\ live' = live \ {n}
           /\ keeper' = [keeper EXCEPT ![n] = NULL] /\ Leave(p, Idle, Referrers(n))
  <2>1. Sound(node', live') /\ TreeOK' /\ Steady(NULL, n)
    BY <1>1, <1>2, <1>4, DeleteTree
  <2>2. Idle \in Jobs /\ Idle.at \in RestAt
    BY DEF Jobs, Idle, RestAt
  <2>3. Fits(p, Idle)' /\ Idle.at \notin HoldsAt
    BY <2>2, AtRest DEF HoldsAt, RestAt
  <2>4. Told(p, n) /\ job' = [job EXCEPT ![p] = Idle]
    BY <1>4, LeaveTells DEF Leave
  <2>5. JobsOK' /\ JobsApart' /\ job' \in [Procs -> Jobs]
    BY <1>1, <2>1, <2>2, <2>3, <2>4, StepJobs
  <2>6. TypesOK'
    <3>1. keeper' \in [Addresses -> Procs \cup {NULL}]
      BY <1>1, <1>4 DEF TypesOK
    <3>2. root' \in live'
      BY <1>1, <1>2, <1>4, InDevFacts, LiveFacts
    <3> QED
      BY <1>1, <1>2, <2>1, <2>5, <3>1, <3>2 DEF TypesOK
  <2> QED
    BY <2>1, <2>5, <2>6 DEF TreeInv, TreeOK
<1> QED
  BY <1>3, <1>4 DEF Delete

LEMMA CreatedStep ==
    ASSUME TreeInv, NEW p \in Procs, Created(p)
    PROVE  TreeInv'
<1>1. TypesOK /\ TreeOK /\ JobsOK /\ RootOK
  BY DEF TreeInv, TreeOK
<1>2. PICK i \in Jobs : job[p] = i
  BY <1>1 DEF TypesOK
<1>3. Fits(p, i) /\ i.at = "create"
  BY <1>1, <1>2 DEF JobsOK, Created, At
<1>4. p \in Users /\ Known(p, i.node, i.name)
  BY <1>3 DEF Fits
<1>5. CASE Leave(p, Idle, {}) /\ UNCHANGED tree
  BY <1>5, RestStep
<1>6. CASE p \notin stale /\ Delete(p, i.node)
  <2>1. InDev(i.node, i.name)
    BY <1>4, <1>6 DEF Known
  <2> QED
    BY <1>4, <1>6, <2>1, DeleteStep
<1> QED
  BY <1>2, <1>5, <1>6 DEF Created, Uses

LEMMA UnlinkStep ==
    ASSUME TreeInv, NEW p \in Users, Unlink(p)
    PROVE  TreeInv'
<1>1. TypesOK /\ TreeOK /\ JobsOK /\ RootOK /\ p \in Procs
  BY ProcFacts DEF TreeInv, TreeOK
<1>2. PICK i \in Jobs : job[p] = i
  BY <1>1 DEF TypesOK
<1>3. Fits(p, i) /\ i.at = "unlink"
  BY <1>1, <1>2 DEF JobsOK, Unlink, At
<1>4. PICK nm : nm = node[i.node].name /\ Known(p, i.node, nm)
  BY <1>3 DEF Fits, Found
<1>5. CASE Leave(p, Idle, {}) /\ UNCHANGED tree
  BY <1>1, <1>5, RestStep
<1>6. CASE p \notin stale /\ Delete(p, i.node)
  <2>1. InDev(i.node, nm)
    BY <1>4, <1>6 DEF Known
  <2> QED
    BY <1>6, <2>1, DeleteStep
<1> QED
  BY <1>2, <1>5, <1>6 DEF Unlink, Uses

-----------------------------------------------------------------------------
(* A device's node takes the place of its mount point in /dev.              *)

IsNamed(nodes, new, n, nm, id) == new = [nodes EXCEPT ![n].name = nm, ![n].mount_id = id]

LEMMA NamedLinks ==
    ASSUME NEW nodes \in [Addresses -> NodeRecords], NEW n \in Addresses,
           NEW nm \in Names, NEW id \in MountIds,
           NEW new, IsNamed(nodes, new, n, nm, id)
    PROVE  /\ SameLinks(nodes, new, n)
           /\ new[n].name = nm /\ new[n].mount_id = id
<1>1. nodes[n] \in NodeRecords
  OBVIOUS
<1>2. new = [nodes EXCEPT ![n] = [nodes[n] EXCEPT !.name = nm, !.mount_id = id]]
  BY DEF IsNamed
<1> DEFINE r == [nodes[n] EXCEPT !.name = nm, !.mount_id = id]
<1>3. /\ r \in NodeRecords /\ r.father = nodes[n].father /\ r.first_kid = nodes[n].first_kid
      /\ r.last_kid = nodes[n].last_kid /\ r.next = nodes[n].next /\ r.prev = nodes[n].prev
      /\ r.kids_num = nodes[n].kids_num /\ r.name = nm /\ r.mount_id = id
  BY <1>1 DEF NodeRecords
<1> HIDE DEF r
<1>4. new \in [Addresses -> NodeRecords] /\ new[n] = r /\ \A m \in Addresses \ {n} : new[m] = nodes[m]
  BY <1>2, <1>3 DEF r
<1>5. ASSUME NEW m \in Addresses
      PROVE  /\ new[m].father = nodes[m].father
             /\ new[m].first_kid = nodes[m].first_kid
             /\ new[m].last_kid = nodes[m].last_kid
             /\ new[m].next = nodes[m].next /\ new[m].prev = nodes[m].prev
             /\ new[m].kids_num = nodes[m].kids_num
             /\ m # n => new[m] = nodes[m]
  BY <1>3, <1>4
<1> QED
  BY <1>3, <1>4, <1>5 DEF SameLinks

(* What the mount of a device makes of the tree: n is where o was.           *)
TakesPlace(d, o, n, id) ==
    /\ \A x \in Addresses : /\ node'[x].name = node[x].name
                            /\ node'[x].mount_id = IF x = n THEN id ELSE node[x].mount_id
                            /\ node'[x].father = IF x = n THEN d ELSE node[x].father
                            /\ x # d => node'[x].first_kid = node[x].first_kid
    /\ Kids(node', d) = (Kids(node, d) \ {o}) \cup {n}
    /\ \A x \in live \ {d} : Kids(node', x) = Kids(node, x)

LEMMA PlaceTaken ==
    ASSUME TypesOK, TreeOK, NEW p \in Devices, NEW o, InDev(o, MountPoint[p]),
           NEW n, Blank(n, MountPoint[p]),
           NEW id \in MountIds, Mounted(p, id, o, n), live' = live, NEW d, d = Dev
    PROVE  /\ Sound(node', live') /\ TakesPlace(d, o, n, id)
           /\ root' = root /\ mounts' = [mounts EXCEPT ![id] = [pid |-> p, org |-> o]]
<1>1. /\ live \subseteq Addresses /\ NULL \notin Addresses /\ root \in live
      /\ node \in [Addresses -> NodeRecords] /\ Sound(node, live)
  BY LiveFacts
<1>2. /\ root # 0 /\ d \in live /\ o \in live /\ o \in Kids(node, d)
      /\ node[o].father = d /\ node[d].father = root /\ node[o].name = MountPoint[p]
  BY InDevFacts DEF TreeOK
<1>3. /\ n \in live \ {0, root} /\ node[n].father = NULL /\ node[n].first_kid = NULL
      /\ node[n].name = MountPoint[p]
  BY DEF Blank
<1>4. node[o].name = MountPoint[p] /\ n # d /\ n # o
  BY <1>1, <1>2, <1>3
<1>5. PICK old, lv : old = node /\ lv = live
  OBVIOUS
<1>6. PICK named : named = [old EXCEPT ![n].name = node[o].name, ![n].mount_id = id]
  OBVIOUS
<1>7. SameLinks(old, named, n) /\ named[n].name = node[o].name /\ named[n].mount_id = id
  <2>1. node[o] \in NodeRecords
    BY <1>1, <1>2
  <2>2. old \in [Addresses -> NodeRecords] /\ n \in Addresses /\ node[o].name \in Names
    BY <1>1, <1>3, <1>5, <2>1 DEF NodeRecords
  <2>3. PICK nm \in Names : nm = node[o].name
    BY <2>2
  <2>4. IsNamed(old, named, n, nm, id)
    BY <1>6, <2>3 DEF IsNamed
  <2> QED
    BY <2>2, <2>3, <2>4, NamedLinks
<1>8. Sound(named, lv) /\ KidsStay(old, named, lv)
  <2>1. Sound(old, lv) /\ n \in lv /\ old[n].father = NULL
    BY <1>1, <1>3, <1>5
  <2> QED
    BY <1>7, <2>1, SoundLabel
<1>9. PICK mid : mid = Unlinked(named, o)
  OBVIOUS
<1>10. /\ Sound(mid, lv) /\ Removed(named, mid, o)
       /\ KidsBecome(named, mid, lv, d, Kids(named, d) \ {o})
  <2>1. d \in lv /\ o \in Kids(named, d)
    BY <1>2, <1>5, <1>8 DEF KidsStay
  <2> QED
    BY <1>8, <1>9, <2>1, SoundRemove
<1>11. /\ Kids(mid, d) = Kids(node, d) \ {o}
       /\ \A x \in live \ {d} : Kids(mid, x) = Kids(node, x)
  BY <1>2, <1>5, <1>8, <1>10 DEF KidsBecome, KidsStay
<1>12. ASSUME NEW x \in Addresses
       PROVE  /\ mid[x].name = node[x].name
              /\ mid[x].mount_id = IF x = n THEN id ELSE node[x].mount_id
              /\ mid[x].father = node[x].father
              /\ x # d => mid[x].first_kid = node[x].first_kid
  <2>1. RemovedAt(named, mid[x], o, x)
    BY <1>10 DEF Removed
  <2>2. /\ named[x].father = node[x].father /\ named[x].first_kid = node[x].first_kid
        /\ x # n => named[x] = node[x]
    BY <1>5, <1>7 DEF SameLinks
  <2>3. named[o].father = d
    BY <1>1, <1>2, <1>5, <1>7 DEF SameLinks
  <2>4. /\ mid[x].name = named[x].name /\ mid[x].mount_id = named[x].mount_id
        /\ mid[x].father = named[x].father
        /\ x # d => mid[x].first_kid = named[x].first_kid
    BY <2>1, <2>3 DEF RemovedAt, SameLabels
  <2>5. CASE x = n
    BY <1>3, <1>4, <1>7, <2>2, <2>4, <2>5
  <2>6. CASE x # n
    BY <2>2, <2>4, <2>6
  <2> QED
    BY <2>5, <2>6
<1>13. /\ root' = root /\ mounts' = [mounts EXCEPT ![id] = [pid |-> p, org |-> o]]
       /\ node' = AddTo(mid, d, n)
  <2>1. node[o].father # NULL
    BY <1>1, <1>2
  <2> QED
    BY <1>2, <1>5, <1>6, <1>9, <2>1 DEF Mounted
<1>14. PICK new : new = node'
  OBVIOUS
<1>15. /\ Sound(new, lv) /\ Added(mid, new, d, n)
       /\ KidsBecome(mid, new, lv, d, Kids(mid, d) \cup {n})
  <2>1. ASSUME NEW m \in Kids(mid, d)
        PROVE  mid[m].name # mid[n].name
    <3>1. m \in Kids(node, d) /\ m # o /\ m \in Addresses
      BY <1>1, <1>2, <1>11, DirFacts
    <3>2. node[m].name # node[o].name
      BY <1>1, <1>2, <3>1, DirFacts DEF NamesApart
    <3> QED
      BY <1>1, <1>3, <1>4, <1>12, <3>1, <3>2
  <2>2. d \in lv /\ n \in lv /\ d # n /\ mid[n].father = NULL
    BY <1>1, <1>2, <1>3, <1>4, <1>5, <1>12
  <2>3. new = AddTo(mid, d, n)
    BY <1>13, <1>14
  <2> QED
    BY <1>10, <2>1, <2>2, <2>3, SoundAdd
<1>16. ASSUME NEW x \in Addresses
       PROVE  /\ new[x].name = node[x].name
              /\ new[x].mount_id = IF x = n THEN id ELSE node[x].mount_id
              /\ new[x].father = IF x = n THEN d ELSE node[x].father
              /\ x # d => new[x].first_kid = node[x].first_kid
  <2>1. AddedAt(mid, new[x], d, n, x)
    BY <1>15 DEF Added
  <2>2. /\ new[x].name = mid[x].name /\ new[x].mount_id = mid[x].mount_id
        /\ new[x].father = IF x = n THEN d ELSE mid[x].father
        /\ x # d => new[x].first_kid = mid[x].first_kid
    BY <2>1 DEF AddedAt, SameLabels
  <2> QED
    BY <1>12, <2>2
<1>17. /\ Kids(new, d) = (Kids(node, d) \ {o}) \cup {n}
       /\ \A x \in live \ {d} : Kids(new, x) = Kids(node, x)
  BY <1>5, <1>11, <1>15 DEF KidsBecome
<1>18. TakesPlace(d, o, n, id)
  BY <1>14, <1>16, <1>17 DEF TakesPlace
<1>19. Sound(node', live')
  BY <1>5, <1>14, <1>15
<1> QED
  BY <1>13, <1>18, <1>19

LEMMA MountTree ==
    ASSUME TypesOK, TreeOK, NEW p \in Devices, NEW o, InDev(o, MountPoint[p]),
           NEW n, Blank(n, MountPoint[p]),
           NEW id \in MountIds, mounts[id].org = NULL, Mounted(p, id, o, n), live' = live,
           keeper' = [m \in Addresses |-> IF m \in {n} \cup Kids(node, n) THEN p ELSE keeper[m]]
    PROVE  Sound(node', live') /\ TreeOK' /\ Steady(n, o) /\ root' = root
<1>1. /\ live \subseteq Addresses /\ NULL \notin Addresses /\ root \in live
      /\ node \in [Addresses -> NodeRecords] /\ Sound(node, live)
  BY LiveFacts
<1>2. PICK d : d = Dev
  OBVIOUS
<1>3. /\ root # 0 /\ d \in live /\ o \in live /\ o \in Kids(node, d) /\ o # 0 /\ o # root /\ o # d
      /\ node[o].father = d /\ node[d].father = root /\ root # d
      /\ node[o].name = MountPoint[p]
  BY <1>2, InDevFacts DEF TreeOK
<1>4. /\ n \in live \ {0, root} /\ node[n].father = NULL /\ node[n].first_kid = NULL
      /\ node[n].name = MountPoint[p] /\ keeper[n] = NULL /\ node[n].mount_id = NULL
  BY DEF Blank
<1>5. /\ node[root].father = NULL /\ node[0].father = NULL /\ 0 \in live
      /\ node[root].first_kid = d
  BY <1>2, <1>3 DEF TreeOK, RootOK, Dev
<1>6. /\ node[o].name = MountPoint[p] /\ n # d /\ n # o /\ d # 0 /\ Kids(node, n) = {}
      /\ p \in Procs /\ p # NULL
  BY <1>1, <1>3, <1>4, <1>5, DirFacts, ProcFacts, VfsAssumption
<1>7. /\ Sound(node', live') /\ TakesPlace(d, o, n, id)
      /\ root' = root /\ mounts' = [mounts EXCEPT ![id] = [pid |-> p, org |-> o]]
  BY <1>2, PlaceTaken
<1>8. \A x \in Addresses : /\ node'[x].name = node[x].name
                           /\ node'[x].mount_id = IF x = n THEN id ELSE node[x].mount_id
                           /\ node'[x].father = IF x = n THEN d ELSE node[x].father
                           /\ x # d => node'[x].first_kid = node[x].first_kid
  BY <1>7 DEF TakesPlace
<1>9. /\ Kids(node', d) = (Kids(node, d) \ {o}) \cup {n}
      /\ \A x \in live \ {d} : Kids(node', x) = Kids(node, x)
  BY <1>7 DEF TakesPlace
<1>10. /\ keeper'[n] = p /\ \A x \in Addresses \ {n} : keeper'[x] = keeper[x]
       /\ mounts'[id].pid = p /\ mounts'[id].org = o
       /\ \A i \in MountIds : mounts[i].org # NULL => mounts'[i] = mounts[i]
       /\ \A i \in MountIds \ {id} : mounts'[i] = mounts[i]
  BY <1>1, <1>4, <1>6, <1>7 DEF TypesOK
<1>11. Dev' = d
  BY <1>1, <1>3, <1>5, <1>7, <1>8 DEF Dev
<1>12. Steady(n, o)
  <2>1. ASSUME NEW x, NEW nm, Blank(x, nm), x # n
        PROVE  Blank(x, nm)'
    <3>1. /\ x \in live \ {0, root} /\ node[x].name = nm /\ keeper[x] = NULL
          /\ node[x].father = NULL /\ node[x].first_kid = NULL /\ node[x].mount_id = NULL
      BY <2>1 DEF Blank
    <3>2. x # d /\ x \in Addresses
      BY <1>1, <1>3, <3>1
    <3>3. /\ node'[x].name = nm /\ keeper'[x] = NULL /\ x \in live' \ {0, root'}
          /\ node'[x].father = NULL /\ node'[x].first_kid = NULL /\ node'[x].mount_id = NULL
      BY <1>7, <1>8, <1>10, <2>1, <3>1, <3>2
    <3> QED
      BY <3>3 DEF Blank
  <2>2. ASSUME NEW x, NEW q, InDev(x, q), x # o
        PROVE  InDev(x, q)'
    <3>1. x \in live /\ x \in Kids(node, d) /\ node[x].name = q
      BY <1>2, <2>2, InDevFacts DEF TreeOK
    <3>2. x \in Kids(node', d) /\ node'[x].name = node[x].name
      BY <1>1, <1>8, <1>9, <2>2, <3>1
    <3> QED
      BY <1>3, <1>7, <1>11, <3>1, <3>2 DEF InDev
  <2>3. ASSUME NEW x, Filled(x), x # n
        PROVE  Filled(x)'
    <3>1. PICK e \in live : /\ node[x].first_kid = e /\ Kids(node, x) = {e}
                            /\ node[e].name = DEV /\ node[e].mount_id = NULL /\ node[e].father = x
      BY <2>3 DEF Filled
    <3>2. /\ x \in live \ {0, root} /\ node[x].name = "/" /\ node[x].father = NULL
      BY <2>3 DEF Filled
    <3>3. x # d /\ e # n /\ x \in Addresses /\ e \in Addresses
      BY <1>1, <1>3, <1>4, <3>1, <3>2
    <3>4. /\ node'[x].first_kid = e /\ Kids(node', x) = {e}
          /\ node'[e].name = DEV /\ node'[e].mount_id = NULL /\ node'[e].father = x
          /\ node'[x].name = "/" /\ node'[x].father = NULL
      BY <1>8, <1>9, <2>3, <3>1, <3>2, <3>3
    <3> QED
      BY <1>7, <3>1, <3>2, <3>4 DEF Filled
  <2> QED
    BY <1>2, <1>7, <1>11, <2>1, <2>2, <2>3 DEF Steady
<1>13. RootOK'
  <2>1. /\ node[0].first_kid = NULL /\ node[0].name = "/"
        /\ node[root].mount_id \in MountIds
        /\ mounts[node[root].mount_id].pid = ROOTFSD /\ mounts[node[root].mount_id].org # NULL
        /\ Kids(node, root) = {d} /\ node[d].name = DEV /\ node[d].mount_id = NULL
    BY <1>2, <1>3 DEF TreeOK, RootOK
  <2>2. /\ node'[0].first_kid = NULL /\ node'[0].name = "/" /\ node'[0].father = NULL
        /\ node'[root].father = NULL /\ node'[root].mount_id = node[root].mount_id
        /\ Kids(node', root) = {d} /\ node'[d].name = DEV /\ node'[d].mount_id = NULL
        /\ node'[d].father = root
    BY <1>1, <1>3, <1>4, <1>5, <1>6, <1>8, <1>9, <2>1
  <2>3. mounts'[node[root].mount_id] = mounts[node[root].mount_id]
    BY <1>10, <2>1
  <2> QED
    BY <1>3, <1>5, <1>7, <1>11, <2>1, <2>2, <2>3 DEF RootOK
<1>14. FathersOK'
  <2> SUFFICES ASSUME NEW x \in live', NEW f, f = node'[x].father, f # NULL
               PROVE  f \in live' /\ ((root' # 0 /\ f = Dev')
                                       \/ (node'[f].father = NULL /\ x \in Kids(node', f)))
    BY DEF FathersOK
  <2>1. CASE f = d
    BY <1>3, <1>7, <1>11, <2>1
  <2>2. CASE f # d
    <3>1. x \in live /\ f = node[x].father /\ x # n
      BY <1>1, <1>8, <2>2
    <3>2. f \in live /\ node[f].father = NULL /\ x \in Kids(node, f)
      BY <1>2, <2>2, <3>1 DEF TreeOK, FathersOK
    <3>3. f # n
      BY <1>6, <3>2
    <3> QED
      BY <1>1, <1>8, <1>9, <2>2, <3>2, <3>3
  <2> QED
    BY <2>1, <2>2
<1>15. MountsOK'
  <2> SUFFICES ASSUME NEW i \in MountIds, NEW m, m = mounts'[i].org, m # NULL
               PROVE  m \in live /\ (m = 0 \/ (node'[m].father = d /\ m \notin Kids(node', d)))
    BY <1>3, <1>7, <1>11 DEF MountsOK, Aside
  <2>1. CASE i = id
    BY <1>1, <1>3, <1>6, <1>8, <1>9, <1>10, <2>1
  <2>2. CASE i # id
    <3>1. m \in live /\ (m = 0 \/ (node[m].father = d /\ m \notin Kids(node, d)))
      BY <1>2, <1>10, <2>2 DEF TreeOK, MountsOK, Aside
    <3>2. m # 0 => m # n
      BY <1>1, <1>3, <1>4, <3>1
    <3> QED
      BY <1>1, <1>8, <1>9, <3>1, <3>2
  <2> QED
    BY <2>1, <2>2
<1>16. KeepersOK'
  <2> SUFFICES ASSUME NEW x \in Addresses, keeper'[x] # NULL
               PROVE  /\ x \in live' /\ root' # 0
                      /\ \/ node'[x].mount_id = NULL /\ keeper'[x] = ROOTFSD
                            /\ (x = Dev' \/ node'[x].father = Dev')
                         \/ /\ node'[x].mount_id \in MountIds
                            /\ mounts'[node'[x].mount_id].org # NULL
                            /\ mounts'[node'[x].mount_id].pid = keeper'[x]
    BY DEF KeepersOK
  <2>1. CASE x = n
    <3>1. o # NULL
      BY <1>1, <1>3
    <3> QED
      BY <1>3, <1>4, <1>7, <1>8, <1>10, <2>1, <3>1
  <2>2. CASE x # n
    <3>1. /\ x \in live
          /\ \/ node[x].mount_id = NULL /\ keeper[x] = ROOTFSD /\ (x = d \/ node[x].father = d)
             \/ /\ node[x].mount_id \in MountIds
                /\ mounts[node[x].mount_id].org # NULL
                /\ mounts[node[x].mount_id].pid = keeper[x]
      BY <1>2, <1>10, <2>2 DEF TreeOK, KeepersOK
    <3>2. /\ node'[x].mount_id = node[x].mount_id /\ node'[x].father = node[x].father
          /\ keeper'[x] = keeper[x]
      BY <1>8, <1>10, <2>2
    <3>3. /\ node[x].mount_id \in MountIds
          /\ mounts[node[x].mount_id].org # NULL
          => mounts'[node[x].mount_id] = mounts[node[x].mount_id]
      BY <1>10
    <3> QED
      BY <1>3, <1>7, <1>11, <3>1, <3>2, <3>3
  <2> QED
    BY <2>1, <2>2
<1> QED
  BY <1>7, <1>12, <1>13, <1>14, <1>15, <1>16 DEF TreeOK

(* The root file system's node becomes the root.                            *)
LEMMA MountRootTree ==
    ASSUME TypesOK, TreeOK, root = 0, NEW n, Filled(n), NEW id \in MountIds,
           Mounted(ROOTFSD, id, 0, n), live' = live,
           keeper' = [m \in Addresses |-> IF m \in {n} \cup Kids(node, n)
                                       THEN ROOTFSD ELSE keeper[m]]
    PROVE  /\ Sound(node', live') /\ TreeOK' /\ root' = n /\ n \in live
           /\ mounts' = [mounts EXCEPT ![id] = [pid |-> ROOTFSD, org |-> 0]]
<1>1. /\ live \subseteq Addresses /\ NULL \notin Addresses
      /\ node \in [Addresses -> NodeRecords] /\ Sound(node, live)
  BY LiveFacts
<1>2. n \in live \ {0} /\ node[n].name = "/" /\ node[n].father = NULL
  BY DEF Filled
<1>3. PICK e \in live : /\ node[n].first_kid = e /\ Kids(node, n) = {e}
                        /\ node[e].name = DEV /\ node[e].mount_id = NULL /\ node[e].father = n
  BY DEF Filled
<1>4. /\ 0 \in live /\ node[0].father = NULL /\ node[0].first_kid = NULL /\ node[0].name = "/"
  BY DEF TreeOK, RootOK
<1>5. e # n /\ e \in Addresses /\ n \in Addresses /\ 0 # NULL
  BY <1>1, <1>2, <1>3, <1>4
<1>6. PICK old, lv : old = node /\ lv = live
  OBVIOUS
<1>7. PICK new : new = node'
  OBVIOUS
<1>8. /\ root' = n /\ new = [old EXCEPT ![n].name = "/", ![n].mount_id = id]
      /\ mounts' = [mounts EXCEPT ![id] = [pid |-> ROOTFSD, org |-> 0]]
  BY <1>4, <1>6, <1>7 DEF Mounted
<1>9. SameLinks(old, new, n) /\ new[n].name = "/" /\ new[n].mount_id = id
  <2>1. IsNamed(old, new, n, "/", id) /\ "/" \in Names
    BY <1>8 DEF IsNamed, Names
  <2>2. old \in [Addresses -> NodeRecords]
    BY <1>1, <1>6
  <2> QED
    BY <1>5, <2>1, <2>2, NamedLinks
<1>10. Sound(new, lv) /\ KidsStay(old, new, lv)
  <2>1. Sound(old, lv) /\ n \in lv /\ old[n].father = NULL
    BY <1>1, <1>2, <1>6
  <2> QED
    BY <1>9, <2>1, SoundLabel
<1>11. /\ \A x \in live : Kids(node', x) = Kids(node, x)
       /\ \A x \in Addresses : /\ node'[x].father = node[x].father
                               /\ node'[x].first_kid = node[x].first_kid
                               /\ x # n => node'[x] = node[x]
       /\ node'[n].name = "/" /\ node'[n].mount_id = id
  BY <1>6, <1>7, <1>9, <1>10 DEF KidsStay, SameLinks
<1>12. Sound(node', live')
  BY <1>6, <1>7, <1>10
<1>13. /\ mounts'[id].pid = ROOTFSD /\ mounts'[id].org = 0
       /\ \A i \in MountIds \ {id} : mounts'[i] = mounts[i]
  BY <1>8 DEF TypesOK
<1>14. Dev' = e
  BY <1>3, <1>5, <1>8, <1>11 DEF Dev
<1>15. RootOK'
  <2>1. /\ node'[0].father = NULL /\ node'[0].first_kid = NULL /\ node'[0].name = "/"
        /\ node'[n].father = NULL /\ Kids(node', n) = {e}
        /\ node'[e].name = DEV /\ node'[e].father = n /\ node'[e].mount_id = NULL
    BY <1>1, <1>2, <1>3, <1>4, <1>5, <1>11
  <2> QED
    BY <1>4, <1>5, <1>8, <1>11, <1>13, <1>14, <2>1 DEF RootOK
<1>16. FathersOK'
  <2> SUFFICES ASSUME NEW x \in live', NEW f, f = node'[x].father, f # NULL
               PROVE  f \in live' /\ ((root' # 0 /\ f = Dev')
                                       \/ (node'[f].father = NULL /\ x \in Kids(node', f)))
    BY DEF FathersOK
  <2>1. x \in live /\ f = node[x].father
    BY <1>1, <1>11
  <2>2. f \in live /\ node[f].father = NULL /\ x \in Kids(node, f)
    BY <2>1 DEF TreeOK, FathersOK
  <2> QED
    BY <1>1, <1>11, <2>2
<1>17. MountsOK'
  <2>1. ASSUME NEW i \in MountIds, mounts'[i].org # NULL
        PROVE  mounts'[i].org = 0
    BY <1>13, <2>1 DEF TreeOK, MountsOK, Aside
  <2> QED
    BY <1>4, <2>1 DEF MountsOK
<1>18. KeepersOK'
  <2> SUFFICES ASSUME NEW x \in Addresses, keeper'[x] # NULL
               PROVE  /\ x \in live' /\ root' # 0
                      /\ \/ node'[x].mount_id = NULL /\ keeper'[x] = ROOTFSD
                            /\ (x = Dev' \/ node'[x].father = Dev')
                         \/ /\ node'[x].mount_id \in MountIds
                            /\ mounts'[node'[x].mount_id].org # NULL
                            /\ mounts'[node'[x].mount_id].pid = keeper'[x]
    BY DEF KeepersOK
  <2>1. keeper[x] = NULL
    BY DEF TreeOK, KeepersOK
  <2>2. x \in {n, e} /\ keeper'[x] = ROOTFSD
    BY <1>3, <2>1
  <2>3. CASE x = n
    BY <1>2, <1>5, <1>8, <1>11, <1>13, <2>2, <2>3
  <2>4. CASE x = e
    BY <1>2, <1>3, <1>5, <1>8, <1>11, <1>14, <2>2, <2>4
  <2> QED
    BY <2>2, <2>3, <2>4
<1> QED
  BY <1>2, <1>8, <1>12, <1>15, <1>16, <1>17, <1>18 DEF TreeOK

LEMMA MountStep ==
    ASSUME TreeInv, NEW p \in Procs, Mount(p)
    PROVE  TreeInv'
<1>0. PICK j : j = IF p \in stale /\ FreeMounts # {} THEN Idle ELSE Serving
  OBVIOUS
<1>1. TypesOK /\ TreeOK /\ JobsOK /\ JobsApart /\ RootOK
  BY DEF TreeInv, TreeOK
<1>2. PICK i \in Jobs : job[p] = i
  BY <1>1 DEF TypesOK
<1>3. Fits(p, i) /\ i.at = "set" /\ i \in Mountings
  BY <1>1, <1>2, JobFacts DEF JobsOK, Mount, At
<1> DEFINE n == i.node
           o == i.org
<1>4. job' = [job EXCEPT ![p] = j]
  BY <1>0 DEF Mount, Uses, Leave
<1>5. j \in Jobs /\ j.at \in RestAt /\ j.at \notin HoldsAt
  BY <1>0 DEF Jobs, RestAt, HoldsAt, Idle, Serving
<1>6. Fits(p, j) /\ Fits(p, j)'
  BY <1>5, AtRest
<1>7. CASE UNCHANGED tree /\ Leave(p, j, {})
  BY <1>0, <1>7, RestStep
<1>8. CASE ~ (UNCHANGED tree /\ Leave(p, j, {}))
  <2>0. p \notin stale /\ FreeMounts # {} /\ Leave(p, Serving, Referrers(o))
    BY <1>0, <1>2, <1>8 DEF Mount, Uses
  <2>1. FreeMounts # {} /\ Mounted(p, Min(FreeMounts), o, n) /\ live' = live
        /\ keeper' = [m \in Addresses |-> IF m \in {n} \cup Kids(node, n) THEN p ELSE keeper[m]]
    BY <1>0, <1>2, <1>8 DEF Mount, Uses
  <2>2. PICK id \in MountIds : id = Min(FreeMounts) /\ mounts[id].org = NULL
    <3>1. FreeMounts \in SUBSET Nat
      BY VfsAssumption DEF FreeMounts, MountIds
    <3>2. Min(FreeMounts) \in FreeMounts
      BY <2>1, <3>1, MinFacts
    <3> QED
      BY <3>2 DEF FreeMounts
  <2>3. keeper' \in [Addresses -> Procs \cup {NULL}]
    BY <1>1, <2>1 DEF TypesOK
  <2>4. p = ROOTFSD \/ p \in Devices
    BY <1>3 DEF Fits
  <2>5. CASE p = ROOTFSD
    <3>1. root = 0 /\ o = 0 /\ Filled(n)
      BY <1>3, <2>5 DEF Fits
    <3>2. /\ Sound(node', live') /\ TreeOK' /\ root' = n /\ n \in live
          /\ mounts' = [mounts EXCEPT ![id] = [pid |-> ROOTFSD, org |-> 0]]
      <4>1. PICK m : m = n
        OBVIOUS
      <4>2. /\ Filled(m) /\ Mounted(ROOTFSD, id, 0, m)
            /\ keeper' = [x \in Addresses |-> IF x \in {m} \cup Kids(node, m)
                                           THEN ROOTFSD ELSE keeper[x]]
        BY <2>1, <2>2, <2>5, <3>1, <4>1
      <4> HIDE DEF n
      <4> QED
        BY <1>1, <2>1, <3>1, <4>1, <4>2, MountRootTree
    <3>3. \A q \in Procs \ {p}, k \in Jobs : job[q] = k => k.at \in RestAt
      <4> SUFFICES ASSUME NEW q \in Procs \ {p}, NEW k \in Jobs, job[q] = k
                   PROVE  k.at \in RestAt
        OBVIOUS
      <4>1. Fits(q, k)
        BY <1>1 DEF JobsOK
      <4>2. k.at \notin {"new", "add", "create", "mount", "over", "fill", "set", "unlink"}
        BY <2>5, <3>1, <4>1 DEF Fits
      <4> QED
        BY <4>2, JobFacts
    <3>4. job' \in [Procs -> Jobs] /\ job'[p] = j /\ \A q \in Procs \ {p} : job'[q] = job[q]
      BY <1>1, <1>4, <1>5 DEF TypesOK
    <3>5. JobsOK'
      <4> SUFFICES ASSUME NEW q \in Procs, NEW k \in Jobs, job'[q] = k
                   PROVE  Fits(q, k)'
        BY DEF JobsOK
      <4>1. k.at \in RestAt
        BY <1>5, <3>3, <3>4
      <4> QED
        BY <4>1, AtRest
    <3>6. JobsApart'
      BY <1>1, <1>4, <1>5, HandsApart
    <3>7. TypesOK'
      <4>1. mounts' \in [MountIds -> [pid : Procs \cup {NULL}, org : Link]]
        <5>1. [pid |-> ROOTFSD, org |-> 0] \in [pid : Procs \cup {NULL}, org : Link]
          BY NullFacts, ProcFacts DEF Link
        <5> QED
          BY <1>1, <3>2, <5>1 DEF TypesOK
      <4> QED
        BY <2>1, <2>3, <3>2, <3>4, <4>1 DEF TypesOK
    <3> QED
      BY <3>2, <3>5, <3>6, <3>7 DEF TreeInv, TreeOK
  <2>6. CASE p \in Devices
    <3>1. p # ROOTFSD /\ InDev(o, MountPoint[p]) /\ Blank(n, MountPoint[p])
      BY <1>3, <2>0, <2>6, ProcFacts DEF Fits, Known
    <3>2. Sound(node', live') /\ TreeOK' /\ Steady(n, o) /\ root' = root
      <4>1. PICK m : m = n
        OBVIOUS
      <4>2. PICK u : u = o
        OBVIOUS
      <4>3. /\ Blank(m, MountPoint[p]) /\ Mounted(p, id, u, m) 
            /\ InDev(u, MountPoint[p])
            /\ keeper' = [x \in Addresses |-> IF x \in {m} \cup Kids(node, m)
                                           THEN p ELSE keeper[x]]
        BY <2>1, <2>2, <3>1, <4>1, <4>2
      <4> HIDE DEF n, o
      <4>4. Sound(node', live') /\ TreeOK' /\ Steady(m, u) /\ root' = root
        BY <1>1, <2>1, <2>2, <2>6, <4>3, MountTree
      <4> QED
        BY <4>1, <4>2, <4>4
    <3>3. Holds(p, n)
      BY <1>2, <1>3 DEF Holds, HoldsAt
    <3>4. JobsOK' /\ JobsApart' /\ job' \in [Procs -> Jobs]
      <4>1. Told(p, o)
        BY <2>0, LeaveTells
      <4> HIDE DEF n, o
      <4> QED
        BY <1>1, <1>4, <1>5, <1>6, <3>2, <3>3, <4>1, StepJobs
    <3>5. mounts' \in [MountIds -> [pid : Procs \cup {NULL}, org : Link]]
      <4>1. mounts' = [mounts EXCEPT ![id] = [pid |-> p, org |-> o]]
        BY <2>1, <2>2 DEF Mounted
      <4>2. [pid |-> p, org |-> o] \in [pid : Procs \cup {NULL}, org : Link]
        BY <1>3 DEF Mountings, Link
      <4> QED
        BY <1>1, <4>1, <4>2 DEF TypesOK
    <3>6. TypesOK'
      BY <1>1, <2>1, <2>3, <3>2, <3>4, <3>5 DEF TypesOK
    <3> QED
      BY <3>2, <3>4, <3>6 DEF TreeInv, TreeOK
  <2> QED
    BY <2>4, <2>5, <2>6
<1> QED
  BY <1>7, <1>8

-----------------------------------------------------------------------------
LEMMA FreshRecord ==
    ASSUME NEW nm \in Names
    PROVE  /\ Fresh(nm) \in NodeRecords /\ Fresh(nm).name = nm /\ Fresh(nm).kids_num = 0
           /\ Fresh(nm).father = NULL /\ Fresh(nm).first_kid = NULL /\ Fresh(nm).last_kid = NULL
           /\ Fresh(nm).next = NULL /\ Fresh(nm).prev = NULL /\ Fresh(nm).mount_id = NULL
<1>1. NULL \in Link /\ NULL \in MountIds \cup {NULL}
  BY DEF Link
<1> QED
  BY <1>1 DEF Fresh, NodeRecords

LEMMA InitInv == TreeInit => TreeInv
<1> SUFFICES ASSUME TreeInit
             PROVE  TreeInv
  OBVIOUS
<1>1. /\ live = {0} /\ root = 0 /\ 0 \in Addresses /\ 0 # NULL
      /\ mounts = [i \in MountIds |-> NoMount] /\ job = [p \in Procs |-> Idle]
      /\ keeper = [n \in Addresses |-> NULL]
  BY NullFacts, VfsAssumption DEF TreeInit
<1>2. "/" \in Names /\ NoName \in Names
  BY DEF Names
<1>3. /\ node[0] = Fresh("/") /\ \A n \in Addresses \ {0} : node[n] = Fresh(NoName)
      /\ node \in [Addresses -> NodeRecords]
  <2>1. node = [n \in Addresses |-> Fresh(IF n = 0 THEN "/" ELSE NoName)]
    BY DEF TreeInit
  <2>2. \A n \in Addresses : node[n] = IF n = 0 THEN Fresh("/") ELSE Fresh(NoName)
    BY <2>1
  <2>3. \A n \in Addresses : node[n] \in NodeRecords
    BY <1>2, <2>2, FreshRecord
  <2> QED
    BY <1>1, <2>1, <2>2, <2>3
<1>4. /\ node[0].name = "/" /\ node[0].kids_num = 0 /\ node[0].father = NULL
      /\ node[0].first_kid = NULL /\ node[0].last_kid = NULL
      /\ node[0].next = NULL /\ node[0].prev = NULL
  BY <1>2, <1>3, FreshRecord
<1>5. IsList(node, 0, {}) /\ NamesApart(node, {})
  <2>1. Cardinality({}) = 0
    BY FS_EmptySet
  <2>2. ReachesAll(node, 0, {})
    BY DEF ReachesAll
  <2> QED
    BY <1>4, <2>1, <2>2 DEF IsList, NamesApart
<1>6. Sound(node, live)
  <2>1. \A d \in live : \E K \in SUBSET live : IsList(node, d, K) /\ NamesApart(node, K)
    BY <1>1, <1>5
  <2>2. \A n \in live : IsKid(node, live, n) \/ (node[n].next = NULL /\ node[n].prev = NULL)
    BY <1>1, <1>4
  <2>3. live \in SUBSET Addresses /\ \A n \in Addresses \ live : node[n] = Fresh(NoName)
    BY <1>1, <1>3
  <2> QED
    BY <1>3, <2>1, <2>2, <2>3, SoundIf
<1>7. Idle \in Jobs /\ Idle.at \in RestAt /\ Idle.at \notin HoldsAt
  BY DEF Jobs, Idle, RestAt, HoldsAt
<1>8. TypesOK
  <2>1. NoMount \in [pid : Procs \cup {NULL}, org : Link]
    BY DEF NoMount, Link
  <2> QED
    BY <1>1, <1>6, <1>7, <2>1 DEF TypesOK
<1>9. RootOK
  BY <1>1, <1>4 DEF RootOK
<1>10. FathersOK
  BY <1>1, <1>4 DEF FathersOK
<1>11. MountsOK
  BY <1>1 DEF MountsOK, NoMount
<1>12. KeepersOK
  BY <1>1 DEF KeepersOK
<1>13. JobsOK
  BY <1>1, <1>7, AtRest DEF JobsOK
<1>14. JobsApart
  BY <1>1, <1>7 DEF JobsApart, Holds
<1> QED
  BY <1>8, <1>9, <1>10, <1>11, <1>12, <1>13, <1>14 DEF TreeInv

LEMMA NextInv == TreeInv /\ [TreeNext]_vfsVars => TreeInv'
<1> SUFFICES ASSUME TreeInv, [TreeNext]_vfsVars
             PROVE  TreeInv'
  OBVIOUS
<1>1. CASE UNCHANGED vfsVars
  <2>1. UNCHANGED tree /\ job' = job /\ stale' = stale
    BY <1>1 DEF vfsVars
  <2>2. TypesOK' /\ TreeOK' /\ \A p, j : Fits(p, j) => Fits(p, j)'
    BY <2>1, SameTree DEF TreeInv, TreeOK, TypesOK
  <2>3. JobsOK'
    BY <2>1, <2>2 DEF TreeInv, JobsOK
  <2>4. JobsApart'
    BY <2>1 DEF TreeInv, JobsApart, Holds
  <2> QED
    BY <2>2, <2>3, <2>4 DEF TreeInv, TreeOK
<1>2. CASE BeginRoot
  BY <1>2, BeginRootStep
<1>3. CASE Fill
  BY <1>3, FillStep
<1>4. ASSUME NEW p \in Devices, BeginDevice(p)
      PROVE  TreeInv'
  <2>1. PICK d \in Named(root, DEV) : Begin(p, MountPoint[p], d, "mount")
    BY <1>4 DEF BeginDevice
  <2>2. PICK nm \in Names : nm = MountPoint[p]
    BY DEF Names
  <2>3. Begin(p, nm, d, "mount")
    BY <2>1, <2>2
  <2> QED
    BY <2>2, <2>3, BeginStep
<1>5. ASSUME NEW p \in Users, BeginFile(p)
      PROVE  TreeInv'
  <2>1. PICK d \in Named(root, DEV), nm \in FileNames[p] : Begin(p, nm, d, "create")
    BY <1>5 DEF BeginFile
  <2>2. nm \in Names /\ p \notin Devices
    BY ProcFacts DEF Names
  <2> QED
    BY <2>1, <2>2, BeginStep
<1>6. ASSUME NEW p \in Users, Lookup(p)
      PROVE  TreeInv'
  BY <1>6, LookupStep
<1>7. ASSUME NEW p \in Users, Unlink(p)
      PROVE  TreeInv'
  BY <1>7, UnlinkStep
<1>8. ASSUME NEW p \in Procs, New(p)
      PROVE  TreeInv'
  BY <1>8, NewStep
<1>9. ASSUME NEW p \in Procs, Add(p)
      PROVE  TreeInv'
  BY <1>9, AddStep
<1>10. ASSUME NEW p \in Procs, Created(p)
       PROVE  TreeInv'
  BY <1>10, CreatedStep
<1>11. ASSUME NEW p \in Procs, Over(p)
       PROVE  TreeInv'
  BY <1>11, OverStep
<1>12. ASSUME NEW p \in Procs, Mount(p)
       PROVE  TreeInv'
  BY <1>12, MountStep
<1>13. ASSUME NEW p \in Procs, Kill(p)
       PROVE  TreeInv'
  BY <1>13, RestStep DEF Kill
<1>14. Undefined => UNCHANGED vfsVars
  BY DEF Undefined
<1> QED
  BY <1>1, <1>2, <1>3, <1>4, <1>5, <1>6, <1>7, <1>8, <1>9, <1>10, <1>11, <1>12, <1>13, <1>14
     DEF TreeNext

LEMMA InvGivesTypes == TreeInv => TreeTypeOK
<1> SUFFICES ASSUME TreeInv
             PROVE  TreeTypeOK
  OBVIOUS
<1>1. /\ live \subseteq Addresses /\ root \in live /\ Sound(node, live)
      /\ \A n \in Addresses \ live : node[n] = Fresh(NoName)
  BY LiveFacts, SoundFacts DEF TreeInv
<1>2. ASSUME NEW n \in live
      PROVE  {node[n].father, node[n].first_kid, node[n].last_kid, node[n].next, node[n].prev}
             \subseteq live \cup {NULL}
  <2>1. node[n].father \in live \cup {NULL}
    BY DEF TreeInv, FathersOK
  <2>2. node[n].first_kid \in live \cup {NULL} /\ node[n].last_kid \in live \cup {NULL}
    BY <1>1, DirFacts
  <2>3. node[n].next \in live \cup {NULL} /\ node[n].prev \in live \cup {NULL}
    <3>1. CASE IsKid(node, live, n)
      <4>1. PICK f \in live : n \in Kids(node, f)
        BY <3>1 DEF IsKid
      <4> QED
        BY <1>1, <4>1, DirFacts
    <3>2. CASE node[n].next = NULL /\ node[n].prev = NULL
      BY <3>2
    <3> QED
      BY <1>1, <3>1, <3>2 DEF Sound
  <2> QED
    BY <2>1, <2>2, <2>3
<1>3. \A i \in MountIds : mounts[i].org \in live \cup {NULL}
  BY DEF TreeInv, MountsOK
<1> QED
  BY <1>1, <1>2, <1>3 DEF TreeTypeOK

LEMMA InvHolds == TreeSpec => []TreeInv
<1> QED
  BY InitInv, NextInv, PTL DEF TreeSpec

(* The kids of every directory are one list, whatever calls have been cut    *)
(* off in the middle (vfs_add, vfs_remove, vfs_del and vfs_mount), until a   *)
(* program uses a node that another deleted or mounted over.                *)
THEOREM ListsAreRight == TreeSpec => []ListsOK
<1>1. TreeInv => ListsOK
  BY InvGivesTypes, SoundGivesLists DEF TreeInv, TypesOK
<1> QED
  BY <1>1, InvHolds, PTL

(* A path leads to one node, however many programs and servers look for one  *)
(* name in one call and add it, mount over it or delete it in another        *)
(* (sys_vfs_add, vfs_mount, vfs_del), until one uses a node that is gone.   *)
THEOREM NamesAreUnique == TreeSpec => []NamesUnique
<1>1. TreeInv => NamesUnique
  BY SoundGivesNames DEF TreeInv, TypesOK
<1> QED
  BY <1>1, InvHolds, PTL

(* Requests for a node reach the server that it was made for                 *)
(* (vfs_get_mount against the mount.pid of vfs_create and do_mount), with    *)
(* any servers and programs on one name, until one uses a node that is gone. *)
THEOREM RequestsAreRouted == TreeSpec => []Routed
<1>1. TreeInv => Routed
  BY InvGivesRouted DEF TreeInv
<1> QED
  BY <1>1, InvHolds, PTL

-----------------------------------------------------------------------------
(* The files that are open.                                                 *)

Messages == [cmd : {"open"}, from : Slots, node : Nodes]
            \cup [cmd : {"closed"}, from : Slots, fd : Fds]

OpenOf(m, p) == m.cmd = "open" /\ m.from = p
ClosedOf(m, p) == m.cmd = "closed" /\ m.from = p

(* The descriptors that the messages of q say are closed.                  *)
ToCloseIn(q) == {<<q[i].fd, q[i].from>> : i \in {j \in DOMAIN q : q[j].cmd = "closed"}}

ChannelOK ==
    /\ queue \in Seq(Messages)
    /\ opening \in {NoOpening} \cup [from : Slots, fd : Fds]

(* Who is not alive has no files, and what the server gave and was not      *)
(* closed is there.                                                        *)
TablesOK ==
    /\ \A p \in Slots \ alive : files[p] = NoFiles
    /\ \A p \in Slots, fd \in Fds : <<fd, p>> \in byOpen => files[p][fd] # None

(* A process whose OPEN is in the queue waits for the answer, ...           *)
AskerWaits == \A p \in Slots \ haunted : Asks(p, queue) => p \in waiting

(* ... so that its OPEN is the last that the server hears of it.            *)
LastWord(q, S) ==
    \A p \in S : \A i, j \in DOMAIN q : OpenOf(q[i], p) /\ ClosedOf(q[j], p) => j < i

QueueOK == AskerWaits /\ LastWord(queue, Slots \ haunted)

(* The second part of RefsOK.                                              *)
CountsOK ==
    \A n \in Nodes :
        LET held == Cardinality(Holders(files, n))
        IN  refs[n] >= held /\ (haunted = {} => refs[n] = held)

IInv == TypeOK /\ CountsOK /\ ViewsOK /\ ChannelOK /\ TablesOK /\ QueueOK

-----------------------------------------------------------------------------
(* Numbers and sets.                                                       *)

LEMMA FreeFacts ==
    ASSUME NEW fs, FreeFds(fs) # {}
    PROVE  Min(FreeFds(fs)) \in Fds /\ fs[Min(FreeFds(fs))] = None
<1>1. FreeFds(fs) \in SUBSET Nat
  BY FilesAssumption DEF FreeFds
<1>2. Min(FreeFds(fs)) \in FreeFds(fs)
  BY <1>1, MinFacts
<1> QED
  BY <1>2 DEF FreeFds

LEMMA SlotFacts ==
    ASSUME NEW S \in SUBSET Slots, S # {}
    PROVE  Min(S) \in S
BY MinFacts, FilesAssumption

-----------------------------------------------------------------------------
(* Messages and queues.                                                    *)

LEMMA OpenMessage ==
    ASSUME NEW p \in Slots, NEW n \in Nodes
    PROVE  LET m == [cmd |-> "open", from |-> p, node |-> n]
           IN  m \in Messages /\ m.cmd = "open" /\ m.from = p
BY DEF Messages

LEMMA ClosedMessage ==
    ASSUME NEW p \in Slots, NEW by, NEW fd \in Fds
    PROVE  LET m == Closed(p, by, fd)
           IN  m \in Messages /\ m.cmd = "closed" /\ m.from = p /\ m.fd = fd
BY DEF Messages, Closed

LEMMA MessageFacts ==
    ASSUME NEW m \in Messages
    PROVE  /\ m.cmd \in {"open", "closed"} /\ m.from \in Slots
           /\ m.cmd = "open" => m.node \in Nodes
           /\ m.cmd = "closed" => m.fd \in Fds
BY DEF Messages

(* A queue with messages behind it.                                        *)
LEMMA Behind ==
    ASSUME NEW q \in Seq(Messages), NEW t \in Seq(Messages)
    PROVE  /\ q \o t \in Seq(Messages)
           /\ \A p : Asks(p, q \o t) <=> Asks(p, q) \/ Asks(p, t)
           /\ ToCloseIn(q \o t) = ToCloseIn(q) \cup ToCloseIn(t)
           /\ \A i \in DOMAIN (q \o t) :
                 \/ i \in DOMAIN q /\ (q \o t)[i] = q[i]
                 \/ /\ i \notin DOMAIN q /\ \A k \in DOMAIN q : k < i
                    /\ \E j \in DOMAIN t : (q \o t)[i] = t[j]
<1> DEFINE s == q \o t
<1>1. /\ s \in Seq(Messages) /\ Len(s) = Len(q) + Len(t)
      /\ Len(q) \in Nat /\ Len(t) \in Nat
      /\ DOMAIN s = 1 .. Len(q) + Len(t) /\ DOMAIN q = 1 .. Len(q) /\ DOMAIN t = 1 .. Len(t)
      /\ \A i \in 1 .. Len(q) + Len(t) : s[i] = IF i <= Len(q) THEN q[i] ELSE t[i - Len(q)]
  BY ConcatProperties
<1> HIDE DEF s
<1>2. \A i \in DOMAIN q : i \in DOMAIN s /\ s[i] = q[i]
  BY <1>1
<1>3. \A j \in DOMAIN t : j + Len(q) \in DOMAIN s /\ s[j + Len(q)] = t[j]
  BY <1>1
<1>4. \A i \in DOMAIN s : \/ i \in DOMAIN q /\ s[i] = q[i]
                          \/ /\ i \notin DOMAIN q /\ \A k \in DOMAIN q : k < i
                             /\ \E j \in DOMAIN t : s[i] = t[j]
  <2> SUFFICES ASSUME NEW i \in DOMAIN s, i \notin DOMAIN q
               PROVE  (\A k \in DOMAIN q : k < i) /\ \E j \in DOMAIN t : s[i] = t[j]
    BY <1>2
  <2>1. i - Len(q) \in DOMAIN t /\ s[i] = t[i - Len(q)]
    BY <1>1
  <2>2. \A k \in DOMAIN q : k < i
    BY <1>1
  <2> QED
    BY <2>1, <2>2
<1>5. \A p : Asks(p, s) <=> Asks(p, q) \/ Asks(p, t)
  <2> SUFFICES ASSUME NEW p PROVE Asks(p, s) <=> Asks(p, q) \/ Asks(p, t)
    OBVIOUS
  <2>1. ASSUME Asks(p, s) PROVE Asks(p, q) \/ Asks(p, t)
    BY <1>4, <2>1 DEF Asks
  <2>2. ASSUME Asks(p, q) PROVE Asks(p, s)
    BY <1>2, <2>2 DEF Asks
  <2>3. ASSUME Asks(p, t) PROVE Asks(p, s)
    <3>1. PICK j \in DOMAIN t : t[j].cmd = "open" /\ t[j].from = p
      BY <2>3 DEF Asks
    <3>2. j + Len(q) \in DOMAIN s /\ s[j + Len(q)] = t[j]
      BY <1>3
    <3> QED
      BY <3>1, <3>2 DEF Asks
  <2> QED
    BY <2>1, <2>2, <2>3
<1>6. ToCloseIn(s) = ToCloseIn(q) \cup ToCloseIn(t)
  <2>1. ASSUME NEW x \in ToCloseIn(s) PROVE x \in ToCloseIn(q) \cup ToCloseIn(t)
    <3>1. PICK i \in DOMAIN s : s[i].cmd = "closed" /\ x = <<s[i].fd, s[i].from>>
      BY DEF ToCloseIn
    <3> QED
      BY <1>4, <3>1 DEF ToCloseIn
  <2>2. ASSUME NEW x \in ToCloseIn(q) PROVE x \in ToCloseIn(s)
    BY <1>2 DEF ToCloseIn
  <2>3. ASSUME NEW x \in ToCloseIn(t) PROVE x \in ToCloseIn(s)
    <3>1. PICK j \in DOMAIN t : t[j].cmd = "closed" /\ x = <<t[j].fd, t[j].from>>
      BY DEF ToCloseIn
    <3>2. j + Len(q) \in DOMAIN s /\ s[j + Len(q)] = t[j]
      BY <1>3
    <3> QED
      BY <3>1, <3>2 DEF ToCloseIn
  <2> QED
    BY <2>1, <2>2, <2>3
<1>7. /\ s \in Seq(Messages)
      /\ \A p : Asks(p, s) <=> Asks(p, q) \/ Asks(p, t)
      /\ ToCloseIn(s) = ToCloseIn(q) \cup ToCloseIn(t)
      /\ \A i \in DOMAIN s : \/ i \in DOMAIN q /\ s[i] = q[i]
                             \/ /\ i \notin DOMAIN q /\ \A k \in DOMAIN q : k < i
                                /\ \E j \in DOMAIN t : s[i] = t[j]
  BY <1>1, <1>4, <1>5, <1>6
<1> QED
  BY <1>7 DEF s

(* A process that asked has not closed anything since, and one that did not *)
(* ask may.                                                                *)
LEMMA LastWordBehind ==
    ASSUME NEW q \in Seq(Messages), NEW t \in Seq(Messages), NEW S, NEW T \in SUBSET S,
           LastWord(q, S),
           \A p \in T, j \in DOMAIN t : ClosedOf(t[j], p) => ~Asks(p, q) /\ ~Asks(p, t)
    PROVE  LastWord(q \o t, T)
<1> DEFINE s == q \o t
<1>1. \A i \in DOMAIN s : \/ i \in DOMAIN q /\ s[i] = q[i]
                          \/ /\ i \notin DOMAIN q /\ \A k \in DOMAIN q : k < i
                             /\ \E j \in DOMAIN t : s[i] = t[j]
  BY Behind
<1> HIDE DEF s
<1> SUFFICES ASSUME NEW p \in T, NEW i \in DOMAIN s, NEW j \in DOMAIN s,
                    OpenOf(s[i], p), ClosedOf(s[j], p)
             PROVE  j < i
  BY DEF LastWord, s
<1>2. CASE j \in DOMAIN q /\ s[j] = q[j]
  <2>1. CASE i \in DOMAIN q /\ s[i] = q[i]
    BY <1>2, <2>1 DEF LastWord
  <2>2. CASE \A k \in DOMAIN q : k < i
    BY <1>2, <2>2
  <2> QED
    BY <1>1, <2>1, <2>2
<1>3. CASE \E k \in DOMAIN t : s[j] = t[k]
  <2>1. ~Asks(p, q) /\ ~Asks(p, t)
    BY <1>3
  <2> QED
    BY <1>1, <2>1 DEF Asks, OpenOf
<1> QED
  BY <1>1, <1>2, <1>3

(* A queue without its first message.                                      *)
LEMMA Taken ==
    ASSUME NEW q \in Seq(Messages), q # <<>>
    PROVE  /\ Tail(q) \in Seq(Messages) /\ Head(q) \in Messages
           /\ \A p : Asks(p, Tail(q)) => Asks(p, q)
           /\ \A p : Asks(p, q) => Asks(p, Tail(q)) \/ OpenOf(Head(q), p)
           /\ \A p : OpenOf(Head(q), p) => Asks(p, q)
           /\ ToCloseIn(q) = ToCloseIn(Tail(q)) \cup
                 (IF Head(q).cmd = "closed" THEN {<<Head(q).fd, Head(q).from>>} ELSE {})
           /\ \A S : LastWord(q, S) =>
                 /\ LastWord(Tail(q), S)
                 /\ \A p \in S, j \in DOMAIN Tail(q) :
                       OpenOf(Head(q), p) => ~ClosedOf(Tail(q)[j], p)
<1> DEFINE h == Head(q)
           t == Tail(q)
<1>1. /\ t \in Seq(Messages) /\ h \in Messages /\ h = q[1]
      /\ Len(q) \in Nat \ {0} /\ Len(t) = Len(q) - 1
      /\ DOMAIN q = 1 .. Len(q) /\ DOMAIN t = 1 .. Len(q) - 1
      /\ \A i \in 1 .. Len(q) - 1 : t[i] = q[i + 1]
  OBVIOUS
<1> HIDE DEF h, t
<1>2. \A i \in DOMAIN t : i + 1 \in DOMAIN q /\ t[i] = q[i + 1] /\ i + 1 > 1
  BY <1>1
<1>3. 1 \in DOMAIN q /\ q[1] = h
  BY <1>1
<1>4. \A j \in DOMAIN q : j = 1 \/ (j - 1 \in DOMAIN t /\ q[j] = t[j - 1])
  <2> SUFFICES ASSUME NEW j \in 1 .. Len(q), j # 1
               PROVE  j - 1 \in 1 .. Len(q) - 1 /\ q[j] = t[j - 1]
    BY <1>1
  <2>1. j - 1 \in 1 .. Len(q) - 1 /\ (j - 1) + 1 = j
    BY <1>1
  <2> QED
    BY <2>1, <1>1
<1>5. \A p : Asks(p, t) => Asks(p, q)
  BY <1>2 DEF Asks
<1>6. \A p : Asks(p, q) => Asks(p, t) \/ OpenOf(h, p)
  BY <1>3, <1>4 DEF Asks, OpenOf
<1>7. \A p : OpenOf(h, p) => Asks(p, q)
  BY <1>3 DEF Asks, OpenOf
<1>8. ToCloseIn(q) = ToCloseIn(t) \cup (IF h.cmd = "closed" THEN {<<h.fd, h.from>>} ELSE {})
  <2>1. ASSUME NEW x \in ToCloseIn(q)
        PROVE  x \in ToCloseIn(t) \/ (h.cmd = "closed" /\ x = <<h.fd, h.from>>)
    <3>1. PICK j \in DOMAIN q : q[j].cmd = "closed" /\ x = <<q[j].fd, q[j].from>>
      BY DEF ToCloseIn
    <3>2. CASE j = 1
      BY <1>3, <3>1, <3>2
    <3>3. CASE j - 1 \in DOMAIN t /\ q[j] = t[j - 1]
      BY <3>1, <3>3 DEF ToCloseIn
    <3> QED
      BY <1>4, <3>2, <3>3
  <2>2. ASSUME NEW x \in ToCloseIn(t) PROVE x \in ToCloseIn(q)
    <3>1. PICK i \in DOMAIN t : t[i].cmd = "closed" /\ x = <<t[i].fd, t[i].from>>
      BY DEF ToCloseIn
    <3>2. i + 1 \in DOMAIN q /\ t[i] = q[i + 1]
      BY <1>2
    <3> QED
      BY <3>1, <3>2 DEF ToCloseIn
  <2>3. h.cmd = "closed" => <<h.fd, h.from>> \in ToCloseIn(q)
    BY <1>3 DEF ToCloseIn
  <2> QED
    BY <2>1, <2>2, <2>3
<1>9. ASSUME NEW S, LastWord(q, S)
      PROVE  /\ LastWord(t, S)
             /\ \A p \in S, j \in DOMAIN t : OpenOf(h, p) => ~ClosedOf(t[j], p)
  <2>1. LastWord(t, S)
    <3> SUFFICES ASSUME NEW p \in S, NEW i \in DOMAIN t, NEW j \in DOMAIN t,
                        OpenOf(t[i], p), ClosedOf(t[j], p)
                 PROVE  j < i
      BY DEF LastWord
    <3>1. j + 1 < i + 1
      BY <1>2, <1>9 DEF LastWord
    <3> QED
      BY <3>1, <1>1
  <2>2. ASSUME NEW p \in S, NEW j \in DOMAIN t, OpenOf(h, p), ClosedOf(t[j], p)
        PROVE  FALSE
    <3>1. j + 1 < 1
      BY <1>2, <1>3, <1>9, <2>2 DEF LastWord
    <3> QED
      BY <3>1, <1>1
  <2> QED
    BY <2>1, <2>2
<1>10. /\ t \in Seq(Messages) /\ h \in Messages
       /\ \A p : Asks(p, t) => Asks(p, q)
       /\ \A p : Asks(p, q) => Asks(p, t) \/ OpenOf(h, p)
       /\ \A p : OpenOf(h, p) => Asks(p, q)
       /\ ToCloseIn(q) = ToCloseIn(t) \cup
             (IF h.cmd = "closed" THEN {<<h.fd, h.from>>} ELSE {})
       /\ \A S : LastWord(q, S) =>
             /\ LastWord(t, S)
             /\ \A p \in S, j \in DOMAIN t : OpenOf(h, p) => ~ClosedOf(t[j], p)
  BY <1>1, <1>5, <1>6, <1>7, <1>8, <1>9
<1> QED
  BY <1>10 DEF h, t

LEMMA SeqIntro ==
    ASSUME NEW M, NEW n \in Nat, NEW t \in [1 .. n -> M]
    PROVE  t \in Seq(M)
BY SeqDef

(* The messages of a vfs_close of some descriptors: each of them, once.     *)
LEMMA ClosedMessages ==
    ASSUME NEW p \in Slots, NEW by, NEW S \in SUBSET Fds,
           NEW order \in [1 .. Cardinality(S) -> S],
           \A i, j \in DOMAIN order : i < j => order[i] < order[j]
    PROVE  LET t == AllClosed(p, by, order)
           IN  /\ t \in Seq(Messages)
               /\ \A j \in DOMAIN t : \A r : ClosedOf(t[j], r) => r = p
               /\ \A r : ~Asks(r, t)
               /\ ToCloseIn(t) = {<<fd, p>> : fd \in S}
<1> DEFINE n == Cardinality(S)
           t == AllClosed(p, by, order)
<1>1. IsFiniteSet(S) /\ n \in Nat /\ S \subseteq Nat
  BY FS_Subset, FS_CardinalityType, FilesAssumption
<1>2. IsFiniteSet(1 .. n) /\ Cardinality(1 .. n) = n
  BY <1>1, FS_Interval
<1>3. order \in Injection(1 .. n, S)
  <2>1. \A i \in 1 .. n : order[i] \in S /\ order[i] \in Nat
    BY <1>1
  <2>2. \A i, j \in 1 .. n : i < j => order[i] < order[j]
    OBVIOUS
  <2>3. ASSUME NEW i \in 1 .. n, NEW j \in 1 .. n, order[i] = order[j]
        PROVE  i = j
    BY <1>1, <2>1, <2>2, <2>3
  <2> QED
    BY <2>3 DEF Injection, IsInjective
<1>4. order \in Surjection(1 .. n, S)
  BY <1>1, <1>2, <1>3, FS_Injection
<1>5. /\ DOMAIN order = 1 .. n
      /\ \A i \in 1 .. n : order[i] \in S
      /\ \A fd \in S : \E i \in 1 .. n : order[i] = fd
  BY <1>4 DEF Surjection
<1>6. /\ DOMAIN t = 1 .. n /\ \A i \in 1 .. n : t[i] = Closed(p, by, order[i])
      /\ t = [i \in 1 .. n |-> t[i]]
  BY <1>5 DEF AllClosed
<1> HIDE DEF n, t
<1>7. \A i \in 1 .. n : /\ t[i] \in Messages /\ t[i].cmd = "closed"
                        /\ t[i].from = p /\ t[i].fd = order[i]
  <2> SUFFICES ASSUME NEW i \in 1 .. n
               PROVE  /\ t[i] \in Messages /\ t[i].cmd = "closed"
                      /\ t[i].from = p /\ t[i].fd = order[i]
    OBVIOUS
  <2>1. order[i] \in Fds
    BY <1>5
  <2> QED
    BY <1>6, <2>1, ClosedMessage
<1>8. t \in Seq(Messages)
  <2>1. t \in [1 .. n -> Messages]
    BY <1>6, <1>7
  <2> QED
    BY <1>1, <2>1, SeqIntro
<1>9. (\A j \in DOMAIN t : \A r : ClosedOf(t[j], r) => r = p) /\ \A r : ~Asks(r, t)
  BY <1>6, <1>7 DEF ClosedOf, Asks
<1>10. ToCloseIn(t) = {<<fd, p>> : fd \in S}
  <2>1. ASSUME NEW x \in ToCloseIn(t) PROVE x \in {<<fd, p>> : fd \in S}
    <3>1. PICK i \in DOMAIN t : x = <<t[i].fd, t[i].from>>
      BY DEF ToCloseIn
    <3>2. i \in 1 .. n /\ x = <<order[i], p>> /\ order[i] \in S
      BY <1>5, <1>6, <1>7, <3>1
    <3> QED
      BY <3>2
  <2>2. ASSUME NEW fd \in S PROVE <<fd, p>> \in ToCloseIn(t)
    <3>1. PICK i \in 1 .. n : order[i] = fd
      BY <1>5
    <3> QED
      BY <1>6, <1>7, <3>1 DEF ToCloseIn
  <2> QED
    BY <2>1, <2>2
<1> QED
  BY <1>8, <1>9, <1>10 DEF t

-----------------------------------------------------------------------------
(* Counting.                                                               *)

LEMMA HoldersFinite ==
    ASSUME NEW S \in SUBSET (Slots \X Fds)
    PROVE  IsFiniteSet(S) /\ Cardinality(S) \in Nat
<1>1. IsFiniteSet(Slots \X Fds)
  BY FS_Product, FilesAssumption
<1> QED
  BY <1>1, FS_Subset, FS_CardinalityType

LEMMA FdsFinite ==
    ASSUME NEW S \in SUBSET Fds
    PROVE  IsFiniteSet(S) /\ Cardinality(S) \in Nat
BY FS_Subset, FS_CardinalityType, FilesAssumption

(* The descriptors S of p, counted as pairs.                               *)
LEMMA PairCount ==
    ASSUME NEW p \in Slots, NEW S \in SUBSET Fds
    PROVE  LET P == {d \in Slots \X Fds : d[1] = p /\ d[2] \in S}
           IN  Cardinality(P) = Cardinality(S)
<1> DEFINE P == {d \in Slots \X Fds : d[1] = p /\ d[2] \in S}
           F == [fd \in S |-> <<p, fd>>]
<1>1. F \in [S -> P] /\ \A d \in P : \E fd \in S : F[fd] = d
  OBVIOUS
<1>2. \A a, b \in S : F[a] = F[b] => a = b
  OBVIOUS
<1> HIDE DEF P, F
<1>3. F \in Bijection(S, P)
  BY <1>1, <1>2 DEF Bijection, Injection, Surjection, IsInjective
<1>4. Cardinality(P) = Cardinality(S)
  BY <1>3, FdsFinite, FS_Bijection DEF ExistsBijection
<1> QED
  BY <1>4 DEF P

FileTables == [Slots -> [Fds -> Nodes \cup {None}]]

OneSet(fs, gs, p, fd, v) ==
    \A q \in Slots, f \in Fds : gs[q][f] = IF q = p /\ f = fd THEN v ELSE fs[q][f]
Cloned(fs, gs, p, c) == \A q \in Slots : gs[q] = IF q = c THEN fs[p] ELSE fs[q]
AreClosed(fs, gs, p, S) ==
    \A q \in Slots, f \in Fds : gs[q][f] = IF q = p /\ f \in S THEN None ELSE fs[q][f]

(* One descriptor is set.                                                  *)
LEMMA HoldersSet ==
    ASSUME NEW fs \in FileTables, NEW gs \in FileTables, NEW p \in Slots, NEW fd \in Fds,
           NEW v \in Nodes \cup {None}, NEW n \in Nodes,
           OneSet(fs, gs, p, fd, v)
    PROVE  Cardinality(Holders(gs, n)) =
             Cardinality(Holders(fs, n)) - (IF fs[p][fd] = n THEN 1 ELSE 0)
                                         + (IF v = n THEN 1 ELSE 0)
<1> DEFINE A == Holders(fs, n)
           B == Holders(gs, n)
           x == <<p, fd>>
<1>1. \A d \in Slots \X Fds : gs[d[1]][d[2]] = IF d = x THEN v ELSE fs[d[1]][d[2]]
  BY DEF OneSet
<1>2. x \in Slots \X Fds /\ (x \in A <=> fs[p][fd] = n)
  BY DEF Holders
<1>3. B = IF v = n THEN A \cup {x} ELSE A \ {x}
  BY <1>1, <1>2 DEF Holders
<1>4. IsFiniteSet(A) /\ Cardinality(A) \in Nat
  BY HoldersFinite DEF Holders
<1> HIDE DEF A, B, x
<1>5. CASE v = n
  <2>1. Cardinality(B) = IF x \in A THEN Cardinality(A) ELSE Cardinality(A) + 1
    BY <1>3, <1>4, <1>5, FS_AddElement
  <2>2. Cardinality(B) = Cardinality(A) - (IF fs[p][fd] = n THEN 1 ELSE 0) + 1
    BY <1>2, <1>4, <2>1
  <2> QED
    BY <1>5, <2>2 DEF A, B
<1>6. CASE v # n
  <2>1. Cardinality(B) = IF x \in A THEN Cardinality(A) - 1 ELSE Cardinality(A)
    BY <1>3, <1>4, <1>6, FS_RemoveElement
  <2>2. Cardinality(B) = Cardinality(A) - (IF fs[p][fd] = n THEN 1 ELSE 0) + 0
    BY <1>2, <1>4, <2>1
  <2> QED
    BY <1>6, <2>2 DEF A, B
<1> QED
  BY <1>5, <1>6

(* Descriptors of p are closed.                                            *)
LEMMA HoldersClosed ==
    ASSUME NEW fs \in FileTables, NEW gs \in FileTables, NEW p \in Slots,
           NEW S \in SUBSET Fds, NEW n \in Nodes, AreClosed(fs, gs, p, S)
    PROVE  Cardinality(Holders(gs, n)) =
             Cardinality(Holders(fs, n)) - Cardinality({fd \in S : fs[p][fd] = n})
<1> DEFINE A == Holders(fs, n)
           B == Holders(gs, n)
           T == {fd \in S : fs[p][fd] = n}
           P == {d \in Slots \X Fds : d[1] = p /\ d[2] \in T}
<1>1. T \in SUBSET Fds /\ P \subseteq A
  BY DEF Holders
<1>2. B = A \ P
  <2>1. n # None
    BY FilesAssumption
  <2>2. \A d \in Slots \X Fds :
            gs[d[1]][d[2]] = IF d[1] = p /\ d[2] \in S THEN None ELSE fs[d[1]][d[2]]
    BY DEF AreClosed
  <2>3. \A d \in Slots \X Fds : d \in P <=> d[1] = p /\ d[2] \in S /\ fs[d[1]][d[2]] = n
    OBVIOUS
  <2> HIDE DEF P, T
  <2> QED
    BY <2>1, <2>2, <2>3 DEF Holders
<1>3. IsFiniteSet(A) /\ Cardinality(A) \in Nat
  BY HoldersFinite DEF Holders
<1>4. Cardinality(P) = Cardinality(T)
  BY <1>1, PairCount
<1> HIDE DEF A, B, P
<1>5. A \cap P = P
  BY <1>1
<1>6. Cardinality(A \ P) = Cardinality(A) - Cardinality(P)
  BY <1>3, <1>5, FS_Difference
<1> QED
  BY <1>2, <1>4, <1>6 DEF A, B

(* The files of p are cloned for c, which had none.                        *)
LEMMA HoldersCloned ==
    ASSUME NEW fs \in FileTables, NEW gs \in FileTables, NEW p \in Slots, NEW c \in Slots,
           NEW n \in Nodes, fs[c] = NoFiles, Cloned(fs, gs, p, c)
    PROVE  Cardinality(Holders(gs, n)) = Cardinality(Holders(fs, n)) + Count(fs[p], n)
<1> DEFINE A == Holders(fs, n)
           B == Holders(gs, n)
           T == {fd \in Fds : fs[p][fd] = n}
           P == {d \in Slots \X Fds : d[1] = c /\ d[2] \in T}
<1>1. \A d \in Slots \X Fds :
          /\ gs[d[1]][d[2]] = IF d[1] = c THEN fs[p][d[2]] ELSE fs[d[1]][d[2]]
          /\ d \in P <=> d[1] = c /\ fs[p][d[2]] = n
          /\ d[1] = c => fs[d[1]][d[2]] # n
  <2>1. \A d \in Slots \X Fds : d[1] = c => fs[d[1]][d[2]] # n
    <3>1. n # None
      BY FilesAssumption
    <3>2. \A fd \in Fds : fs[c][fd] = None
      BY DEF NoFiles
    <3> QED
      BY <3>1, <3>2
  <2>2. \A d \in Slots \X Fds : d \in P <=> d[1] = c /\ fs[p][d[2]] = n
    OBVIOUS
  <2>3. \A q \in Slots : gs[q] = IF q = c THEN fs[p] ELSE fs[q]
    BY DEF Cloned
  <2> HIDE DEF P
  <2> QED
    BY <2>1, <2>2, <2>3
<1>2. Cardinality(P) = Cardinality(T)
  BY PairCount
<1>3. P \subseteq Slots \X Fds
  OBVIOUS
<1> HIDE DEF P
<1>4. B = A \cup P /\ A \cap P = {}
  BY <1>1, <1>3 DEF Holders
<1>5. /\ IsFiniteSet(A) /\ Cardinality(A) \in Nat
      /\ IsFiniteSet(P) /\ Cardinality(P) \in Nat
  BY <1>3, HoldersFinite DEF Holders
<1> HIDE DEF A, B, T
<1>6. Cardinality(A \cup P) = Cardinality(A) + Cardinality(P) - Cardinality(A \cap P)
  BY <1>5, FS_Union
<1>7. Cardinality(A \cap P) = 0
  BY <1>4, FS_EmptySet
<1>8. Cardinality(B) = Cardinality(A) + Cardinality(T)
  BY <1>2, <1>4, <1>5, <1>6, <1>7
<1> QED
  BY <1>8 DEF A, B, T, Count

-----------------------------------------------------------------------------
(* What the parts of IInv say, and what keeps them.                        *)

(* refs goes with the number of descriptors.                               *)
LEMMA CountsKept ==
    ASSUME TypeOK, CountsOK, files' \in FileTables, DOMAIN refs' = Nodes,
           refs' = [n \in Nodes |-> refs'[n]],
           \A n \in Nodes :
               refs'[n] = refs[n] + (Cardinality(Holders(files', n)) - Cardinality(Holders(files, n))),
           haunted' = {} => haunted = {}
    PROVE  refs' \in [Nodes -> Nat] /\ CountsOK'
<1>1. \A n \in Nodes : /\ Cardinality(Holders(files, n)) \in Nat
                       /\ Cardinality(Holders(files', n)) \in Nat
                       /\ refs[n] \in Nat
  BY HoldersFinite DEF Holders, TypeOK
<1>2. ASSUME NEW n \in Nodes
      PROVE  /\ refs'[n] \in Nat
             /\ refs'[n] >= Cardinality(Holders(files', n))
             /\ haunted' = {} => refs'[n] = Cardinality(Holders(files', n))
  <2> DEFINE a == Cardinality(Holders(files, n))
             b == Cardinality(Holders(files', n))
  <2>1. a \in Nat /\ b \in Nat /\ refs[n] \in Nat /\ refs'[n] = refs[n] + (b - a)
        /\ refs[n] >= a /\ (haunted = {} => refs[n] = a)
    BY <1>1 DEF CountsOK
  <2> HIDE DEF a, b
  <2>2. refs'[n] \in Nat /\ refs'[n] >= b /\ (haunted' = {} => refs'[n] = b)
    BY <2>1
  <2> QED
    BY <2>2 DEF b
<1> QED
  BY <1>2 DEF CountsOK

LEMMA CountsSame ==
    ASSUME CountsOK, files' = files, refs' = refs, haunted' = {} => haunted = {}
    PROVE  CountsOK'
BY DEF CountsOK

LEMMA ToCloseIs == ToClose = ToCloseIn(queue) /\ ToClose' = ToCloseIn(queue')
BY DEF ToClose, ToCloseIn

(* What is closed is on its way to the server.                             *)
LEMMA ViewsClosed ==
    ASSUME ViewsOK, NEW X, ToClose' = ToClose \cup X, byOpen' = byOpen \ X,
           Knows' = Knows, haunted \subseteq haunted'
    PROVE  ViewsOK'
BY DEF ViewsOK

LEMMA ViewsSame ==
    ASSUME ViewsOK, ToClose' = ToClose, byOpen' = byOpen, Knows' = Knows,
           haunted \subseteq haunted'
    PROVE  ViewsOK'
BY DEF ViewsOK

LEMMA KnowsSame ==
    ASSUME UNCHANGED server
    PROVE  Knows' = Knows /\ opening' = opening /\ views' = views
BY DEF server, Knows

(* vfs_close of some descriptors of a process that did not ask, or that     *)
(* will not hear the answer.                                               *)
LEMMA QueueClosed ==
    ASSUME ChannelOK, LastWord(queue, Slots \ haunted),
           NEW p \in Slots, NEW by, NEW S \in SUBSET Fds, CloseAll(p, by, S),
           haunted \subseteq haunted', p \notin haunted' => ~Asks(p, queue)
    PROVE  /\ queue' \in Seq(Messages)
           /\ \A r : Asks(r, queue') <=> Asks(r, queue)
           /\ ToClose' = ToClose \cup {<<fd, p>> : fd \in S}
           /\ LastWord(queue', Slots \ haunted')
<1>1. PICK order \in [1 .. Cardinality(S) -> S] :
          /\ \A i, j \in DOMAIN order : i < j => order[i] < order[j]
          /\ queue' = queue \o AllClosed(p, by, order)
  BY DEF CloseAll
<1> DEFINE t == AllClosed(p, by, order)
<1>2. /\ t \in Seq(Messages)
      /\ \A j \in DOMAIN t : \A r : ClosedOf(t[j], r) => r = p
      /\ \A r : ~Asks(r, t)
      /\ ToCloseIn(t) = {<<fd, p>> : fd \in S}
  BY <1>1, ClosedMessages
<1>3. queue' = queue \o t
  BY <1>1
<1> HIDE DEF t
<1>4. queue \in Seq(Messages)
  BY DEF ChannelOK
<1>5. /\ queue \o t \in Seq(Messages)
      /\ \A r : Asks(r, queue \o t) <=> Asks(r, queue) \/ Asks(r, t)
      /\ ToCloseIn(queue \o t) = ToCloseIn(queue) \cup ToCloseIn(t)
  BY <1>2, <1>4, Behind
<1>6. LastWord(queue \o t, Slots \ haunted')
  <2>1. \A r \in Slots \ haunted', j \in DOMAIN t :
            ClosedOf(t[j], r) => ~Asks(r, queue) /\ ~Asks(r, t)
    BY <1>2
  <2>2. Slots \ haunted' \in SUBSET (Slots \ haunted)
    OBVIOUS
  <2> QED
    BY <1>2, <1>4, <2>1, <2>2, LastWordBehind
<1> QED
  BY <1>2, <1>3, <1>5, <1>6, ToCloseIs

-----------------------------------------------------------------------------
(* IInv holds at the start and after each action.                          *)

LEMMA InitIInv == Init => IInv
<1> SUFFICES ASSUME Init PROVE IInv
  OBVIOUS
<1>1. Min(Slots) \in Slots
  BY SlotFacts, FilesAssumption
<1>2. TypeOK
  BY <1>1 DEF Init, TypeOK, NoFiles
<1>3. CountsOK
  <2> SUFFICES ASSUME NEW n \in Nodes
               PROVE  refs[n] = 0 /\ Cardinality(Holders(files, n)) = 0
    BY DEF CountsOK
  <2>1. Holders(files, n) = {}
    BY FilesAssumption DEF Init, Holders, NoFiles
  <2> QED
    BY <2>1, FS_EmptySet DEF Init
<1>4. queue \in Seq(Messages) /\ DOMAIN queue = {}
  BY DEF Init
<1>5. ViewsOK
  BY <1>4 DEF Init, ViewsOK, Knows, ToClose
<1>6. ChannelOK /\ TablesOK /\ QueueOK
  BY <1>4 DEF Init, ChannelOK, TablesOK, QueueOK, AskerWaits, LastWord, Asks
<1> QED
  BY <1>2, <1>3, <1>5, <1>6 DEF IInv

LEMMA OpenIInv ==
    ASSUME IInv, NEW p \in Slots, NEW n \in Nodes, Open(p, n)
    PROVE  IInv'
<1> DEFINE m == [cmd |-> "open", from |-> p, node |-> n]
<1>1. TypeOK /\ CountsOK /\ ViewsOK /\ ChannelOK /\ TablesOK /\ QueueOK
  BY DEF IInv
<1>2. m \in Messages /\ m.cmd = "open" /\ m.from = p
  BY OpenMessage
<1>3. /\ p \in alive /\ waiting' = waiting \cup {p} /\ queue' = Append(queue, m)
      /\ alive' = alive /\ files' = files /\ refs' = refs /\ byOpen' = byOpen
      /\ haunted' = haunted /\ UNCHANGED server
  BY DEF Open, Runs
<1> HIDE DEF m
<1> DEFINE t == <<m>>
<1>4. /\ queue \in Seq(Messages) /\ t \in Seq(Messages) /\ queue' = queue \o t
      /\ DOMAIN t = {1} /\ t[1] = m
  BY <1>1, <1>2, <1>3 DEF ChannelOK
<1> HIDE DEF t
<1>5. /\ \A r : Asks(r, t) => r = p
      /\ ToCloseIn(t) = {}
      /\ \A r : \A j \in DOMAIN t : ~ClosedOf(t[j], r)
  BY <1>2, <1>4 DEF Asks, ToCloseIn, ClosedOf
<1>6. /\ queue' \in Seq(Messages)
      /\ \A r : Asks(r, queue') <=> Asks(r, queue) \/ Asks(r, t)
      /\ ToCloseIn(queue') = ToCloseIn(queue)
  <2>1. /\ queue \o t \in Seq(Messages)
        /\ \A r : Asks(r, queue \o t) <=> Asks(r, queue) \/ Asks(r, t)
        /\ ToCloseIn(queue \o t) = ToCloseIn(queue) \cup ToCloseIn(t)
    BY <1>4, Behind
  <2> QED
    BY <1>4, <1>5, <2>1
<1>7. LastWord(queue', Slots \ haunted')
  <2>1. \A r \in Slots \ haunted : \A j \in DOMAIN t :
            ClosedOf(t[j], r) => ~Asks(r, queue) /\ ~Asks(r, t)
    BY <1>5
  <2> QED
    BY <1>1, <1>3, <1>4, <2>1, LastWordBehind DEF QueueOK
<1>8. TypeOK'
  BY <1>1, <1>3, KnowsSame DEF TypeOK
<1>9. ViewsOK'
  BY <1>1, <1>3, <1>6, KnowsSame, ToCloseIs, ViewsSame
<1>10. CountsOK' /\ TablesOK' /\ ChannelOK'
  BY <1>1, <1>3, <1>6, CountsSame, KnowsSame DEF TablesOK, ChannelOK
<1>11. AskerWaits'
  BY <1>1, <1>3, <1>5, <1>6 DEF QueueOK, AskerWaits
<1> QED
  BY <1>7, <1>8, <1>9, <1>10, <1>11 DEF QueueOK, IInv

(* A close: the same for the count, the queue, the views, whether the       *)
(* process that has the descriptors goes on or ends.                       *)
LEMMA ClosingKeeps ==
    ASSUME IInv, NEW p \in Slots, NEW by, NEW S \in SUBSET Fds, CloseAll(p, by, S),
           AreClosed(files, files', p, S),
           files' \in FileTables, haunted \subseteq haunted',
           p \notin haunted' => ~Asks(p, queue), UNCHANGED server
    PROVE  /\ refs' \in [Nodes -> Nat] /\ CountsOK' /\ ViewsOK' /\ ChannelOK'
           /\ \A r : Asks(r, queue') <=> Asks(r, queue)
           /\ LastWord(queue', Slots \ haunted')
           /\ byOpen' \subseteq byOpen
           /\ \A fd \in S : <<fd, p>> \notin byOpen'
<1>1. TypeOK /\ CountsOK /\ ViewsOK /\ ChannelOK /\ LastWord(queue, Slots \ haunted)
  BY DEF IInv, QueueOK
<1>2. /\ queue' \in Seq(Messages)
      /\ \A r : Asks(r, queue') <=> Asks(r, queue)
      /\ ToClose' = ToClose \cup {<<fd, p>> : fd \in S}
      /\ LastWord(queue', Slots \ haunted')
  BY <1>1, QueueClosed
<1>3. /\ refs' = [n \in Nodes |-> refs[n] - Cardinality({fd \in S : files[p][fd] = n})]
      /\ byOpen' = byOpen \ {<<fd, p>> : fd \in S}
  BY DEF CloseAll
<1>7. files \in FileTables
  BY <1>1 DEF TypeOK, FileTables
<1>4. refs' \in [Nodes -> Nat] /\ CountsOK'
  <2>1. ASSUME NEW n \in Nodes
        PROVE  refs'[n] = refs[n] + (Cardinality(Holders(files', n)) - Cardinality(Holders(files, n)))
    <3>1. Cardinality(Holders(files', n)) =
            Cardinality(Holders(files, n)) - Cardinality({fd \in S : files[p][fd] = n})
      BY <1>7, HoldersClosed
    <3>2. refs'[n] = refs[n] - Cardinality({fd \in S : files[p][fd] = n})
      BY <1>3
    <3>3. refs[n] \in Nat /\ Cardinality(Holders(files, n)) \in Nat
      BY <1>1, HoldersFinite DEF Holders, TypeOK
    <3>4. Cardinality({fd \in S : files[p][fd] = n}) \in Nat
      BY FdsFinite
    <3> QED
      BY <3>1, <3>2, <3>3, <3>4
  <2>2. refs' = [n \in Nodes |-> refs'[n]] /\ DOMAIN refs' = Nodes
    BY <1>3
  <2>3. haunted' = {} => haunted = {}
    OBVIOUS
  <2> QED
    BY <1>1, <2>1, <2>2, <2>3, CountsKept
<1>5. ViewsOK' /\ ChannelOK'
  BY <1>1, <1>2, <1>3, KnowsSame, ViewsClosed DEF ChannelOK
<1>6. byOpen' \subseteq byOpen /\ \A fd \in S : <<fd, p>> \notin byOpen'
  BY <1>3
<1> QED
  BY <1>2, <1>4, <1>5, <1>6

LEMMA CloseIInv ==
    ASSUME IInv, NEW p \in Slots, NEW fd \in Fds, Close(p, fd)
    PROVE  IInv'
<1>1. TypeOK /\ TablesOK /\ AskerWaits
  BY DEF IInv, QueueOK
<1>2. /\ p \in alive /\ p \notin waiting /\ CloseAll(p, p, {fd})
      /\ files' = [files EXCEPT ![p][fd] = None]
      /\ alive' = alive /\ waiting' = waiting /\ haunted' = haunted /\ UNCHANGED server
  BY DEF Close, Runs
<1>3. /\ files' \in FileTables
      /\ AreClosed(files, files', p, {fd})
  BY <1>1, <1>2 DEF FileTables, TypeOK, AreClosed
<1>4. p \notin haunted' => ~Asks(p, queue)
  BY <1>1, <1>2 DEF AskerWaits
<1>5. /\ refs' \in [Nodes -> Nat] /\ CountsOK' /\ ViewsOK' /\ ChannelOK'
      /\ \A r : Asks(r, queue') <=> Asks(r, queue)
      /\ LastWord(queue', Slots \ haunted')
      /\ byOpen' \subseteq byOpen
      /\ \A f \in {fd} : <<f, p>> \notin byOpen'
  BY <1>2, <1>3, <1>4, ClosingKeeps
<1>6. TypeOK'
  BY <1>1, <1>2, <1>3, <1>5, KnowsSame DEF TypeOK, FileTables
<1>7. TablesOK'
  <2>1. \A q \in Slots \ alive' : files'[q] = NoFiles
    BY <1>1, <1>2 DEF TablesOK, TypeOK
  <2>2. \A q \in Slots, f \in Fds : <<f, q>> \in byOpen' => files'[q][f] # None
    BY <1>1, <1>3, <1>5 DEF TablesOK, AreClosed
  <2> QED
    BY <2>1, <2>2 DEF TablesOK
<1>8. AskerWaits'
  BY <1>1, <1>2, <1>5 DEF AskerWaits
<1> QED
  BY <1>5, <1>6, <1>7, <1>8 DEF IInv, QueueOK

LEMMA EndIInv ==
    ASSUME IInv, NEW p \in Slots, NEW by \in Slots, End(p, by)
    PROVE  IInv'
<1> DEFINE S == Has(files[p])
<1>1. TypeOK /\ TablesOK /\ AskerWaits
  BY DEF IInv, QueueOK
<1>2. /\ p \in alive /\ CloseAll(p, by, S)
      /\ files' = [files EXCEPT ![p] = NoFiles]
      /\ alive' = alive \ {p} /\ waiting' = waiting \ {p} /\ UNCHANGED server
      /\ haunted \subseteq haunted' /\ haunted' \subseteq haunted \cup {p}
      /\ p \notin haunted' => ~Asks(p, queue)
  BY DEF End
<1>3. S \in SUBSET Fds
  BY DEF Has
<1>4. /\ files' \in FileTables
      /\ AreClosed(files, files', p, S)
  <2>1. NoFiles \in [Fds -> Nodes \cup {None}] /\ \A f \in Fds : NoFiles[f] = None
    BY DEF NoFiles
  <2>2. files \in FileTables
    BY <1>1 DEF TypeOK, FileTables
  <2>3. \A q \in Slots : files'[q] = IF q = p THEN NoFiles ELSE files[q]
    BY <1>2, <2>2 DEF FileTables
  <2>4. files' \in FileTables
    BY <1>2, <2>1, <2>2 DEF FileTables
  <2> QED
    BY <2>1, <2>3, <2>4 DEF Has, AreClosed
<1> HIDE DEF S
<1>5. /\ refs' \in [Nodes -> Nat] /\ CountsOK' /\ ViewsOK' /\ ChannelOK'
      /\ \A r : Asks(r, queue') <=> Asks(r, queue)
      /\ LastWord(queue', Slots \ haunted')
      /\ byOpen' \subseteq byOpen
      /\ \A f \in S : <<f, p>> \notin byOpen'
  BY <1>2, <1>3, <1>4, ClosingKeeps
<1>6. TypeOK'
  BY <1>1, <1>2, <1>4, <1>5, KnowsSame DEF TypeOK, FileTables
<1>7. TablesOK'
  <2>1. \A q \in Slots \ alive' : files'[q] = NoFiles
    BY <1>1, <1>2 DEF TablesOK, TypeOK
  <2>2. \A q \in Slots, f \in Fds : <<f, q>> \in byOpen' => files'[q][f] # None
    BY <1>1, <1>4, <1>5 DEF TablesOK, AreClosed
  <2> QED
    BY <2>1, <2>2 DEF TablesOK
<1>8. AskerWaits'
  BY <1>1, <1>2, <1>5 DEF AskerWaits
<1> QED
  BY <1>5, <1>6, <1>7, <1>8 DEF IInv, QueueOK

(* One more descriptor of a process that is alive, and one more reference.  *)
LEMMA GivingKeeps ==
    ASSUME TypeOK, CountsOK, TablesOK, NEW p \in alive, NEW fd \in Fds, NEW n \in Nodes,
           files[p][fd] = None, files' = [files EXCEPT ![p][fd] = n],
           refs' = [refs EXCEPT ![n] = @ + 1], alive' = alive, haunted' = haunted
    PROVE  /\ files' \in FileTables /\ refs' \in [Nodes -> Nat] /\ CountsOK'
           /\ OneSet(files, files', p, fd, n)
           /\ \A q \in Slots \ alive' : files'[q] = NoFiles
<1>1. /\ files \in FileTables /\ refs \in [Nodes -> Nat] /\ p \in Slots
      /\ n # None /\ \A k \in Nodes : k # None
  BY FilesAssumption DEF TypeOK, FileTables
<1>2. /\ files' \in FileTables
      /\ OneSet(files, files', p, fd, n)
  BY <1>1 DEF FileTables, OneSet
<1>3. ASSUME NEW k \in Nodes
      PROVE  refs'[k] = refs[k] + (Cardinality(Holders(files', k)) - Cardinality(Holders(files, k)))
  <2>1. Cardinality(Holders(files', k)) =
          Cardinality(Holders(files, k)) - (IF files[p][fd] = k THEN 1 ELSE 0)
                                         + (IF n = k THEN 1 ELSE 0)
    BY <1>1, <1>2, HoldersSet
  <2>2. Cardinality(Holders(files, k)) \in Nat /\ refs[k] \in Nat
    BY <1>1, HoldersFinite DEF Holders
  <2>3. refs'[k] = refs[k] + (IF n = k THEN 1 ELSE 0) /\ files[p][fd] # k
    BY <1>1
  <2> QED
    BY <2>1, <2>2, <2>3
<1>4. refs' = [k \in Nodes |-> refs'[k]] /\ DOMAIN refs' = Nodes /\ (haunted' = {} => haunted = {})
  BY <1>1
<1>5. refs' \in [Nodes -> Nat] /\ CountsOK'
  BY <1>2, <1>3, <1>4, CountsKept
<1>6. \A q \in Slots \ alive' : files'[q] = NoFiles
  BY <1>1 DEF TablesOK, FileTables
<1> QED
  BY <1>2, <1>5, <1>6

LEMMA DupIInv ==
    ASSUME IInv, NEW p \in Slots, NEW from \in Fds, Dup(p, from)
    PROVE  IInv'
<1> DEFINE n == files[p][from]
           fd == Min(FreeFds(files[p]))
<1>1. TypeOK /\ CountsOK /\ ViewsOK /\ ChannelOK /\ TablesOK /\ QueueOK
  BY DEF IInv
<1>2. /\ p \in alive /\ n # None /\ FreeFds(files[p]) # {}
      /\ files' = [files EXCEPT ![p][fd] = n] /\ refs' = [refs EXCEPT ![n] = @ + 1]
      /\ alive' = alive /\ waiting' = waiting /\ queue' = queue /\ byOpen' = byOpen
      /\ haunted' = haunted /\ UNCHANGED server
  BY DEF Dup, Runs
<1>3. n \in Nodes /\ fd \in Fds /\ files[p][fd] = None
  BY <1>1, <1>2, FreeFacts DEF TypeOK
<1> HIDE DEF n, fd
<1>4. /\ files' \in FileTables /\ refs' \in [Nodes -> Nat] /\ CountsOK'
      /\ OneSet(files, files', p, fd, n)
      /\ \A q \in Slots \ alive' : files'[q] = NoFiles
  BY <1>1, <1>2, <1>3, GivingKeeps
<1>5. TypeOK'
  BY <1>1, <1>2, <1>4, KnowsSame DEF TypeOK, FileTables
<1>6. TablesOK'
  <2>1. n # None
    BY <1>3, FilesAssumption
  <2> QED
    BY <1>1, <1>2, <1>4, <2>1 DEF TablesOK, OneSet
<1>7. ViewsOK' /\ ChannelOK'
  BY <1>1, <1>2, KnowsSame, ToCloseIs, ViewsSame DEF ChannelOK
<1>8. QueueOK'
  BY <1>1, <1>2 DEF QueueOK, AskerWaits
<1> QED
  BY <1>4, <1>5, <1>6, <1>7, <1>8 DEF IInv

LEMMA ForkIInv ==
    ASSUME IInv, NEW p \in Slots, Fork(p)
    PROVE  IInv'
<1> DEFINE c == Min(Slots \ alive)
<1>1. TypeOK /\ CountsOK /\ ViewsOK /\ ChannelOK /\ TablesOK /\ QueueOK
  BY DEF IInv
<1>2. /\ alive' = alive \cup {c} /\ files' = [files EXCEPT ![c] = files[p]]
      /\ refs' = [n \in Nodes |-> refs[n] + Count(files[p], n)]
      /\ waiting' = waiting /\ queue' = queue /\ byOpen' = byOpen
      /\ haunted' = haunted /\ UNCHANGED server
  BY Zenon DEF Fork
<1>3. c \in Slots /\ c \notin alive
  <2>1. alive \subseteq Slots /\ Slots # alive
    BY <1>1 DEF Fork, TypeOK
  <2>2. Slots \ alive # {} /\ Slots \ alive \in SUBSET Slots
    BY <2>1
  <2> QED
    BY <2>2, SlotFacts
<1> HIDE DEF c
<1>4. files \in FileTables /\ refs \in [Nodes -> Nat] /\ files[c] = NoFiles
  BY <1>1, <1>3 DEF TypeOK, FileTables, TablesOK
<1>5. /\ files' \in FileTables
      /\ Cloned(files, files', p, c)
  BY <1>2, <1>4 DEF FileTables, Cloned
<1>6. ASSUME NEW n \in Nodes
      PROVE  refs'[n] = refs[n] + (Cardinality(Holders(files', n)) - Cardinality(Holders(files, n)))
  <2>1. Cardinality(Holders(files', n)) = Cardinality(Holders(files, n)) + Count(files[p], n)
    BY <1>2, <1>3, <1>4, <1>5, HoldersCloned
  <2>2. Cardinality(Holders(files, n)) \in Nat /\ refs[n] \in Nat
    BY <1>4, HoldersFinite DEF Holders
  <2>3. Count(files[p], n) \in Nat
    BY FdsFinite DEF Count
  <2> QED
    BY <1>2, <2>1, <2>2, <2>3
<1>7. refs' \in [Nodes -> Nat] /\ CountsOK'
  <2>1. refs' = [n \in Nodes |-> refs'[n]] /\ DOMAIN refs' = Nodes /\ (haunted' = {} => haunted = {})
    BY <1>2
  <2> QED
    BY <1>1, <1>5, <1>6, <2>1, CountsKept
<1>8. TypeOK'
  BY <1>1, <1>2, <1>3, <1>5, <1>7, KnowsSame DEF TypeOK, FileTables
<1>9. TablesOK'
  <2>1. \A fd \in Fds : <<fd, c>> \notin byOpen
    BY <1>1, <1>3, <1>4 DEF TablesOK, NoFiles
  <2> QED
    BY <1>1, <1>2, <1>5, <2>1 DEF TablesOK, Cloned
<1>10. ViewsOK' /\ ChannelOK'
  BY <1>1, <1>2, KnowsSame, ToCloseIs, ViewsSame DEF ChannelOK
<1>11. QueueOK'
  BY <1>1, <1>2 DEF QueueOK, AskerWaits
<1> QED
  BY <1>7, <1>8, <1>9, <1>10, <1>11 DEF IInv

(* dup2 onto a descriptor that leads nowhere, or onto another one that is   *)
(* closed before.                                                          *)
LEMMA Dup2IInv ==
    ASSUME IInv, NEW p \in Slots, NEW from \in Fds, NEW to \in Fds, Dup2(p, from, to)
    PROVE  IInv'
<1> DEFINE n == files[p][from]
           m == files[p][to]
           X == IF m = None THEN {} ELSE {<<to, p>>}
<1>1. TypeOK /\ CountsOK /\ ViewsOK /\ ChannelOK /\ TablesOK /\ QueueOK
  BY DEF IInv
<1>2. /\ p \in alive /\ p \notin waiting /\ from # to
      /\ refs' = [k \in Nodes |-> refs[k] - (IF k = m THEN 1 ELSE 0)
                                          + (IF k = n THEN 1 ELSE 0)]
      /\ queue' = (IF m = None THEN queue ELSE Append(queue, Closed(p, p, to)))
      /\ byOpen' = byOpen \ {<<to, p>>}
      /\ files' = [files EXCEPT ![p][to] = n]
      /\ alive' = alive /\ waiting' = waiting /\ haunted' = haunted /\ UNCHANGED server
  BY DEF Dup2, Runs
<1>3. files \in FileTables /\ n \in Nodes \cup {None} /\ m \in Nodes \cup {None}
  BY <1>1 DEF TypeOK, FileTables
<1> HIDE DEF n
<1>4. files' \in FileTables /\ OneSet(files, files', p, to, n)
  BY <1>2, <1>3 DEF FileTables, OneSet
<1>5. ~Asks(p, queue) \/ p \in haunted
  BY <1>1, <1>2 DEF QueueOK, AskerWaits
<1>6. ASSUME NEW k \in Nodes
      PROVE  refs'[k] = refs[k] + (Cardinality(Holders(files', k)) - Cardinality(Holders(files, k)))
  <2>1. Cardinality(Holders(files', k)) =
          Cardinality(Holders(files, k)) - (IF m = k THEN 1 ELSE 0) + (IF n = k THEN 1 ELSE 0)
    BY <1>3, <1>4, HoldersSet
  <2>2. Cardinality(Holders(files, k)) \in Nat /\ refs[k] \in Nat
    BY <1>1, HoldersFinite DEF Holders, TypeOK
  <2>3. refs'[k] = refs[k] - (IF k = m THEN 1 ELSE 0) + (IF k = n THEN 1 ELSE 0)
    BY <1>2
  <2> HIDE DEF m
  <2> QED
    BY <2>1, <2>2, <2>3
<1>7. refs' \in [Nodes -> Nat] /\ CountsOK'
  <2>1. refs' = [k \in Nodes |-> refs'[k]] /\ DOMAIN refs' = Nodes /\ (haunted' = {} => haunted = {})
    BY <1>2
  <2> QED
    BY <1>1, <1>4, <1>6, <2>1, CountsKept
<1>8. /\ queue' \in Seq(Messages)
      /\ \A r : Asks(r, queue') <=> Asks(r, queue)
      /\ ToCloseIn(queue') = ToCloseIn(queue) \cup X
      /\ LastWord(queue', Slots \ haunted')
  <2>1. CASE m = None
    BY <1>1, <1>2, <2>1 DEF ChannelOK, QueueOK
  <2>2. CASE m # None
    <3> DEFINE c == Closed(p, p, to)
    <3>1. c \in Messages /\ c.cmd = "closed" /\ c.from = p /\ c.fd = to
      BY ClosedMessage
    <3>2. queue' = Append(queue, c)
      BY <1>2, <2>2
    <3> HIDE DEF c, m
    <3> DEFINE t == <<c>>
    <3>3. /\ queue \in Seq(Messages) /\ t \in Seq(Messages) /\ queue' = queue \o t
          /\ DOMAIN t = {1} /\ t[1] = c
      BY <1>1, <3>1, <3>2 DEF ChannelOK
    <3> HIDE DEF t
    <3>4. /\ \A r : ~Asks(r, t)
          /\ ToCloseIn(t) = {<<to, p>>}
          /\ \A r : \A j \in DOMAIN t : ClosedOf(t[j], r) => r = p
      BY <3>1, <3>3 DEF Asks, ToCloseIn, ClosedOf
    <3>5. /\ queue \o t \in Seq(Messages)
          /\ \A r : Asks(r, queue \o t) <=> Asks(r, queue) \/ Asks(r, t)
          /\ ToCloseIn(queue \o t) = ToCloseIn(queue) \cup ToCloseIn(t)
      BY <3>3, Behind
    <3>6. LastWord(queue \o t, Slots \ haunted)
      <4>1. \A r \in Slots \ haunted : \A j \in DOMAIN t :
                ClosedOf(t[j], r) => ~Asks(r, queue) /\ ~Asks(r, t)
        BY <1>5, <3>4
      <4> QED
        BY <1>1, <3>3, <4>1, LastWordBehind DEF QueueOK
    <3> QED
      BY <1>2, <2>2, <3>3, <3>4, <3>5, <3>6
  <2> QED
    BY <2>1, <2>2
<1>9. byOpen' = byOpen \ X
  <2>1. m = None => <<to, p>> \notin byOpen
    BY <1>1 DEF TablesOK
  <2> QED
    BY <1>2, <2>1
<1> HIDE DEF X, m
<1>10. ViewsOK' /\ ChannelOK'
  BY <1>1, <1>2, <1>8, <1>9, KnowsSame, ToCloseIs, ViewsClosed DEF ChannelOK
<1>11. TypeOK'
  BY <1>1, <1>2, <1>4, <1>7, KnowsSame DEF TypeOK, FileTables
<1>12. TablesOK'
  <2>1. \A q \in Slots \ alive' : files'[q] = NoFiles
    BY <1>1, <1>2, <1>3 DEF TablesOK, FileTables
  <2>2. \A q \in Slots, f \in Fds : <<f, q>> \in byOpen' => files'[q][f] # None
    BY <1>1, <1>2, <1>4 DEF TablesOK, OneSet
  <2> QED
    BY <2>1, <2>2 DEF TablesOK
<1>13. QueueOK'
  BY <1>1, <1>2, <1>8 DEF QueueOK, AskerWaits
<1> QED
  BY <1>7, <1>10, <1>11, <1>12, <1>13 DEF IInv

-----------------------------------------------------------------------------
(* The server.                                                             *)

(* What the queue is to it, once it has taken a message.                    *)
LEMMA TakenQueue ==
    ASSUME IInv, NEW cmd, Takes(cmd)
    PROVE  /\ opening = NoOpening /\ Knows = views
           /\ Head(queue) \in Messages /\ Head(queue).cmd = cmd
           /\ queue' \in Seq(Messages)
           /\ \A p : Asks(p, queue') => Asks(p, queue)
           /\ \A p : Asks(p, queue) => Asks(p, queue') \/ OpenOf(Head(queue), p)
           /\ \A p : OpenOf(Head(queue), p) => Asks(p, queue)
           /\ cmd = "closed" => ToClose = ToClose' \cup {<<Head(queue).fd, Head(queue).from>>}
           /\ cmd = "open" => ToClose = ToClose'
           /\ LastWord(queue', Slots \ haunted)
           /\ \A p \in Slots \ haunted : \A fd :
                 OpenOf(Head(queue), p) => <<fd, p>> \notin ToClose'
<1>1. queue \in Seq(Messages) /\ LastWord(queue, Slots \ haunted)
  BY DEF IInv, ChannelOK, QueueOK
<1>2. opening = NoOpening /\ queue # <<>> /\ Head(queue).cmd = cmd /\ queue' = Tail(queue)
  BY DEF Takes
<1> DEFINE h == Head(queue)
           t == Tail(queue)
<1>3. /\ t \in Seq(Messages) /\ h \in Messages
      /\ \A p : Asks(p, t) => Asks(p, queue)
      /\ \A p : Asks(p, queue) => Asks(p, t) \/ OpenOf(h, p)
      /\ \A p : OpenOf(h, p) => Asks(p, queue)
      /\ ToCloseIn(queue) = ToCloseIn(t) \cup (IF h.cmd = "closed" THEN {<<h.fd, h.from>>} ELSE {})
  BY <1>1, <1>2, Taken
<1>4. /\ LastWord(t, Slots \ haunted)
      /\ \A p \in Slots \ haunted, j \in DOMAIN t : OpenOf(h, p) => ~ClosedOf(t[j], p)
  BY <1>1, <1>2, Taken
<1> HIDE DEF h, t
<1>5. \A p \in Slots \ haunted : \A fd : OpenOf(h, p) => <<fd, p>> \notin ToCloseIn(t)
  <2> SUFFICES ASSUME NEW p \in Slots \ haunted, NEW fd, OpenOf(h, p), <<fd, p>> \in ToCloseIn(t)
               PROVE  FALSE
    OBVIOUS
  <2>1. PICK j \in DOMAIN t : t[j].cmd = "closed" /\ <<fd, p>> = <<t[j].fd, t[j].from>>
    BY DEF ToCloseIn
  <2>2. ClosedOf(t[j], p)
    BY <2>1 DEF ClosedOf
  <2> QED
    BY <1>4, <2>2
<1>6. Knows = views
  BY <1>2 DEF Knows
<1>7. ToClose = ToCloseIn(queue) /\ ToClose' = ToCloseIn(t)
  BY <1>2, ToCloseIs DEF t
<1>8. /\ h.cmd = "closed" => ToClose = ToClose' \cup {<<h.fd, h.from>>}
      /\ h.cmd = "open" => ToClose = ToClose'
  BY <1>3, <1>7
<1> QED
  BY <1>2, <1>3, <1>4, <1>5, <1>6, <1>7, <1>8 DEF h, t

LEMMA AnsweredWaits ==
    ASSUME NEW p, Answered(p), AskerWaits, waiting \subseteq alive,
           \A r : Asks(r, queue') => Asks(r, queue), haunted' = haunted
    PROVE  AskerWaits' /\ waiting' \subseteq alive
BY DEF Answered, AskerWaits

LEMMA TakeOpenIInv ==
    ASSUME IInv, TakeOpen
    PROVE  IInv'
<1> DEFINE h == Head(queue)
           p == h.from
           n == h.node
           fd == Min(FreeFds(files[p]))
<1>1. TypeOK /\ CountsOK /\ ViewsOK /\ ChannelOK /\ TablesOK /\ QueueOK
  BY DEF IInv
<1>2. Takes("open")
  BY DEF TakeOpen
<1>3. /\ opening = NoOpening /\ Knows = views
      /\ h \in Messages /\ h.cmd = "open"
      /\ queue' \in Seq(Messages)
      /\ \A r : Asks(r, queue') => Asks(r, queue)
      /\ \A r : Asks(r, queue) => Asks(r, queue') \/ OpenOf(h, r)
      /\ \A r : OpenOf(h, r) => Asks(r, queue)
      /\ ToClose = ToClose'
      /\ LastWord(queue', Slots \ haunted)
      /\ \A r \in Slots \ haunted : \A f : OpenOf(h, r) => <<f, r>> \notin ToClose'
  BY <1>2, TakenQueue
<1>4. p \in Slots /\ n \in Nodes /\ OpenOf(h, p)
  BY <1>3, MessageFacts DEF OpenOf
<1>5. p \in alive /\ alive' = alive /\ views' = views /\ haunted' = haunted
  BY DEF TakeOpen
<1>6. CASE FreeFds(files[p]) = {}
  <2>1. /\ Answered(p) /\ files' = files /\ refs' = refs
        /\ byOpen' = byOpen /\ opening' = opening
    BY <1>6 DEF TakeOpen
  <2> HIDE DEF h, p, n, fd
  <2>2. AskerWaits' /\ waiting' \subseteq alive
    BY <1>1, <1>3, <1>5, <2>1, AnsweredWaits DEF QueueOK, TypeOK
  <2>3. TypeOK' /\ TablesOK' /\ CountsOK'
    BY <1>1, <1>5, <2>1, <2>2, CountsSame DEF TypeOK, TablesOK
  <2>4. ViewsOK' /\ ChannelOK'
    BY <1>1, <1>3, <1>5, <2>1, ViewsSame DEF Knows, ChannelOK
  <2> QED
    BY <1>3, <1>5, <2>2, <2>3, <2>4 DEF IInv, QueueOK
<1>7. CASE FreeFds(files[p]) # {}
  <2>1. /\ files' = [files EXCEPT ![p][fd] = n] /\ refs' = [refs EXCEPT ![n] = @ + 1]
        /\ byOpen' = byOpen \cup {<<fd, p>>} /\ opening' = [from |-> p, fd |-> fd]
        /\ waiting' = waiting
    BY <1>7 DEF TakeOpen
  <2>2. fd \in Fds /\ files[p][fd] = None
    BY <1>7, FreeFacts
  <2> HIDE DEF h, p, n, fd
  <2>3. /\ files' \in FileTables /\ refs' \in [Nodes -> Nat] /\ CountsOK'
        /\ OneSet(files, files', p, fd, n)
        /\ \A q \in Slots \ alive' : files'[q] = NoFiles
    BY <1>1, <1>4, <1>5, <2>1, <2>2, GivingKeeps
  <2>4. TypeOK'
    BY <1>1, <1>4, <1>5, <2>1, <2>2, <2>3 DEF TypeOK, FileTables
  <2>5. TablesOK'
    <3>1. n # None
      BY <1>4, FilesAssumption
    <3> QED
      BY <1>1, <2>1, <2>2, <2>3, <3>1 DEF TablesOK, OneSet
  <2>6. Knows' = Knows \cup {<<fd, p>>}
    <3>1. opening' # NoOpening /\ opening'.fd = fd /\ opening'.from = p
      BY <2>1 DEF NoOpening
    <3> QED
      BY <1>3, <1>5, <2>1, <3>1 DEF Knows
  <2>7. ViewsOK'
    <3>1. p \in Slots \ haunted => <<fd, p>> \notin ToClose'
      BY <1>3, <1>4
    <3> QED
      BY <1>1, <1>3, <1>5, <2>1, <2>6, <3>1 DEF ViewsOK
  <2>8. ChannelOK'
    BY <1>3, <1>4, <2>1, <2>2 DEF ChannelOK
  <2>9. QueueOK'
    BY <1>1, <1>3, <1>5, <2>1 DEF QueueOK, AskerWaits
  <2> QED
    BY <2>3, <2>4, <2>5, <2>7, <2>8, <2>9 DEF IInv
<1> QED
  BY <1>6, <1>7

LEMMA TakeOpenOfNobodyIInv ==
    ASSUME IInv, TakeOpenOfNobody
    PROVE  IInv'
<1> DEFINE h == Head(queue)
           p == h.from
           n == h.node
<1>1. TypeOK /\ CountsOK /\ ViewsOK /\ ChannelOK /\ TablesOK /\ QueueOK
  BY DEF IInv
<1>2. Takes("open")
  BY DEF TakeOpenOfNobody
<1>3. /\ opening = NoOpening /\ Knows = views
      /\ h \in Messages /\ h.cmd = "open"
      /\ queue' \in Seq(Messages)
      /\ \A r : Asks(r, queue') => Asks(r, queue)
      /\ \A r : OpenOf(h, r) => Asks(r, queue)
      /\ ToClose = ToClose'
      /\ LastWord(queue', Slots \ haunted)
  BY <1>2, TakenQueue
<1>4. p \in Slots /\ n \in Nodes /\ OpenOf(h, p)
  BY <1>3, MessageFacts DEF OpenOf
<1>5. /\ p \notin alive /\ alive' = alive /\ files' = files /\ waiting' = waiting
      /\ views' = views /\ byOpen' = byOpen /\ haunted' = haunted
      /\ \/ refs' = refs /\ opening' = opening
         \/ \E fd \in Fds : refs' = [refs EXCEPT ![n] = @ + 1] /\ opening' = [from |-> p, fd |-> fd]
  BY DEF TakeOpenOfNobody
<1> HIDE DEF h, p, n
<1>6. p \in haunted
  BY <1>1, <1>3, <1>4, <1>5 DEF QueueOK, AskerWaits, TypeOK
<1>7. refs' \in [Nodes -> Nat] /\ \A k \in Nodes : refs[k] \in Nat /\ refs'[k] >= refs[k]
  BY <1>1, <1>4, <1>5 DEF TypeOK
<1>8. CountsOK'
  <2> SUFFICES ASSUME NEW k \in Nodes PROVE refs'[k] >= Cardinality(Holders(files, k))
    BY <1>5, <1>6 DEF CountsOK
  <2>1. Cardinality(Holders(files, k)) \in Nat /\ refs[k] >= Cardinality(Holders(files, k))
    BY <1>1, HoldersFinite DEF Holders, CountsOK
  <2>2. refs[k] \in Nat /\ refs'[k] \in Nat /\ refs'[k] >= refs[k]
    BY <1>7
  <2> QED
    BY <2>1, <2>2
<1>9. TypeOK' /\ TablesOK'
  BY <1>1, <1>5, <1>7 DEF TypeOK, TablesOK
<1>10. ChannelOK'
  BY <1>1, <1>3, <1>4, <1>5 DEF ChannelOK
<1>11. ViewsOK'
  <2>1. \A r \in Slots \ haunted, f \in Fds : <<f, r>> \in Knows' <=> <<f, r>> \in Knows
    <3>1. CASE opening' = opening
      BY <1>5, <3>1 DEF Knows
    <3>2. CASE \E fd \in Fds : opening' = [from |-> p, fd |-> fd]
      BY <1>3, <1>5, <1>6, <3>2 DEF Knows
    <3> QED
      BY <1>5, <3>1, <3>2
  <2> QED
    BY <1>1, <1>3, <1>5, <2>1 DEF ViewsOK
<1>12. QueueOK'
  BY <1>1, <1>3, <1>5 DEF QueueOK, AskerWaits
<1> QED
  BY <1>8, <1>9, <1>10, <1>11, <1>12 DEF IInv

LEMMA FinishOpenIInv ==
    ASSUME IInv, FinishOpen
    PROVE  IInv'
<1>1. TypeOK /\ CountsOK /\ ViewsOK /\ ChannelOK /\ TablesOK /\ QueueOK
  BY DEF IInv
<1>2. /\ opening # NoOpening /\ views' = views \cup {<<opening.fd, opening.from>>}
      /\ opening' = NoOpening /\ alive' = alive /\ files' = files /\ refs' = refs
      /\ queue' = queue /\ byOpen' = byOpen /\ haunted' = haunted
      /\ Answered(opening.from)
  BY DEF FinishOpen
<1>3. opening.from \in Slots /\ opening.fd \in Fds
  BY <1>1, <1>2 DEF ChannelOK
<1>4. AskerWaits' /\ waiting' \subseteq alive
  BY <1>1, <1>2, AnsweredWaits DEF QueueOK, TypeOK
<1>5. TypeOK' /\ TablesOK' /\ CountsOK'
  BY <1>1, <1>2, <1>3, <1>4, CountsSame DEF TypeOK, TablesOK
<1>6. ViewsOK' /\ ChannelOK'
  BY <1>1, <1>2, ToCloseIs, ViewsSame DEF Knows, ChannelOK
<1> QED
  BY <1>1, <1>2, <1>4, <1>5, <1>6 DEF IInv, QueueOK

LEMMA TakeClosedIInv ==
    ASSUME IInv, TakeClosed
    PROVE  IInv'
<1> DEFINE h == Head(queue)
           x == <<h.fd, h.from>>
<1>1. TypeOK /\ CountsOK /\ ViewsOK /\ ChannelOK /\ TablesOK /\ QueueOK
  BY DEF IInv
<1>2. /\ Takes("closed") /\ views' = views \ {x} /\ alive' = alive /\ files' = files
      /\ refs' = refs /\ waiting' = waiting /\ opening' = opening /\ byOpen' = byOpen
      /\ haunted' = haunted
  BY DEF TakeClosed, kernel
<1>3. /\ opening = NoOpening /\ Knows = views
      /\ h \in Messages /\ h.cmd = "closed"
      /\ queue' \in Seq(Messages)
      /\ \A r : Asks(r, queue') => Asks(r, queue)
      /\ ToClose = ToClose' \cup {x}
      /\ LastWord(queue', Slots \ haunted)
  BY <1>2, TakenQueue
<1> HIDE DEF h, x
<1>4. TypeOK' /\ TablesOK' /\ CountsOK'
  BY <1>1, <1>2, CountsSame DEF TypeOK, TablesOK
<1>5. Knows' = Knows \ {x}
  BY <1>2, <1>3 DEF Knows
<1>6. ViewsOK'
  BY <1>1, <1>2, <1>3, <1>5 DEF ViewsOK
<1>7. ChannelOK' /\ QueueOK'
  BY <1>1, <1>2, <1>3 DEF ChannelOK, QueueOK, AskerWaits
<1> QED
  BY <1>4, <1>6, <1>7 DEF IInv

-----------------------------------------------------------------------------
LEMMA NextIInv == IInv /\ [Next]_vars => IInv'
<1> SUFFICES ASSUME IInv, [Next]_vars PROVE IInv'
  OBVIOUS
<1>1. CASE Server
  BY <1>1, TakeOpenIInv, TakeOpenOfNobodyIInv, FinishOpenIInv, TakeClosedIInv DEF Server
<1>2. ASSUME NEW p \in Slots, NEW n \in Nodes, Open(p, n) PROVE IInv'
  BY <1>2, OpenIInv
<1>3. ASSUME NEW p \in Slots, NEW fd \in Fds, Close(p, fd) \/ Dup(p, fd) PROVE IInv'
  BY <1>3, CloseIInv, DupIInv
<1>4. ASSUME NEW p \in Slots, NEW from \in Fds, NEW to \in Fds, Dup2(p, from, to) PROVE IInv'
  BY <1>4, Dup2IInv
<1>5. ASSUME NEW p \in Slots, Fork(p) PROVE IInv'
  BY <1>5, ForkIInv
<1>6. ASSUME NEW p \in Slots, NEW by \in Slots, End(p, by) PROVE IInv'
  BY <1>6, EndIInv
<1>7. CASE UNCHANGED vars
  <2>1. /\ alive' = alive /\ files' = files /\ refs' = refs /\ waiting' = waiting
        /\ queue' = queue /\ opening' = opening /\ views' = views /\ byOpen' = byOpen
        /\ haunted' = haunted
    BY <1>7 DEF vars, kernel, server
  <2>2. ToClose' = ToClose /\ Knows' = Knows
    BY <2>1 DEF ToClose, Knows
  <2>3. ViewsOK'
    BY <2>1, <2>2, ViewsSame DEF IInv
  <2> QED
    BY <2>1, <2>3 DEF IInv, TypeOK, CountsOK, ChannelOK, TablesOK, QueueOK, AskerWaits
<1> QED
  BY <1>1, <1>2, <1>3, <1>4, <1>5, <1>6, <1>7 DEF Next

LEMMA AlwaysIInv == Spec => []IInv
BY InitIInv, NextIInv, PTL DEF Spec

(* A node counts the descriptors that lead to it, at every moment of every  *)
(* open, dup, dup2, fork, close, exit and kill: vfs_del never frees it under *)
(* one of them, and unless a process ended with its OPEN on the way to the   *)
(* server there is no reference too many.                                  *)
THEOREM CountsAreRight == Spec => []RefsOK
<1>1. IInv => RefsOK
  BY DEF IInv, RefsOK, CountsOK
<1> QED
  BY <1>1, AlwaysIInv, PTL

(* What the server will know when it has taken what is in its queue is the  *)
(* descriptors that each process got from it and has not closed, whoever     *)
(* closes, ends or takes over a pid in the meantime.                       *)
THEOREM ViewsAreRight == Spec => []ViewsOK
<1>1. IInv => ViewsOK
  BY DEF IInv
<1> QED
  BY <1>1, AlwaysIInv, PTL
=============================================================================
