------------------------------- MODULE DbHash -------------------------------
(***************************************************************************)
(* The on-disk hash table of a sample file (libdb): the daemon inserting  *)
(* (address, delta) pairs with db_insert() while a post-profile tool      *)
(* walks the node array with db_travel() through its own mapping of the   *)
(* same file, with no lock between them.                                   *)
(*                                                                         *)
(* The node array is an arena addressed by index; index 0 is the          *)
(* permanent sentinel.  hash_base[b] heads the chain of bucket b, linked   *)
(* through the next fields.  db_insert() is split into the steps a        *)
(* concurrent reader can tell apart: the chain walk (with the update of   *)
(* an existing node, or the allocation of a new one), the two stores that *)
(* publish a new node, and the linking of the new node into its chain.    *)
(***************************************************************************)
EXTENDS Naturals, FiniteSets, Sequences, FiniteSetsExt, Functions

CONSTANTS
    Keys,                 \* sample addresses a key may take (0 included: the sentinel clash)
    Deltas,               \* amounts passed as `value' to db_insert
    ValueBits,            \* width of db_value_t in the model
    InitSize,             \* descr->size of a freshly created file
    BucketFactor,         \* hash_base entries per node slot
    MaxSize,              \* bound: largest descr->size the model lets the file grow to
    StoreOrderPreserved   \* TRUE: the build keeps the program order of the two
                          \* publishing stores; FALSE: compiler or CPU may reorder them

ValueMod == 2^ValueBits
MaxValue == ValueMod - 1          \* ~(db_value_t)0
NoNode   == 0                     \* node_base[0] is never used

ASSUME /\ Keys \subseteq Nat
       /\ Deltas \subseteq 1..MaxValue
       /\ InitSize \in Nat \ {0, 1}
       /\ BucketFactor \in Nat \ {0}
       /\ MaxSize \in Nat /\ MaxSize >= InitSize
       /\ StoreOrderPreserved \in BOOLEAN

NodeIndex == 0..(MaxSize - 1)

VARIABLES
    nodes,        \* node_base[1..]: [key, value, next]
    hashBase,     \* hash_base[0..size*BucketFactor-1]: head index of each chain
    currentSize,  \* descr->current_size: first never-allocated node index
    size,         \* descr->size: node slots the file has room for
    wpc,          \* writer: "idle" between inserts, "store" / "link" inside db_insert
    wkey,         \* writer: key of the insert in progress
    wdelta,       \* writer: value of the insert in progress
    wnode,        \* writer: new_node, the index db_hash_add_node returned
    wstores,      \* writer: stores to the new node not yet visible to readers
    rpc,          \* reader: "idle" or "reading" (inside db_travel)
    rpos,         \* reader: next node index it will look at
    rlast         \* reader: <<pos, key, value>> it reported last, <<>> at the start of a pass

writer == <<wpc, wkey, wdelta, wnode, wstores>>
reader == <<rpc, rpos, rlast>>
table  == <<nodes, hashBase, currentSize, size>>
vars   == <<table, writer, reader>>

EmptyNode == [key |-> 0, value |-> 0, next |-> NoNode]

-----------------------------------------------------------------------------
(* Helpers of libdb that are not in the sources at hand (db_hash.h,        *)
(* db_manage.c), taken from the design: a hash that depends on the table   *)
(* size, and growth by doubling with a full rehash of the allocated nodes. *)

Buckets(s) == 0..(s * BucketFactor - 1)

do_hash(k, s) == k % (s * BucketFactor)

\* The nodes the growth loop re-links: pos = 1 .. current_size - 1
RehashRange == 1..(currentSize - 1)

\* Re-linking pos in increasing order, each at the head of its bucket,
\* leaves every chain in decreasing index order.
RehashNext(p, s) ==
    LET same == {q \in RehashRange : q < p /\ do_hash(nodes[q].key, s) = do_hash(nodes[p].key, s)}
    IN  IF same = {} THEN NoNode ELSE Max(same)

RehashHead(b, s) ==
    LET inb == {q \in RehashRange : do_hash(nodes[q].key, s) = b}
    IN  IF inb = {} THEN NoNode ELSE Max(inb)

\* Mutant: the file is grown one allocation too late (> instead of >=)
AddNodeGrowLate ==
    LET grow == currentSize > size
        s2   == IF grow THEN 2 * size ELSE size
    IN  /\ s2 <= MaxSize
        /\ size' = s2
        /\ currentSize' = currentSize + 1
        /\ IF grow
             THEN /\ hashBase' = [b \in Buckets(s2) |-> RehashHead(b, s2)]
                  /\ nodes' = [p \in DOMAIN nodes |->
                                 IF p \in RehashRange
                                   THEN [nodes[p] EXCEPT !.next = RehashNext(p, s2)]
                                   ELSE nodes[p]]
             ELSE UNCHANGED <<hashBase, nodes>>

\* db_hash_add_node: double the file when it is full, rebuild hash_base,
\* then hand out current_size++.
db_hash_add_node ==
    LET grow == currentSize >= size
        s2   == IF grow THEN 2 * size ELSE size
    IN  /\ s2 <= MaxSize
        /\ size' = s2
        /\ currentSize' = currentSize + 1
        /\ IF grow
             THEN /\ hashBase' = [b \in Buckets(s2) |-> RehashHead(b, s2)]
                  /\ nodes' = [p \in DOMAIN nodes |->
                                 IF p \in RehashRange
                                   THEN [nodes[p] EXCEPT !.next = RehashNext(p, s2)]
                                   ELSE nodes[p]]
             ELSE UNCHANGED <<hashBase, nodes>>

-----------------------------------------------------------------------------
(* db_insert (libdb/db_insert.c)                                           *)

\* Mutant: the walk looks only at the head of the chain (line 36 left out)
ChainFindHeadOnly(i, k, fuel) ==
    IF i = NoNode \/ fuel = 0 THEN NoNode
    ELSE IF nodes[i].key = k THEN i
    ELSE NoNode

\* The chain walk of lines 22-37: the node of key k on the chain from i.
RECURSIVE ChainFind(_, _, _)
ChainFind(i, k, fuel) ==
    IF i = NoNode \/ fuel = 0 THEN NoNode
    ELSE IF nodes[i].key = k THEN i
    ELSE ChainFind(nodes[i].next, k, fuel - 1)

Lookup(k) == ChainFind(hashBase[do_hash(k, size)], k, MaxSize)

\* Mutant: plain += without the overflow test
AddWrapping(v, d) == (v + d) % ValueMod

\* Lines 27-32: the overflow test done in db_value_t arithmetic
AddSaturated(v, d) ==
    IF (v + d) % ValueMod >= v THEN (v + d) % ValueMod ELSE MaxValue

\* Mutant: the key stored before the value
KeyFirstStoreOrder == <<"key", "value">>

\* Lines 46-47: value first, then the key that makes the node visible
StoreOrder == <<"value", "key">>

\* The stores the build may make visible next
NextStores ==
    IF StoreOrderPreserved THEN {Head(wstores)} ELSE Range(wstores)

\* Mutant: the bucket computed before db_hash_add_node grew the table
\* (growth happens exactly when new_node is the old descr->size)
StaleLinkBucket ==
    IF wnode = size \div 2 THEN do_hash(wkey, size \div 2) ELSE do_hash(wkey, size)

\* Line 50: the bucket recomputed after db_hash_add_node may have grown the table
LinkBucket == do_hash(wkey, size)

\* Lines 22-34: the key is on its chain, add to its counter and return.
InsertExisting(k, d) ==
    /\ wpc = "idle"
    /\ Lookup(k) # NoNode
    /\ nodes' = [nodes EXCEPT ![Lookup(k)].value = AddSaturated(@, d)]
    /\ UNCHANGED <<hashBase, currentSize, size, writer, reader>>

\* Lines 22-23, 43: the walk ends at the sentinel, allocate a node.
InsertNew(k, d) ==
    /\ wpc = "idle"
    /\ Lookup(k) = NoNode
    /\ db_hash_add_node
    /\ wnode' = currentSize
    /\ wkey' = k
    /\ wdelta' = d
    /\ wstores' = StoreOrder
    /\ wpc' = "store"
    /\ UNCHANGED reader

\* Lines 45-47: one of the stores to the new node becomes visible.
PublishStore ==
    /\ wpc = "store"
    /\ \E f \in NextStores :
         /\ nodes' = [nodes EXCEPT ![wnode] =
                        IF f = "value" THEN [@ EXCEPT !.value = wdelta]
                                       ELSE [@ EXCEPT !.key = wkey]]
         /\ wstores' = SelectSeq(wstores, LAMBDA g : g # f)
         /\ wpc' = IF Len(wstores) = 1 THEN "link" ELSE "store"
    /\ UNCHANGED <<hashBase, currentSize, size, wkey, wdelta, wnode, reader>>

\* Lines 50-52: push the new node on the head of its chain.
Link ==
    /\ wpc = "link"
    /\ LET b == LinkBucket IN
         /\ nodes' = [nodes EXCEPT ![wnode].next = hashBase[b]]
         /\ hashBase' = [hashBase EXCEPT ![b] = wnode]
    /\ wpc' = "idle"
    /\ UNCHANGED <<currentSize, size, wkey, wdelta, wnode, wstores, reader>>

-----------------------------------------------------------------------------
(* db_travel, the read side (libdb/db_travel.c, not in the sources at     *)
(* hand): visit node_base[1 .. current_size-1] in order, report every node *)
(* whose key is not the sentinel value.                                    *)

ReaderOpen ==
    /\ rpc = "idle"
    /\ rpc' = "reading"
    /\ rpos' = 1
    /\ rlast' = <<>>
    /\ UNCHANGED <<table, writer>>

ReaderVisit ==
    /\ rpc = "reading"
    /\ rpos < currentSize
    /\ rlast' = IF nodes[rpos].key # 0
                  THEN <<rpos, nodes[rpos].key, nodes[rpos].value>>
                  ELSE rlast
    /\ rpos' = rpos + 1
    /\ UNCHANGED <<rpc, table, writer>>

ReaderDone ==
    /\ rpc = "reading"
    /\ rpos >= currentSize
    /\ rpc' = "idle"
    /\ UNCHANGED <<rpos, rlast, table, writer>>

-----------------------------------------------------------------------------
Init ==
    /\ nodes = [p \in 1..(MaxSize - 1) |-> EmptyNode]
    /\ hashBase = [b \in Buckets(InitSize) |-> NoNode]
    /\ currentSize = 1
    /\ size = InitSize
    /\ wpc = "idle"
    /\ wkey = 0
    /\ wdelta = 0
    /\ wnode = NoNode
    /\ wstores = <<>>
    /\ rpc = "idle"
    /\ rpos = 1
    /\ rlast = <<>>

Next ==
    \/ \E k \in Keys, d \in Deltas : InsertExisting(k, d) \/ InsertNew(k, d)
    \/ PublishStore
    \/ Link
    \/ ReaderOpen
    \/ ReaderVisit
    \/ ReaderDone

Spec == Init /\ [][Next]_vars

-----------------------------------------------------------------------------
(* Properties                                                              *)

TypeOK ==
    /\ nodes \in [1..(MaxSize - 1) -> [key : Keys \cup {0}, value : 0..MaxValue, next : NodeIndex]]
    /\ size \in {InitSize * 2^i : i \in 0..MaxSize} /\ size <= MaxSize
    /\ currentSize \in 1..size
    /\ hashBase \in [Buckets(size) -> NodeIndex]
    /\ wpc \in {"idle", "store", "link"}
    /\ wstores \in Seq({"value", "key"})
    /\ rpc \in {"idle", "reading"}
    /\ rlast \in {<<>>} \cup (NodeIndex \X Keys \X (0..MaxValue))

\* The node list of the chain starting at i, cut off after MaxSize hops.
RECURSIVE ChainNodes(_, _)
ChainNodes(i, fuel) ==
    IF i = NoNode \/ fuel = 0 THEN <<>>
    ELSE <<i>> \o ChainNodes(nodes[i].next, fuel - 1)

\* The assert of db_insert line 24, made total: every chain, across any
\* number of growths and rehashes, holds only allocated node indices, each
\* at most once (no cycle), each in the bucket its key hashes to now.
ChainsWellFormed ==
    \A b \in DOMAIN hashBase :
        LET c == ChainNodes(hashBase[b], MaxSize) IN
        /\ IsInjective(c)
        /\ \A j \in 1..Len(c) :
              /\ c[j] \in 1..(currentSize - 1)
              /\ do_hash(nodes[c[j]].key, size) = b

\* The nodes db_travel reports as complete: every allocated node except
\* the one db_insert is still publishing.
SettledNodes ==
    {p \in 1..(currentSize - 1) : ~(wpc # "idle" /\ p = wnode)}

\* What db_travel returns agrees with what db_insert looks up: every
\* settled node is the one the chain walk finds for its key, so no key
\* has two nodes and no node is lost to the walk after a growth.
TravelAgreesWithLookup ==
    \A p \in SettledNodes : Lookup(nodes[p].key) = p

\* A reader running concurrently with db_insert never reports a node whose
\* key it saw before the node's value was stored: every pair it reports
\* carries a counter the writer actually stored at that node.
ReaderSeesPublishedNodes ==
    rlast # <<>> =>
        /\ rlast[3] \in 1..MaxValue
        /\ nodes[rlast[1]].key = rlast[2]
        /\ rlast[3] <= nodes[rlast[1]].value

\* The table refines the abstract saturating counter map: the counter of
\* each key is the value of the node db_insert's walk finds for it.
LookupView == [k \in Keys |-> IF Lookup(k) = NoNode THEN 0 ELSE nodes[Lookup(k)].value]

Abs == INSTANCE DbCounts WITH counts <- LookupView

AbsSpec == Abs!Spec

=============================================================================
