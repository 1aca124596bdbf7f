--------------------------- MODULE FuseNodeTable ---------------------------
(***************************************************************************)
(* The node directory of lib/fuse.c: the id table and the name table of    *)
(* struct node records, and the functions that the dispatcher calls on     *)
(* them with f->lock held.  Each C function is an operator over the table  *)
(* value, so that a handler step of the dispatcher can compose the calls   *)
(* it makes inside one critical section.                                   *)
(*                                                                         *)
(* The table is a function  node  from live nodeids to records; its        *)
(* DOMAIN is the id table.  A non-root node is in the name table iff its   *)
(* name is not NoName.  The root keeps the name "/" and is never hashed   *)
(* by name, exactly as fuse_new_common leaves it.                          *)
(***************************************************************************)
EXTENDS Naturals, Sequences, FiniteSets, Functions, TLC

CONSTANTS
  CtrMod,   \* 2^w: nodeid_t arithmetic modulo its width (next_id wraps)
  Major,    \* negotiated protocol major: 5, 6 or 7 (do_init)
  NoName,   \* node->name == NULL
  NoPath    \* get_path_name returned NULL

ASSUME CtrMod \in Nat /\ CtrMod >= 4
ASSUME Major \in {5, 6, 7}

RootId == 1        \* FUSE_ROOT_ID
Ids == 1 .. CtrMod - 1
EBUSY == 16
ENOMEM == 12

NodeRec(p, nm, gen) ==
  [parent |-> p, name |-> nm, refctr |-> 1, nlookup |-> 0, version |-> 0,
   open_count |-> 0, is_hidden |-> FALSE, generation |-> gen]

\* fuse_new_common: the root node, alone in the id table.
InitTable ==
  RootId :> [NodeRec(0, "/", 0) EXCEPT !.nlookup = 1]

\* The nodes that are in the name table.
Hashed(nd) == {n \in DOMAIN nd \ {RootId} : nd[n].name # NoName}

\* lookup_node comparing only the name, not the parent.
LookupNodeAnyParent(nd, p, nm) ==
  LET m == {n \in Hashed(nd) : nd[n].name = nm}
  IN  IF m = {} THEN 0 ELSE CHOOSE n \in m : TRUE

\* lookup_node: probe the name table; 0 when absent.
LookupNode(nd, p, nm) ==
  LET m == {n \in Hashed(nd) : nd[n].parent = p /\ nd[n].name = nm}
  IN  IF m = {} THEN 0 ELSE CHOOSE n \in m : TRUE

\* unref_node and delete_node: drop one reference, free the node at zero.
UnrefNode(nd, n) ==
  IF nd[n].refctr = 1
  THEN Restrict(nd, DOMAIN nd \ {n})
  ELSE [nd EXCEPT ![n].refctr = @ - 1]

\* Seeded fault for mutation analysis: unhash_name without unref_node.
UnhashNameKeepRef(nd, n) ==
  IF nd[n].name = NoName THEN nd
  ELSE [nd EXCEPT ![n].name = NoName, ![n].parent = 0]

\* unhash_name: leave the name table, releasing the parent's reference.
UnhashName(nd, n) ==
  IF nd[n].name = NoName THEN nd
  ELSE UnrefNode([nd EXCEPT ![n].name = NoName, ![n].parent = 0],
                 nd[n].parent)

\* hash_name: enter the name table under (p, nm), taking a reference on p.
HashName(nd, n, p, nm) ==
  [nd EXCEPT ![n].name = nm, ![n].parent = p, ![p].refctr = @ + 1]

\* next_id: advance ctr modulo the width, bump the generation on wrap,
\* skip 0 and every id still in the id table.  Returns <<ctr, generation>>.
\* The C loop never ends when every id is live; callers guard on FreeId.
\* Seeded fault for mutation analysis: the wrap leaves generation alone.
RECURSIVE NextIdNoGeneration(_, _, _)
NextIdNoGeneration(c, g, live) ==
  LET c1 == (c + 1) % CtrMod
  IN  IF c1 = 0 \/ c1 \in live THEN NextIdNoGeneration(c1, g, live) ELSE <<c1, g>>

RECURSIVE NextIdFrom(_, _, _)
NextIdFrom(c, g, live) ==
  LET c1 == (c + 1) % CtrMod
      g1 == IF c1 = 0 THEN g + 1 ELSE g
  IN  IF c1 = 0 \/ c1 \in live THEN NextIdFrom(c1, g1, live) ELSE <<c1, g1>>

FreeId(nd) == \E i \in Ids : i \notin DOMAIN nd

(***************************************************************************)
(* find_node: reuse the node at (p, nm) or allocate one with a fresh id;   *)
(* either way refresh version and count one more kernel lookup.  Returns  *)
(* the new table, ctr and generation and the node's id.                   *)
(***************************************************************************)
FindNode(nd, ctr, gen, p, nm, v) ==
  LET old == LookupNode(nd, p, nm)
      nx  == NextIdFrom(ctr, gen, DOMAIN nd)
      id  == IF old # 0 THEN old ELSE nx[1]
      nd1 == IF old # 0 THEN nd
             ELSE HashName(nd @@ (id :> NodeRec(0, NoName, nx[2])), id, p, nm)
  IN  [node |-> [nd1 EXCEPT ![id].version = v, ![id].nlookup = @ + 1],
       ctr  |-> IF old # 0 THEN ctr ELSE nx[1],
       generation |-> IF old # 0 THEN gen ELSE nx[2],
       id   |-> id]

\* find_node when an allocation fails on a miss: calloc before next_id, or
\* hash_name's strdup after it (then ctr and generation have moved on).
\* Nothing enters the table; the caller gets NULL (id 0).
FindNodeNoMem(nd, ctr, gen, afterId) ==
  LET nx == NextIdFrom(ctr, gen, DOMAIN nd)
  IN  [node |-> nd,
       ctr  |-> IF afterId THEN nx[1] ELSE ctr,
       generation |-> IF afterId THEN nx[2] ELSE gen,
       id   |-> 0]

\* Seeded fault for mutation analysis: a FORGET that drops every lookup.
ForgetNodeWhole(nd, n, k) ==
  IF n = RootId THEN nd
  ELSE UnrefNode(UnhashName([nd EXCEPT ![n].nlookup = 0], n), n)

\* forget_node: the counted FORGET of protocol 7.
ForgetNode(nd, n, k) ==
  IF n = RootId THEN nd
  ELSE LET d == [nd EXCEPT ![n].nlookup = @ - k]
       IN  IF d[n].nlookup = 0 THEN UnrefNode(UnhashName(d, n), n) ELSE d

\* forget_node_old: the versioned FORGET of protocols 5 and 6.
ForgetNodeOld(nd, n, v) ==
  IF n \in DOMAIN nd /\ nd[n].version = v /\ n # RootId
  THEN UnrefNode(UnhashName([nd EXCEPT ![n].version = 0], n), n)
  ELSE nd

\* Seeded faults for mutation analysis: cancel_lookup that takes back two
\* lookups, and one that uses the versioned forget whatever the protocol.
CancelLookupTwice(nd, n, v) ==
  IF Major <= 6 THEN ForgetNodeOld(nd, n, v) ELSE ForgetNode(nd, n, 2)
CancelLookupByVersion(nd, n, v) == ForgetNodeOld(nd, n, v)

\* cancel_lookup: undo the lookup whose reply the kernel did not take.
CancelLookup(nd, n, v) ==
  IF Major <= 6 THEN ForgetNodeOld(nd, n, v) ELSE ForgetNode(nd, n, 1)

\* Seeded fault for mutation analysis: remove_node that leaves the name.
RemoveNodeSkip(nd, dir, nm) == nd

\* remove_node: after a successful unlink or rmdir.
RemoveNode(nd, dir, nm) ==
  LET n == LookupNode(nd, dir, nm)
  IN  IF n = 0 THEN nd ELSE UnhashName(nd, n)

\* Seeded fault for mutation analysis: rename_node that leaves the node
\* already at the target in the name table.
RenameNodeKeepTarget(nd, od, on, nd2, nn, hide) ==
  LET n == LookupNode(nd, od, on)
      t == LookupNode(nd, nd2, nn)
      d2 == HashName(UnhashName(nd, n), n, nd2, nn)
  IN  CASE n = 0          -> [node |-> nd, err |-> 0]
        [] t # 0 /\ hide  -> [node |-> nd, err |-> EBUSY]
        [] OTHER          -> [node |-> IF hide THEN [d2 EXCEPT ![n].is_hidden = TRUE]
                                               ELSE d2,
                              err  |-> 0]

\* Seeded fault for mutation analysis: rename_node that re-hashes the node
\* under its old directory.
RenameNodeOldDir(nd, od, on, nd2, nn, hide) ==
  LET n == LookupNode(nd, od, on)
      t == LookupNode(nd, nd2, nn)
      d1 == IF t # 0 THEN UnhashName(nd, t) ELSE nd
  IN  IF n = 0 THEN [node |-> nd, err |-> 0]
      ELSE [node |-> HashName(UnhashName(d1, n), n, od, nn), err |-> 0]

\* Seeded fault for mutation analysis: rename_node that ignores hide and
\* never marks the node hidden.
RenameNodeNoHide(nd, od, on, nd2, nn, hide) ==
  LET n == LookupNode(nd, od, on)
      t == LookupNode(nd, nd2, nn)
      d1 == IF t # 0 THEN UnhashName(nd, t) ELSE nd
  IN  IF n = 0 THEN [node |-> nd, err |-> 0]
      ELSE [node |-> HashName(UnhashName(d1, n), n, nd2, nn), err |-> 0]

(***************************************************************************)
(* rename_node: move (od, on) to (nd2, nn).  A node already at the target  *)
(* is unhashed, unless this is a hide, which fails with EBUSY instead.     *)
(* Returns the new table and the error.                                    *)
(***************************************************************************)
RenameNode(nd, od, on, nd2, nn, hide) ==
  LET n == LookupNode(nd, od, on)
      t == LookupNode(nd, nd2, nn)
      d1 == IF t # 0 THEN UnhashName(nd, t) ELSE nd
      d2 == HashName(UnhashName(d1, n), n, nd2, nn)
  IN  CASE n = 0          -> [node |-> nd, err |-> 0]
        [] t # 0 /\ hide  -> [node |-> nd, err |-> EBUSY]
        [] OTHER          -> [node |-> IF hide THEN [d2 EXCEPT ![n].is_hidden = TRUE]
                                               ELSE d2,
                              err  |-> 0]

\* rename_node when hash_name's strdup fails: the node at the target and
\* the source have already been unhashed, and stay so; ENOMEM.
RenameNodeNoMem(nd, od, on, nd2, nn, hide) ==
  LET n == LookupNode(nd, od, on)
      t == LookupNode(nd, nd2, nn)
      d1 == IF t # 0 THEN UnhashName(nd, t) ELSE nd
  IN  CASE n = 0          -> [node |-> nd, err |-> 0]
        [] t # 0 /\ hide  -> [node |-> nd, err |-> EBUSY]
        [] OTHER          -> [node |-> UnhashName(d1, n), err |-> ENOMEM]

\* is_open
IsOpen(nd, dir, nm) ==
  LET n == LookupNode(nd, dir, nm)
  IN  n # 0 /\ nd[n].open_count > 0

(***************************************************************************)
(* get_path_name: walk the parent links up to the root, failing on a      *)
(* detached ancestor.  A path is the sequence of its components; the leaf *)
(* argument of get_path_name is appended by the caller.  The 4096-byte    *)
(* buffer bound is not modelled: names are single model components.       *)
(***************************************************************************)
RECURSIVE PathOf(_, _)
PathOf(nd, n) ==
  IF n = RootId THEN <<>>
  ELSE IF nd[n].name = NoName THEN NoPath
  ELSE LET pp == PathOf(nd, nd[n].parent)
       IN  IF pp = NoPath THEN NoPath ELSE Append(pp, nd[n].name)

=============================================================================
