--------------------------- MODULE FuseNodeDirectory ---------------------------
(***************************************************************************)
(* The namespace handlers of lib/fuse.c over a tree of directories, run   *)
(* one request at a time against the passthrough filesystem of            *)
(* FuseXmpFs: LOOKUP, MKNOD, MKDIR, SYMLINK, LINK, UNLINK, RMDIR, RENAME   *)
(* across directories, OPEN, RELEASE and FORGET, with replies the kernel  *)
(* may not take.  Each handler is one step, as under fuse_loop -s: the    *)
(* interleavings of handlers are the subject of FuseDispatch.  UNLINK and *)
(* RENAME hide an open target with hide_node; RELEASE of the last open    *)
(* file of a hidden node unlinks it.  Protocol 7: counted FORGET.         *)
(*                                                                         *)
(* hidden_name builds .fuse_hidden<nodeid><hidectr>; HiddenNames[c] stands *)
(* for the name made with hidectr = c (hidectr only grows, so the nodeid  *)
(* part never decides a collision in one mount).  The kernel never names  *)
(* a hidden file in a request: no program is assumed to touch them.       *)
(*                                                                         *)
(* The kernel holds kref[n] lookups of nodeid n and at most one dentry   *)
(* kdent[n] = <<parent, name>> for it.  The VFS looks a name up before it *)
(* unlinks or renames it, so those requests name dentries the kernel has. *)
(* A dentry pins its parent's dentry and its own inode: the kernel evicts *)
(* a dentry with no child dentry, and forgets all of an inode only when   *)
(* it has no dentry.  An open file holds its dentry: an unlinked open     *)
(* file keeps it unhashed (kdrop), still pinning its parent, and d_move   *)
(* gives a replaced rename target the source's old parent and name.      *)
(* kfile[n] counts the kernel's open files on n and kino[n] is the host   *)
(* inode they were opened on.  issued records every (nodeid, generation)  *)
(* ever allocated, for checking only.                                     *)
(***************************************************************************)
EXTENDS FuseNodeTable, FuseXmpFs

CONSTANTS
  MaxReq,    \* bound on the requests the kernel sends (FORGET aside)
  InitFs,    \* the host trees the filesystem may be mounted on
  Gone, Free, \* values of the abstract handle binding
  HiddenNames, \* <<...>>: the names hidden_name makes, by hidectr
  AllocFail  \* the allocations that may fail: "find_node", "rename_node"

ASSUME Major = 7 /\ AllocFail \subseteq {"find_node", "rename_node"}

HiddenSet == {HiddenNames[i] : i \in 1 .. Len(HiddenNames)}
KNames == Names \ HiddenSet   \* the names the kernel sends

\* Whether an allocation at site s fails this time.
Oom(s) == IF s \in AllocFail THEN BOOLEAN ELSE {FALSE}

VARIABLES node, ctr, generation, hidectr, fs, kref, kdent, kdrop, kfile, kino,
          uniq, issued

vars == <<node, ctr, generation, hidectr, fs, kref, kdent, kdrop, kfile, kino,
          uniq, issued>>
openVars == <<hidectr, kdrop, kfile, kino>>

Held == {n \in Ids : kref[n] > 0}

NoDent == <<0, NoName>>

\* The kernel has a hashed dentry for name nm in directory d.
HasDent(d, nm) == \E n \in Held \ kdrop : kdent[n] = <<d, nm>>

Init ==
  /\ node = InitTable /\ ctr = 0 /\ generation = 0
  /\ fs \in InitFs
  /\ kref = [n \in Ids |-> IF n = RootId THEN 1 ELSE 0]
  /\ kdent = [n \in Ids |-> NoDent]
  /\ hidectr = 0 /\ kdrop = {}
  /\ kfile = [n \in Ids |-> 0] /\ kino = [n \in Ids |-> {}]
  /\ uniq = 0
  /\ issued = {<<RootId, 0>>}

\* get_path_name(f, d, nm), the leaf appended to the parent's path.
GetPathName(d, nm) ==
  LET p == PathOf(node, d) IN IF p = NoPath THEN NoPath ELSE Append(p, nm)

\* The kernel sends one more request under the directory d: the VFS
\* reaches d through its dentry (the root is always there).
HasDentry(n) == n = RootId \/ (kdent[n] # NoDent /\ n \notin kdrop)
Request(d) == HasDentry(d) /\ uniq < MaxReq /\ uniq' = uniq + 1

(***************************************************************************)
(* lookup_path on the filesystem f, then send_reply: getattr; find_node   *)
(* (when it must allocate, next_id needs a free id); the kernel takes the *)
(* entry, or the write fails with ENOENT and cancel_lookup undoes it.     *)
(* When find_node's allocation fails the reply is ENOMEM.                 *)
(***************************************************************************)
EntryReply(d, nm, f) ==
  IF XmpGetattr(f, GetPathName(d, nm)) # 0
  THEN UNCHANGED <<node, ctr, generation, kref, kdent>>
  ELSE \E oom \in Oom("find_node") :
       IF oom /\ LookupNode(node, d, nm) = 0
       THEN \E afterId \in BOOLEAN :
              LET r == FindNodeNoMem(node, ctr, generation, afterId)
              IN  /\ afterId => FreeId(node)
                  /\ node' = r.node /\ ctr' = r.ctr /\ generation' = r.generation
                  /\ UNCHANGED <<kref, kdent>>
       ELSE LET r == FindNode(node, ctr, generation, d, nm, uniq')
       IN  /\ LookupNode(node, d, nm) # 0 \/ FreeId(node)
           /\ ctr' = r.ctr /\ generation' = r.generation
           /\ \/ /\ node' = r.node
                 /\ kref' = [kref EXCEPT ![r.id] = @ + 1]
                 /\ kdent' = [kdent EXCEPT ![r.id] = <<d, nm>>]
              \/ /\ node' = CancelLookup(r.node, r.id, uniq')
                 /\ UNCHANGED <<kref, kdent>>

NoEntry == UNCHANGED <<node, ctr, generation, kref, kdent>>

DoLookup(d, nm) ==
  /\ Request(d)
  /\ IF GetPathName(d, nm) = NoPath THEN NoEntry ELSE EntryReply(d, nm, fs)
  /\ UNCHANGED <<fs, openVars>>

\* do_mknod, do_mkdir, do_symlink: the user's call r, then lookup_path.
Create(d, nm, r) ==
  /\ Request(d)
  /\ IF GetPathName(d, nm) = NoPath
     THEN NoEntry /\ UNCHANGED fs
     ELSE /\ fs' = r.fs
          /\ IF r.err = 0 THEN EntryReply(d, nm, r.fs) ELSE NoEntry
  /\ UNCHANGED openVars

FreshIno(i) == i \notin Range(fs)

DoMknod(d, nm) ==
  \E i \in Inos : FreshIno(i) /\ Create(d, nm, XmpMknod(fs, GetPathName(d, nm), i))

DoMkdir(d, nm) == Create(d, nm, XmpMkdir(fs, GetPathName(d, nm)))

DoSymlink(d, nm) ==
  \E i \in Inos : FreshIno(i) /\ Create(d, nm, XmpSymlink(fs, GetPathName(d, nm), i))

\* do_link: get_path of the old node, get_path_name of the new name.
DoLink(o, d, nm) ==
  /\ Request(d) /\ o # RootId /\ HasDentry(o)
  /\ LET op == PathOf(node, o)
         np == GetPathName(d, nm)
         r  == XmpLink(fs, op, np)
     IN  IF op = NoPath \/ np = NoPath
         THEN NoEntry /\ UNCHANGED fs
         ELSE /\ fs' = r.fs
              /\ IF r.err = 0 THEN EntryReply(d, nm, r.fs) ELSE NoEntry
  /\ UNCHANGED openVars

(***************************************************************************)
(* hidden_name in directory d: the inner loop bumps hidectr past every    *)
(* name the table has in d; get_path_name of the name (NULL ends it) and *)
(* the user's getattr on it; a name that exists is given up for the next, *)
(* failctr (10) times in all.  HiddenNames stands for the unbounded       *)
(* hidectr: a hide whose probe would run past it is not taken (CanHide).  *)
(***************************************************************************)
FailCtr == 10

RECURSIVE NextHidden(_, _)
NextHidden(d, c) ==
  IF c > Len(HiddenNames) THEN c
  ELSE IF LookupNode(node, d, HiddenNames[c]) = 0 THEN c
  ELSE NextHidden(d, c + 1)

RECURSIVE HiddenName(_, _, _)
HiddenName(d, c, tries) ==
  LET c1 == NextHidden(d, c + 1)
      p  == GetPathName(d, HiddenNames[c1])
  IN  CASE c1 > Len(HiddenNames)     -> [name |-> NoName, ctr |-> c1]
        [] p = NoPath                -> [name |-> NoName, ctr |-> c1]
        [] XmpGetattr(fs, p) # 0     -> [name |-> HiddenNames[c1], ctr |-> c1]
        [] tries = 1                 -> [name |-> NoName, ctr |-> c1]
        [] OTHER                     -> HiddenName(d, c1, tries - 1)

CanHide(d) == HiddenName(d, hidectr, FailCtr).ctr <= Len(HiddenNames)

\* hide_node(path p of (d, nm)): EBUSY unless hidden_name finds a name and
\* the user's rename to it succeeds; then rename_node with hide set (whose
\* hash_name may fail when oom).  Returns fs, the table, hidectr, error.
HideNode(d, nm, p, oom) ==
  LET hn == HiddenName(d, hidectr, FailCtr)
      r  == XmpRename(fs, p, GetPathName(d, hn.name))
      rn == IF oom THEN RenameNodeNoMem(node, d, nm, d, hn.name, TRUE)
                   ELSE RenameNode(node, d, nm, d, hn.name, TRUE)
  IN  IF hn.name = NoName \/ r.err # 0
      THEN [fs |-> fs, node |-> node, hidectr |-> hn.ctr, err |-> EBUSY]
      ELSE [fs |-> r.fs, node |-> rn.node, hidectr |-> hn.ctr, err |-> rn.err]

\* The kernel's dentry of (d, nm), which UNLINK and RENAME act on.
KNode(d, nm) == CHOOSE m \in Held \ kdrop : kdent[m] = <<d, nm>>

\* The kernel after a successful UNLINK of its dentry m: an open file keeps
\* its dentry unhashed; any other dentry goes.
KUnlink(m) ==
  IF kfile[m] > 0
  THEN kdrop' = kdrop \cup {m} /\ UNCHANGED kdent
  ELSE kdent' = [kdent EXCEPT ![m] = NoDent] /\ UNCHANGED kdrop

(***************************************************************************)
(* do_unlink under the tree write lock: an open name is hidden, anything  *)
(* else is unlinked and remove_node'd on success.  do_rmdir is the latter. *)
(***************************************************************************)
DoUnlink(d, nm) ==
  /\ Request(d) /\ HasDent(d, nm)
  /\ LET p == GetPathName(d, nm)
         r == XmpUnlink(fs, p)
     IN  CASE p = NoPath ->
                UNCHANGED <<node, fs, kdent, kdrop, hidectr>>
           [] IsOpen(node, d, nm) ->
                /\ CanHide(d)
                /\ \E oom \in Oom("rename_node") :
                     LET h == HideNode(d, nm, p, oom)
                     IN  /\ fs' = h.fs /\ node' = h.node /\ hidectr' = h.hidectr
                         /\ IF h.err = 0 THEN KUnlink(KNode(d, nm))
                                         ELSE UNCHANGED <<kdent, kdrop>>
           [] r.err # 0 ->
                UNCHANGED <<node, fs, kdent, kdrop, hidectr>>
           [] OTHER ->
                /\ fs' = r.fs /\ node' = RemoveNode(node, d, nm)
                /\ KUnlink(KNode(d, nm))
                /\ UNCHANGED hidectr
  /\ UNCHANGED <<ctr, generation, kref, kfile, kino>>

DoRmdir(d, nm) ==
  /\ Request(d) /\ HasDent(d, nm)
  /\ LET p == GetPathName(d, nm)
         r == XmpRmdir(fs, p)
     IN  IF p = NoPath \/ r.err # 0
         THEN UNCHANGED <<node, fs, kdent>>
         ELSE /\ fs' = r.fs
              /\ node' = RemoveNode(node, d, nm)
              /\ kdent' = [kdent EXCEPT ![KNode(d, nm)] = NoDent]
  /\ UNCHANGED <<ctr, generation, kref, openVars>>

\* do_rename's user rename and rename_node on the table nd and host tree f.
RenamePaths(d1, nm1, d2, nm2, a, b, f, nd, oom) ==
  LET r  == XmpRename(f, a, b)
      rn == IF oom THEN RenameNodeNoMem(nd, d1, nm1, d2, nm2, FALSE)
                   ELSE RenameNode(nd, d1, nm1, d2, nm2, FALSE)
  IN  IF r.err # 0 THEN [fs |-> f, node |-> nd, err |-> r.err]
                   ELSE [fs |-> r.fs, node |-> rn.node, err |-> rn.err]

\* The kernel after a successful RENAME of dentry n onto the dentry t (0:
\* none): d_move; an open t is left unhashed under n's old place.
KRename(n, t, d1, nm1, d2, nm2) ==
  /\ kdent' = [m \in Ids |-> CASE m = n                   -> <<d2, nm2>>
                               [] m = t /\ kfile[t] > 0   -> <<d1, nm1>>
                               [] m = t                   -> NoDent
                               [] OTHER                   -> kdent[m]]
  /\ kdrop' = IF t # 0 /\ kfile[t] > 0 THEN kdrop \cup {t} ELSE kdrop

(***************************************************************************)
(* do_rename under the tree write lock: both paths; an open target is     *)
(* hidden first, and a failed hide is the reply; then the user's rename   *)
(* and rename_node.  The VFS has looked up the source and an existing     *)
(* target, and refuses before sending a name onto itself, a directory    *)
(* into itself, a target that is an ancestor of the source, and a         *)
(* directory onto a non-directory or back.                                *)
(***************************************************************************)
DoRename(d1, nm1, d2, nm2) ==
  /\ Request(d1) /\ HasDentry(d2) /\ <<d1, nm1>> # <<d2, nm2>>
  /\ HasDent(d1, nm1)
  /\ LET a == GetPathName(d1, nm1)
         b == GetPathName(d2, nm2)
         t == IF HasDent(d2, nm2) THEN KNode(d2, nm2) ELSE 0
     IN  /\ b # NoPath /\ Exists(fs, b) => HasDent(d2, nm2)
         /\ a # NoPath /\ b # NoPath =>
              /\ ~IsPrefix(a, b) /\ ~IsPrefix(b, a)
              /\ Exists(fs, b) => IsDir(fs, a) = IsDir(fs, b)
         /\ IF a = NoPath \/ b = NoPath
            THEN UNCHANGED <<node, fs, kdent, kdrop, hidectr>>
            ELSE \E oom1, oom2 \in Oom("rename_node") :
                 LET hide == IsOpen(node, d2, nm2)
                     h == IF hide THEN HideNode(d2, nm2, b, oom1)
                          ELSE [fs |-> fs, node |-> node, hidectr |-> hidectr, err |-> 0]
                     r == RenamePaths(d1, nm1, d2, nm2, a, b, h.fs, h.node, oom2)
                 IN  /\ hide => CanHide(d2)
                     /\ hidectr' = h.hidectr
                     /\ IF h.err # 0
                        THEN fs' = h.fs /\ node' = h.node /\ UNCHANGED <<kdent, kdrop>>
                        ELSE /\ fs' = r.fs /\ node' = r.node
                             /\ IF r.err = 0 THEN KRename(KNode(d1, nm1), t, d1, nm1, d2, nm2)
                                             ELSE UNCHANGED <<kdent, kdrop>>
  /\ UNCHANGED <<ctr, generation, kref, kfile, kino>>

(***************************************************************************)
(* do_open: get_path, the user's open; then the kernel takes the reply    *)
(* and open_count is counted, or the write fails with ENOENT and the      *)
(* user's release closes the file again.  The VFS opens a non-directory   *)
(* through its hashed dentry.                                             *)
(***************************************************************************)
DoOpen(n) ==
  /\ uniq < MaxReq /\ uniq' = uniq + 1
  /\ n \in Held \ {RootId} /\ HasDentry(n)
  /\ LET p == PathOf(node, n)
     IN  /\ p # NoPath => ~IsDir(fs, p)
         /\ IF p = NoPath \/ ~Exists(fs, p)
            THEN UNCHANGED <<node, kfile, kino>>
            ELSE \/ /\ node' = [node EXCEPT ![n].open_count = @ + 1]
                    /\ kfile' = [kfile EXCEPT ![n] = @ + 1]
                    /\ kino' = [kino EXCEPT ![n] = @ \cup {fs[p]}]
                 \/ UNCHANGED <<node, kfile, kino>>
  /\ UNCHANGED <<ctr, generation, hidectr, fs, kref, kdent, kdrop>>

(***************************************************************************)
(* do_release: under f->lock open_count--, and unlink_hidden when that     *)
(* was the last open of a hidden node; then get_path, the user's release  *)
(* and, when there is a path, the user's unlink of it.  The kernel's last *)
(* close of the file releases the dentry it held.                         *)
(***************************************************************************)
\* Seeded fault for mutation analysis: unlink_hidden without the count.
UnlinkHiddenAnyOpen(nd, n) == nd[n].is_hidden

\* unlink_hidden, on the table after the decrement.
UnlinkHidden(nd, n) == nd[n].is_hidden /\ nd[n].open_count = 0

DoRelease(n) ==
  /\ kfile[n] > 0
  /\ LET nd1 == [node EXCEPT ![n].open_count = @ - 1]
         p == PathOf(nd1, n)
     IN  /\ node' = nd1
         /\ fs' = IF UnlinkHidden(nd1, n) /\ p # NoPath THEN XmpUnlink(fs, p).fs ELSE fs
  /\ kfile' = [kfile EXCEPT ![n] = @ - 1]
  /\ IF kfile[n] > 1 THEN UNCHANGED <<kino, kdent, kdrop>>
     ELSE /\ kino' = [kino EXCEPT ![n] = {}]
          /\ kdrop' = kdrop \ {n}
          /\ kdent' = IF n \in kdrop THEN [kdent EXCEPT ![n] = NoDent] ELSE kdent
  /\ UNCHANGED <<ctr, generation, hidectr, kref, uniq>>

\* do_getattr: get_path (ENOENT without one) and the user's getattr; the
\* object whose attributes the reply carries.
DoGetattr(n) ==
  LET p == PathOf(node, n)
  IN  IF p = NoPath \/ ~Exists(fs, p) THEN [err |-> ENOENT, obj |-> 0]
      ELSE [err |-> 0, obj |-> fs[p]]

\* The kernel evicts a dentry that no child dentry and no open file pins.
DropDentry(n) ==
  /\ kdent[n] # NoDent /\ kfile[n] = 0 /\ \A m \in Held : kdent[m][1] # n
  /\ kdent' = [kdent EXCEPT ![n] = NoDent]
  /\ UNCHANGED <<node, ctr, generation, fs, kref, uniq, openVars>>

\* do_forget: the kernel forgets k of its lookups of n, all of them only
\* when no dentry pins the inode.
DoForget(n, k) ==
  /\ n \in Held \ {RootId} /\ k \in 1 .. kref[n]
  /\ k = kref[n] => kdent[n] = NoDent
  /\ node' = ForgetNode(node, n, k)
  /\ kref' = [kref EXCEPT ![n] = @ - k]
  /\ UNCHANGED <<ctr, generation, fs, kdent, uniq, openVars>>

\* The request bound is reached: the kernel may still forget, or idle.
Done == uniq = MaxReq /\ UNCHANGED <<node, ctr, generation, fs, kref, kdent, uniq, openVars>>

Step ==
  \/ \E d \in Ids, nm \in KNames :
       \/ DoLookup(d, nm) \/ DoMknod(d, nm) \/ DoMkdir(d, nm)
       \/ DoSymlink(d, nm) \/ DoUnlink(d, nm) \/ DoRmdir(d, nm)
       \/ \E o \in Ids : DoLink(o, d, nm)
       \/ \E d2 \in Ids, nm2 \in KNames : DoRename(d, nm, d2, nm2)
  \/ \E n \in Ids : DoOpen(n) \/ DoRelease(n)
  \/ \E n \in Ids : DropDentry(n) \/ \E k \in 1 .. MaxReq : DoForget(n, k)
  \/ Done

Next ==
  /\ Step
  /\ issued' = issued \cup {<<n, node'[n].generation>> : n \in DOMAIN node'}

Spec == Init /\ [][Next]_vars

-----------------------------------------------------------------------------
(***************************************************************************)
(* Properties.                                                             *)
(***************************************************************************)
TypeOK ==
  /\ DOMAIN node \subseteq Ids /\ RootId \in DOMAIN node
  /\ \A n \in DOMAIN node :
       /\ node[n].parent \in {0} \cup Ids /\ node[n].nlookup \in Nat
       /\ node[n].refctr \in Nat \ {0} /\ node[n].generation \in Nat
       /\ node[n].open_count \in Nat /\ node[n].is_hidden \in BOOLEAN
  /\ ctr \in 0 .. CtrMod - 1 /\ hidectr \in 0 .. Len(HiddenNames)
  /\ fs \in [DOMAIN fs -> Inos \cup {Dir}] /\ DOMAIN fs \subseteq Paths
  /\ kref \in [Ids -> Nat]
  /\ kdent \in [Ids -> ({0} \cup Ids) \X (Names \cup {NoName})]
  /\ kdrop \subseteq Ids /\ kfile \in [Ids -> Nat] /\ kino \in [Ids -> SUBSET Inos]

\* next_id and find_node: a node allocated by find_node never carries a
\* (nodeid, generation) pair issued before, across the wrap of ctr, so
\* the kernel can tell a reused nodeid from its earlier incarnation.
FreshNodeIdentity ==
  [][\A n \in DOMAIN node' \ DOMAIN node :
       <<n, node'[n].generation>> \notin issued]_vars

\* A hidden node whose last open file is released keeps its name entry
\* after do_release unlinked the file; it is the only stale one.
Released(n) == node[n].is_hidden /\ node[n].open_count = 0

\* Every node of the table whose parent chain reaches the root names a
\* path the host filesystem has: remove_node, rename_node and hide_node
\* keep the name table in step with what the user's unlink, rmdir and
\* rename did.
TablePathsExist ==
  \A n \in DOMAIN node :
    PathOf(node, n) # NoPath /\ ~Released(n) => Exists(fs, PathOf(node, n))

\* An fstat(2) of an open file: GETATTR of its nodeid finds, through
\* get_path and the user's lstat, the object the file was opened on, for
\* as long as it is open, however it was unlinked or renamed over
\* meanwhile (do_getattr, hide_node, do_release).  A rename onto it from
\* another directory, followed by the eviction and forget of its
\* directory, needs four nodeids and breaks it (open_rename_forget).
OpenFileStat ==
  \A n \in Ids :
    kfile[n] > 0 => DoGetattr(n).err = 0 /\ kino[n] = {DoGetattr(n).obj}

\* The hidden files on the host are exactly those of hidden nodes still
\* open, each at the path get_path gives its node: hide_node makes one per
\* open unlinked file, and the last do_release removes it, so none is
\* leaked and none is unreachable.
HiddenAccounted ==
  {p \in DOMAIN fs : \E i \in 1 .. Len(p) : p[i] \in HiddenSet}
    = {PathOf(node, n) : n \in {m \in DOMAIN node : node[m].is_hidden
                                                   /\ node[m].open_count > 0}}

\* The kernel's dentry cache and the library's name table agree: a dentry
\* the kernel holds for (directory, name) names a node that lookup_node
\* finds under that parent and name, through the hashing of find_node,
\* the unhashing of remove_node and hide_node, the moves of rename_node
\* and the detaching of forget_node.  Dentries the kernel has dropped
\* (unlinked or renamed-over targets) are exempt.
KernelDentriesAgree ==
  \A n \in Held \ kdrop :
    kdent[n] # NoDent =>
      /\ n \in Hashed(node)
      /\ <<node[n].parent, node[n].name>> = kdent[n]

(***************************************************************************)
(* Refinement.  A nodeid the kernel holds (nlookup > 0) is bound to the   *)
(* path get_path_name builds for it, or Gone when that fails or the node *)
(* is hidden; any other nodeid is Free.  Its reference count is nlookup.  *)
(* The hidden files are not part of the namespace the kernel sees.        *)
(***************************************************************************)
HPath ==
  [n \in Ids |->
     IF n \notin DOMAIN node \/ node[n].nlookup = 0 THEN Free
     ELSE IF node[n].is_hidden \/ PathOf(node, n) = NoPath THEN Gone
     ELSE PathOf(node, n)]

HRefs == [n \in Ids |-> IF n \in DOMAIN node THEN node[n].nlookup ELSE 0]

Visible(f) ==
  Restrict(f, {p \in DOMAIN f : \A i \in 1 .. Len(p) : p[i] \notin HiddenSet})

NS == INSTANCE FuseNamespace
        WITH Handles <- Ids, RootH <- RootId, hpath <- HPath, hrefs <- HRefs,
             fs <- Visible(fs), Names <- KNames,
             InitFs <- {Visible(f) : f \in InitFs}

\* The node directory and the handlers implement the path-level promise of
\* FuseNamespace: nodeids follow renames, die with their object, are
\* shared by lookups of one path and are undone by an untaken reply.
NamespaceRefined == NS!NSSpec

=============================================================================
