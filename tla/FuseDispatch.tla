---------------------------- MODULE FuseDispatch ----------------------------
(***************************************************************************)
(* Worker threads of lib/fuse.c running the request handlers that create, *)
(* forget, unlink, rename, open and release nodes, against the node table  *)
(* of FuseNodeTable, the tree rw-lock, the node mutex f->lock, the user    *)
(* filesystem and the kernel that sends the requests.                      *)
(*                                                                         *)
(* A handler is cut into steps only where it releases or acquires a lock  *)
(* that another thread can observe: a section run under f->lock alone, or *)
(* under the tree read lock without holding it across a reply, is one    *)
(* step.  The user filesystem is a single directory (the root) whose      *)
(* entries are the set  fs ; every request names the root as its parent.  *)
(***************************************************************************)
EXTENDS FuseNodeTable, TLC

CONSTANTS
  Workers,      \* threads calling fuse_read_cmd / fuse_process_cmd
  Names,        \* names the kernel uses in requests
  HiddenNames,  \* <<...>>: the names hidden_name produces, by hidectr
  Leftovers,    \* hidden files a previous mount left in the directory
  HardRemove,   \* the "hard_remove" library option
  MaxReq,       \* bound on the request uniques the kernel issues
  None

ASSUME HardRemove \in BOOLEAN /\ MaxReq \in Nat
ASSUME Leftovers \subseteq {HiddenNames[i] : i \in 1 .. Len(HiddenNames)}
ASSUME \A i \in 1 .. Len(HiddenNames) : HiddenNames[i] \notin Names

VARIABLES
  node, ctr, generation, hidectr,  \* struct fuse: the node directory
  fs,                  \* entries of the user filesystem's root directory
  writer, readers,     \* f->tree_lock held across steps
  mutex,               \* f->lock held across steps (only do_open does)
  pc, req, found, uhid,  \* per worker: step, request, node found, unlink_hidden
  kref, kver, kopen,   \* kernel: lookup count, version, open handles per nodeid
  kdent,               \* kernel dentry cache: name -> nodeid, 0 if none
  uniq,                \* last request unique issued
  destroyed            \* fuse_destroy has run

tableVars  == <<node, ctr, generation, hidectr, destroyed>>
lockVars   == <<writer, readers, mutex>>
workerVars == <<pc, req, found, uhid>>
kernelVars == <<kref, kver, kopen, kdent, uniq>>
vars == <<tableVars, fs, lockVars, workerVars, kernelVars>>

Ops == {"LOOKUP", "MKNOD", "UNLINK", "RENAME", "OPEN", "READ", "RELEASE"}
Idle(w) == pc[w] = "idle"
Busy == {w \in Workers : ~Idle(w)}
HiddenSet == {HiddenNames[i] : i \in 1 .. Len(HiddenNames)}
Leaf(path) == path[Len(path)]

NoReq == [op |-> "NONE", nodeid |-> 0, name |-> NoName, newname |-> NoName,
          unique |-> 0]

Init ==
  /\ node = InitTable /\ ctr = 0 /\ generation = 0 /\ hidectr = 0
  /\ fs \in {s \cup Leftovers : s \in SUBSET Names}
  /\ writer = None /\ readers = {} /\ mutex = None
  /\ pc = [w \in Workers |-> "idle"]
  /\ req = [w \in Workers |-> NoReq]
  /\ found = [w \in Workers |-> 0]
  /\ uhid = [w \in Workers |-> FALSE]
  /\ kref = [n \in Ids |-> IF n = RootId THEN 1 ELSE 0]
  /\ destroyed = FALSE
  /\ kver = [n \in Ids |-> 0]
  /\ kopen = [n \in Ids |-> 0]
  /\ kdent = [nm \in Names |-> 0]
  /\ uniq = 0

\* A section that takes f->lock, or the tree read lock, may start.
MutexFree == mutex = None
NoWriter  == writer = None

\* The handler has sent its reply; the worker goes back to reading.
Finish(w) ==
  /\ pc' = [pc EXCEPT ![w] = "idle"]
  /\ req' = [req EXCEPT ![w] = NoReq]
  /\ found' = [found EXCEPT ![w] = 0]
  /\ uhid' = [uhid EXCEPT ![w] = FALSE]

(***************************************************************************)
(* The kernel.  It names in a request only what it holds: a dentry for    *)
(* the source of UNLINK and RENAME, an inode for OPEN, an open handle for *)
(* RELEASE.  Sending a RELEASE gives up the handle.  A worker takes the   *)
(* request in fuse_read_cmd and fuse_process_cmd dispatches on the opcode.*)
(***************************************************************************)
Request(op, n, nm, nn) ==
  [op |-> op, nodeid |-> n, name |-> nm, newname |-> nn, unique |-> uniq + 1]

ReadCmd(w) ==
  /\ Idle(w) /\ uniq < MaxReq /\ ~destroyed
  /\ \/ \E nm \in Names :
          req' = [req EXCEPT ![w] = Request("LOOKUP", RootId, nm, NoName)]
     \/ \E nm \in Names : kdent[nm] = 0
          /\ req' = [req EXCEPT ![w] = Request("MKNOD", RootId, nm, NoName)]
     \/ \E nm \in Names : kdent[nm] # 0
          /\ req' = [req EXCEPT ![w] = Request("UNLINK", RootId, nm, NoName)]
     \/ \E a, b \in Names : a # b /\ kdent[a] # 0
          /\ req' = [req EXCEPT ![w] = Request("RENAME", RootId, a, b)]
     \/ \E n \in Ids : kref[n] > 0 /\ n # RootId
          /\ req' = [req EXCEPT ![w] = Request("OPEN", n, NoName, NoName)]
     \/ \E n \in Ids : kopen[n] > 0
          /\ req' = [req EXCEPT ![w] = Request("READ", n, NoName, NoName)]
  /\ pc' = [pc EXCEPT ![w] = req'[w].op]
  /\ uniq' = uniq + 1
  /\ UNCHANGED <<tableVars, fs, lockVars, found, uhid, kref, kver, kopen, kdent>>

\* Data requests on an open handle (READ, WRITE, FLUSH, FSYNC) in flight.
DataInFlight(n) == Cardinality({w \in Busy : req[w].op = "READ" /\ req[w].nodeid = n})

\* close() of the last descriptor of a handle: a read or write system call
\* holds the file, so a handle is released only once its data requests
\* are replied.
ReadRelease(w) ==
  /\ Idle(w) /\ uniq < MaxReq /\ ~destroyed
  /\ \E n \in Ids : kopen[n] > DataInFlight(n)
       /\ req' = [req EXCEPT ![w] = Request("RELEASE", n, NoName, NoName)]
       /\ kopen' = [kopen EXCEPT ![n] = @ - 1]
  /\ pc' = [pc EXCEPT ![w] = "RELEASE"]
  /\ uniq' = uniq + 1
  /\ UNCHANGED <<tableVars, fs, lockVars, found, uhid, kref, kver, kdent>>

\* An inode is pinned while it has open handles, a dentry, or a request
\* in flight on it; the kernel forgets only unpinned inodes entirely.
Pinned(n) ==
  \/ kopen[n] > 0
  \/ \E nm \in Names : kdent[nm] = n
  \/ \E w \in Busy : req[w].nodeid = n

\* The kernel evicts a dentry that no request in flight uses.
DropDentry ==
  ~destroyed /\ \E nm \in Names :
    /\ kdent[nm] # 0
    /\ \A w \in Busy : nm \notin {req[w].name, req[w].newname}
    /\ kdent' = [kdent EXCEPT ![nm] = 0]
    /\ UNCHANGED <<tableVars, fs, lockVars, workerVars, kref, kver, kopen, uniq>>

(***************************************************************************)
(* do_forget, run by the reading thread inside fuse_read_cmd.  Protocol 7 *)
(* carries a count (any part of what the kernel holds, all of it only for *)
(* an unpinned inode); protocols 5 and 6 carry the version of the last    *)
(* lookup and drop the inode entirely.                                     *)
(***************************************************************************)
DoForget ==
  /\ ~destroyed /\ MutexFree /\ Busy # Workers
  /\ \E n \in Ids \ {RootId} :
       /\ kref[n] > 0
       /\ IF Major <= 6
          THEN /\ ~Pinned(n)
               /\ node' = ForgetNodeOld(node, n, kver[n])
               /\ kref' = [kref EXCEPT ![n] = 0]
          ELSE \E k \in 1 .. kref[n] :
               /\ k = kref[n] => ~Pinned(n)
               /\ node' = ForgetNode(node, n, k)
               /\ kref' = [kref EXCEPT ![n] = @ - k]
  /\ UNCHANGED <<ctr, generation, destroyed, hidectr, fs, lockVars, workerVars,
                 kver, kopen, kdent, uniq>>

(***************************************************************************)
(* lookup_path, with f the filesystem after the user's call: the user's   *)
(* getattr, then find_node; a failure is replied at once.                 *)
(***************************************************************************)
LookupPath(w, f) ==
  LET nm == req[w].name
      r == FindNode(node, ctr, generation, RootId, nm, req[w].unique)
  IN  IF nm \in f
      THEN /\ FreeId(node)
           /\ node' = r.node /\ ctr' = r.ctr /\ generation' = r.generation
           /\ found' = [found EXCEPT ![w] = r.id]
           /\ pc' = [pc EXCEPT ![w] = "reply_entry"]
           /\ UNCHANGED <<uhid, req>>
      ELSE /\ Finish(w)
           /\ UNCHANGED <<node, ctr, generation>>

\* do_lookup up to the reply, under the tree read lock.
Lookup(w) ==
  /\ pc[w] = "LOOKUP" /\ NoWriter /\ MutexFree
  /\ LookupPath(w, fs)
  /\ UNCHANGED <<hidectr, destroyed, fs, lockVars, kernelVars>>

\* do_mknod up to the reply, under the tree read lock: the user's mknod
\* (EEXIST if the name is taken), then lookup_path.
Mknod(w) ==
  /\ pc[w] = "MKNOD" /\ NoWriter /\ MutexFree
  /\ IF req[w].name \in fs
     THEN /\ Finish(w)
          /\ UNCHANGED <<node, ctr, generation, fs>>
     ELSE /\ fs' = fs \cup {req[w].name}
          /\ LookupPath(w, fs')
  /\ UNCHANGED <<hidectr, destroyed, lockVars, kernelVars>>

\* send_reply of the entry: the kernel takes it, or the write fails with
\* ENOENT because the request was interrupted.
EntryReply(w) ==
  /\ pc[w] = "reply_entry"
  /\ LET n == found[w] IN
     \/ /\ kref' = [kref EXCEPT ![n] = @ + 1]
        /\ kver' = [kver EXCEPT ![n] = req[w].unique]
        /\ kdent' = [kdent EXCEPT ![req[w].name] = n]
        /\ Finish(w)
     \/ /\ pc' = [pc EXCEPT ![w] = "cancel"]
        /\ UNCHANGED <<kref, kver, kdent, found, uhid, req>>
  /\ UNCHANGED <<tableVars, fs, lockVars, kopen, uniq>>

\* cancel_lookup after the interrupted reply.
Cancel(w) ==
  /\ pc[w] = "cancel" /\ MutexFree
  /\ node' = CancelLookup(node, found[w], req[w].unique)
  /\ Finish(w)
  /\ UNCHANGED <<ctr, generation, destroyed, hidectr, fs, lockVars, kernelVars>>

(***************************************************************************)
(* hidden_name.  The inner loop bumps hidectr past every name the table   *)
(* has in the directory; the name is then probed with the user's getattr, *)
(* and one that exists is given up for the next, failctr (10) times in   *)
(* all.  Returns the name (NoName: none found) and the new hidectr.  The *)
(* sequence HiddenNames stands for the unbounded hidectr: a probe that    *)
(* would run past it is not taken (CanHide).                              *)
(***************************************************************************)
FailCtr == 10

RECURSIVE NextHidden(_)
NextHidden(c) ==
  IF c > Len(HiddenNames) THEN c
  ELSE IF LookupNode(node, RootId, HiddenNames[c]) = 0 THEN c
  ELSE NextHidden(c + 1)

\* hidden_name without the getattr probe: the first name free in the table.
HiddenNameNoProbe(c, tries) ==
  LET c1 == NextHidden(c + 1)
  IN  [name |-> IF c1 > Len(HiddenNames) THEN NoName ELSE HiddenNames[c1],
       ctr |-> c1]

RECURSIVE HiddenName(_, _)
HiddenName(c, tries) ==
  LET c1 == NextHidden(c + 1)
  IN  CASE c1 > Len(HiddenNames)      -> [name |-> NoName, ctr |-> c1]
        [] HiddenNames[c1] \notin fs  -> [name |-> HiddenNames[c1], ctr |-> c1]
        [] tries = 1                  -> [name |-> NoName, ctr |-> c1]
        [] OTHER                      -> HiddenName(c1, tries - 1)

(***************************************************************************)
(* hide_node under the tree write lock: EBUSY unless hidden_name finds a  *)
(* name (the node must still be in the table) and the user's rename to it *)
(* succeeds; then rename_node with hide set.  Returns the table, fs,     *)
(* hidectr and error.                                                     *)
(***************************************************************************)
HideNode(nm) ==
  LET hn == HiddenName(hidectr, FailCtr)
      r  == RenameNode(node, RootId, nm, RootId, hn.name, TRUE)
  IN  CASE LookupNode(node, RootId, nm) = 0 ->
             [node |-> node, fs |-> fs, hidectr |-> hidectr, err |-> EBUSY]
        [] hn.name # NoName /\ nm \in fs ->
             [node |-> r.node, fs |-> (fs \ {nm}) \cup {hn.name},
              hidectr |-> hn.ctr, err |-> r.err]
        [] OTHER ->
             [node |-> node, fs |-> fs, hidectr |-> hn.ctr, err |-> EBUSY]

CanHide == HiddenName(hidectr, FailCtr).ctr <= Len(HiddenNames)

\* The kernel's dentry cache after a successful UNLINK or RENAME reply.
UnlinkedDentry(nm) == [kdent EXCEPT ![nm] = 0]
RenamedDentry(a, b) == [kdent EXCEPT ![b] = kdent[a], ![a] = 0]

(***************************************************************************)
(* do_unlink: take the tree write lock; an open file is hidden (unless   *)
(* hard_remove), anything else is unlinked and remove_node'd at once.     *)
(***************************************************************************)
UnlinkStart(w) ==
  /\ pc[w] = "UNLINK" /\ NoWriter /\ readers = {} /\ MutexFree
  /\ LET nm == req[w].name IN
     IF ~HardRemove /\ IsOpen(node, RootId, nm)
     THEN /\ writer' = w
          /\ pc' = [pc EXCEPT ![w] = "unlink_hide"]
          /\ UNCHANGED <<node, fs, kdent, found, uhid, req>>
     ELSE /\ IF nm \in fs
             THEN /\ fs' = fs \ {nm}
                  /\ node' = RemoveNode(node, RootId, nm)
                  /\ kdent' = UnlinkedDentry(nm)
             ELSE UNCHANGED <<fs, node, kdent>>
          /\ Finish(w)
          /\ UNCHANGED writer
  /\ UNCHANGED <<ctr, generation, destroyed, hidectr, readers, mutex,
                 kref, kver, kopen, uniq>>

UnlinkHide(w) ==
  /\ pc[w] = "unlink_hide" /\ MutexFree /\ CanHide
  /\ LET r == HideNode(req[w].name) IN
     /\ node' = r.node /\ fs' = r.fs /\ hidectr' = r.hidectr
     /\ kdent' = IF r.err = 0 THEN UnlinkedDentry(req[w].name) ELSE kdent
  /\ writer' = None
  /\ Finish(w)
  /\ UNCHANGED <<ctr, generation, destroyed, readers, mutex, kref, kver, kopen, uniq>>

(***************************************************************************)
(* do_rename: take the tree write lock; an open target is hidden first    *)
(* (unless hard_remove); then the user's rename and rename_node.           *)
(***************************************************************************)
DoRename(a, b, nd, f) ==
  IF a \in f
  THEN LET r == RenameNode(nd, RootId, a, RootId, b, FALSE)
       IN  [node |-> r.node, fs |-> (f \ {a}) \cup {b}, err |-> r.err]
  ELSE [node |-> nd, fs |-> f, err |-> 2]  \* ENOENT from the user's rename

RenameStart(w) ==
  /\ pc[w] = "RENAME" /\ NoWriter /\ readers = {} /\ MutexFree
  /\ LET a == req[w].name
         b == req[w].newname
         r == DoRename(a, b, node, fs)
     IN  IF ~HardRemove /\ IsOpen(node, RootId, b)
         THEN /\ writer' = w
              /\ pc' = [pc EXCEPT ![w] = "rename_hide"]
              /\ UNCHANGED <<node, fs, kdent, found, uhid, req>>
         ELSE /\ node' = r.node /\ fs' = r.fs
              /\ kdent' = IF r.err = 0 THEN RenamedDentry(a, b) ELSE kdent
              /\ Finish(w)
              /\ UNCHANGED writer
  /\ UNCHANGED <<ctr, generation, destroyed, hidectr, readers, mutex,
                 kref, kver, kopen, uniq>>

RenameHide(w) ==
  /\ pc[w] = "rename_hide" /\ MutexFree /\ CanHide
  /\ LET a == req[w].name
         b == req[w].newname
         h == HideNode(b)
         r == DoRename(a, b, h.node, h.fs)
     IN  /\ hidectr' = h.hidectr
         /\ IF h.err = 0
            THEN /\ node' = r.node /\ fs' = r.fs
                 /\ kdent' = IF r.err = 0 THEN RenamedDentry(a, b) ELSE kdent
            ELSE /\ node' = h.node /\ fs' = h.fs
                 /\ UNCHANGED kdent
  /\ writer' = None
  /\ Finish(w)
  /\ UNCHANGED <<ctr, generation, destroyed, readers, mutex, kref, kver, kopen, uniq>>

(***************************************************************************)
(* do_open: under the tree read lock, get_path and the user's open; on    *)
(* success take f->lock and send the reply while holding it, then either  *)
(* count the open or, if the write failed with ENOENT, call release.       *)
(***************************************************************************)
\* Seeded fault for mutation analysis: do_open sending the reply without
\* holding f->lock.
OpenStartUnlocked(w) ==
  /\ pc[w] = "OPEN" /\ NoWriter /\ MutexFree
  /\ LET n == req[w].nodeid
         path == PathOf(node, n)
     IN  IF path # NoPath /\ Leaf(path) \in fs
         THEN /\ readers' = readers \cup {w}
              /\ \/ /\ kopen' = [kopen EXCEPT ![n] = @ + 1]
                    /\ pc' = [pc EXCEPT ![w] = "open_count"]
                 \/ /\ pc' = [pc EXCEPT ![w] = "open_undo"]
                    /\ UNCHANGED kopen
              /\ UNCHANGED <<found, uhid, req, mutex>>
         ELSE /\ Finish(w)
              /\ UNCHANGED <<mutex, readers, kopen>>
  /\ UNCHANGED <<tableVars, fs, writer, kref, kver, kdent, uniq>>

OpenStart(w) ==
  /\ pc[w] = "OPEN" /\ NoWriter /\ MutexFree
  /\ LET n == req[w].nodeid
         path == PathOf(node, n)
     IN  IF path # NoPath /\ Leaf(path) \in fs
         THEN /\ mutex' = w
              /\ readers' = readers \cup {w}
              /\ \/ /\ kopen' = [kopen EXCEPT ![n] = @ + 1]
                    /\ pc' = [pc EXCEPT ![w] = "open_count"]
                 \/ /\ pc' = [pc EXCEPT ![w] = "open_undo"]
                    /\ UNCHANGED kopen
              /\ UNCHANGED <<found, uhid, req>>
         ELSE /\ Finish(w)
              /\ UNCHANGED <<mutex, readers, kopen>>
  /\ UNCHANGED <<tableVars, fs, writer, kref, kver, kdent, uniq>>

OpenCount(w) ==
  /\ pc[w] \in {"open_count", "open_undo"}
  /\ node' = IF pc[w] = "open_count"
             THEN [node EXCEPT ![req[w].nodeid].open_count = @ + 1]
             ELSE node
  /\ mutex' = None
  /\ readers' = readers \ {w}
  /\ Finish(w)
  /\ UNCHANGED <<ctr, generation, destroyed, hidectr, fs, writer, kernelVars>>

(***************************************************************************)
(* do_read, and do_write, do_flush and do_fsync alike: under the tree     *)
(* read lock, get_path of the nodeid (ENOENT if it has none) and the      *)
(* user's call with the path and the file handle; then the reply.         *)
(***************************************************************************)
DataIO(w) ==
  /\ pc[w] = "READ" /\ NoWriter /\ MutexFree
  /\ Finish(w)
  /\ UNCHANGED <<tableVars, fs, lockVars, kernelVars>>

(***************************************************************************)
(* do_release: under f->lock alone, drop open_count and decide whether a  *)
(* hidden file is to be unlinked; then, under the tree read lock, the     *)
(* user's release and, if so decided, unlink of the current path.         *)
(***************************************************************************)
\* Seeded fault for mutation analysis: unlink_hidden decided without
\* looking at open_count.
ReleaseCountAnyOpen(w) ==
  /\ pc[w] = "RELEASE" /\ MutexFree
  /\ LET n == req[w].nodeid
         nd == [node EXCEPT ![n].open_count = @ - 1]
     IN  /\ node' = nd
         /\ uhid' = [uhid EXCEPT ![w] = nd[n].is_hidden]
  /\ pc' = [pc EXCEPT ![w] = "release_unlink"]
  /\ UNCHANGED <<ctr, generation, destroyed, hidectr, fs, lockVars, req, found, kernelVars>>

\* Seeded fault for mutation analysis: unlink_hidden computed from the
\* count before the decrement.
ReleaseCountBeforeDec(w) ==
  /\ pc[w] = "RELEASE" /\ MutexFree
  /\ LET n == req[w].nodeid
     IN  /\ node' = [node EXCEPT ![n].open_count = @ - 1]
         /\ uhid' = [uhid EXCEPT ![w] = node[n].is_hidden /\ node[n].open_count = 0]
  /\ pc' = [pc EXCEPT ![w] = "release_unlink"]
  /\ UNCHANGED <<ctr, generation, destroyed, hidectr, fs, lockVars, req, found, kernelVars>>

ReleaseCount(w) ==
  /\ pc[w] = "RELEASE" /\ MutexFree
  /\ LET n == req[w].nodeid
         nd == [node EXCEPT ![n].open_count = @ - 1]
     IN  /\ node' = nd
         /\ uhid' = [uhid EXCEPT ![w] = nd[n].is_hidden /\ nd[n].open_count = 0]
  /\ pc' = [pc EXCEPT ![w] = "release_unlink"]
  /\ UNCHANGED <<ctr, generation, destroyed, hidectr, fs, lockVars, req, found, kernelVars>>

ReleaseUnlink(w) ==
  /\ pc[w] = "release_unlink" /\ NoWriter /\ MutexFree
  /\ LET path == PathOf(node, req[w].nodeid)
     IN  fs' = IF uhid[w] /\ path # NoPath THEN fs \ {Leaf(path)} ELSE fs
  /\ Finish(w)
  /\ UNCHANGED <<tableVars, lockVars, kernelVars>>

-----------------------------------------------------------------------------

\* The model's bound on requests is reached and every worker is idle.
Done ==
  /\ (uniq = MaxReq /\ Busy = {}) \/ destroyed
  /\ UNCHANGED vars

(***************************************************************************)
(* fuse_destroy, after the loop has returned on unmount (which the kernel *)
(* allows with no file open): every node still in the id table that is   *)
(* hidden and has a path gets the user's unlink; then the table is freed  *)
(* and nothing happens any more.                                          *)
(***************************************************************************)
Destroy ==
  /\ ~destroyed /\ Busy = {} /\ \A n \in Ids : kopen[n] = 0
  /\ destroyed' = TRUE
  /\ fs' = fs \ {Leaf(PathOf(node, n)) :
                 n \in {m \in DOMAIN node : node[m].is_hidden /\ PathOf(node, m) # NoPath}}
  /\ UNCHANGED <<node, ctr, generation, hidectr, lockVars, workerVars, kernelVars>>

Step(w) ==
  \/ Lookup(w) \/ Mknod(w) \/ EntryReply(w) \/ Cancel(w)
  \/ UnlinkStart(w) \/ UnlinkHide(w)
  \/ RenameStart(w) \/ RenameHide(w)
  \/ OpenStart(w) \/ OpenCount(w) \/ DataIO(w)
  \/ ReleaseCount(w) \/ ReleaseUnlink(w)

Next ==
  \/ \E w \in Workers : ReadCmd(w) \/ ReadRelease(w) \/ Step(w)
  \/ DoForget
  \/ DropDentry
  \/ Destroy
  \/ Done

Spec == Init /\ [][Next]_vars

-----------------------------------------------------------------------------
(***************************************************************************)
(* Properties.                                                             *)
(***************************************************************************)
Pcs == {"idle", "reply_entry", "cancel", "unlink_hide", "rename_hide",
        "open_count", "open_undo", "release_unlink"} \cup Ops

NodeType ==
  [parent : {0} \cup Ids, name : Names \cup HiddenSet \cup {NoName, "/"},
   refctr : Nat, nlookup : Nat, version : 0 .. MaxReq, open_count : Int,
   is_hidden : BOOLEAN, generation : Nat]

TypeOK ==
  /\ DOMAIN node \subseteq Ids /\ RootId \in DOMAIN node
  /\ \A n \in DOMAIN node : node[n] \in NodeType
  /\ ctr \in 0 .. CtrMod - 1 /\ hidectr \in 0 .. Len(HiddenNames)
  /\ fs \subseteq Names \cup HiddenSet
  /\ writer \in Workers \cup {None} /\ readers \subseteq Workers
  /\ mutex \in Workers \cup {None}
  /\ pc \in [Workers -> Pcs] /\ found \in [Workers -> {0} \cup Ids]
  /\ uhid \in [Workers -> BOOLEAN]
  /\ kref \in [Ids -> Nat] /\ kver \in [Ids -> 0 .. MaxReq]
  /\ kopen \in [Ids -> Nat] /\ kdent \in [Names -> {0} \cup Ids]

\* Every nodeid the kernel holds, as an inode, a dentry, an open handle or
\* the target of a request in flight, is in the id table: get_node on it,
\* which every handler does, would otherwise abort the process.
KernelNodesLive ==
  \A n \in Ids :
    (\/ kref[n] > 0 \/ kopen[n] > 0 \/ \E nm \in Names : kdent[nm] = n
     \/ \E w \in Busy : req[w].nodeid = n)
    => n \in DOMAIN node

\* Lookups found by find_node whose reply is not yet settled.
PendingLookups(n) ==
  Cardinality({w \in Workers : pc[w] \in {"reply_entry", "cancel"} /\ found[w] = n})

\* (protocol 7) A node's nlookup is exactly the lookups the kernel holds on
\* it plus those whose reply is still being sent or cancelled: FORGET and
\* cancel_lookup undo find_node's count exactly, in any interleaving.
LookupCountExact ==
  \A n \in DOMAIN node \ {RootId} : node[n].nlookup = kref[n] + PendingLookups(n)

\* refctr counts the hashed children and one for nlookup > 0; unhash_name,
\* forget_node and rename_node keep it so, and a node is freed exactly when
\* both are gone.
RefCountExact ==
  \A n \in DOMAIN node :
    /\ node[n].refctr > 0
    /\ node[n].refctr = (IF node[n].nlookup > 0 THEN 1 ELSE 0)
                     + Cardinality({c \in Hashed(node) : node[c].parent = n})

\* No two nodes in the name table share (parent, name).
NameIndexUnique ==
  \A m, n \in Hashed(node) :
    m # n => <<node[m].parent, node[m].name>> # <<node[n].parent, node[n].name>>

\* open_count equals the open handles the kernel holds, counting a RELEASE
\* sent but not yet counted down and an OPEN reply delivered but not yet
\* counted up; in particular do_release never finds open_count at zero.
OpenCountExact ==
  \A n \in DOMAIN node :
    /\ node[n].open_count >= 0
    /\ node[n].open_count
         + Cardinality({w \in Workers : pc[w] = "open_count" /\ req[w].nodeid = n})
       = kopen[n]
         + Cardinality({w \in Workers : pc[w] = "RELEASE" /\ req[w].nodeid = n})

\* do_read, do_write, do_flush, do_fsync on a handle the kernel holds
\* open: get_path finds a path, and the path names a file of the user
\* filesystem, however the file was unlinked or renamed over meanwhile
\* (hide_node) and whatever other handles were released (unlink_hidden
\* only once open_count is 0).  A path-based filesystem needs this; it
\* is what hard_remove gives up.
OpenFileReachable ==
  [][\A w \in Workers :
       pc[w] = "READ" /\ pc'[w] = "idle" =>
         LET p == PathOf(node, req[w].nodeid) IN p # NoPath /\ Leaf(p) \in fs]_vars

\* do_release and fuse_destroy: once the library is torn down, no file it
\* hid is left in the user filesystem; a hidden file is unlinked by the
\* last release or, if the node is still in the table, by fuse_destroy.
TeardownClean == destroyed => (fs \cap HiddenSet) \subseteq Leftovers

\* hidden_name and hide_node: the hidden files an earlier mount left in
\* the directory survive, and no node of this mount is ever named after
\* one: the getattr probe keeps hide_node's rename (and, on release,
\* unlink_hidden) off a file the table does not know.
LeftoversKept ==
  /\ Leftovers \subseteq fs
  /\ \A n \in DOMAIN node : node[n].name \notin Leftovers

=============================================================================
