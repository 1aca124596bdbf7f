# TLA+ models of the fuse-2.3.0 library core (`lib/fuse.c`) and its passthrough example

This directory holds TLA+ models of the high-level FUSE library in
`src/fuse-2.3.0/lib/fuse.c` and the TLC configurations that check them. The
library turns kernel requests, which name inodes by nodeid, into path-based
calls on a user filesystem. For that it keeps a directory of nodes that must
stay consistent with what the kernel holds, while several worker threads serve
requests concurrently.

## 1. Inventory of the system

| Part | Source | State | Operations | Status |
|---|---|---|---|---|
| Node directory | fuse.c 59-476, 562-633 | `struct node` (nodeid, generation, refctr, parent, name, version, nlookup, open_count, is_hidden); id table; name table; `ctr`, `generation`, `hidectr` | `hash_name`, `unhash_name`, `unref_node`/`delete_node`, `next_id`, `find_node`, `forget_node`, `forget_node_old`, `cancel_lookup`, `remove_node`, `rename_node`, `is_open`, `hidden_name`, `hide_node`, `get_path_name` | modelled (`FuseNodeTable`; driven by `FuseDispatch` and `FuseNodeDirectory`, abstract spec `FuseNamespace`) |
| Operation dispatcher | fuse.c 635-1845 | reply buffers; locks held | one `do_*` handler per opcode | partly (`FuseDispatch`, `FuseNodeDirectory`) |
| Directory-read buffer | fuse.c 1577-1845 | `struct fuse_dirhandle` (contents, len, filled, needlen, lock) | opendir, readdir fill, readdir, releasedir, fsyncdir | partly (`FuseDirHandle`) |
| Message loop and gates | fuse.c 1847-2131 | `got_init`, `exited`, request buffer | `fuse_read_cmd` (FORGET handled inline), `fuse_process_cmd` (INIT gate, allow_root gate, dispatch), `fuse_loop` | partly |
| Concurrency primitives | fuse.c 142-154, 2151-2233 | `tree_lock` (rwlock), `f->lock`, `worker_lock`/`numavail`, per-dirhandle lock | lock and unlock | partly |
| Construction, options, INIT, teardown | fuse.c 2061-2295 | flags, major/minor | `parse_lib_opts`, `fuse_new_common`, `do_init`, `fuse_destroy` | partly: root node and constants; `do_init` in `FuseSession`; `fuse_destroy` in `FuseDispatch` |
| Context plumbing | fuse.c 2133-2149 | none of interest | `fuse_get_context` | not modelled |
| Wire codec (compat 5) | fuse.c 24-57 | struct layouts | `PARAM_COMPAT`, `SIZEOF_COMPAT` | not modelled (byte layout) |
| Example `fusexmp_fh.c` | example/ | host filesystem | passthrough callbacks | partly: namespace callbacks (`FuseXmpFs`), opendir/readdir/releasedir (`FuseDirHandle`); `FuseDispatch` still uses a flat entry set |

**How the parts interact.**
- A worker thread reads one request in `fuse_read_cmd`.
- `FORGET` is handled right there, without the tree lock.
- `fuse_process_cmd` dispatches every other request to its handler.
- Handlers that resolve a nodeid to a path take `tree_lock`:
  - for reading in most handlers;
  - for writing in UNLINK, RMDIR and RENAME.
- They then call the user filesystem with the path.
- Every table operation runs under `f->lock`.
- A handler that creates a kernel reference (the entry replies of LOOKUP, MKNOD, MKDIR, SYMLINK and LINK, and OPEN) must undo its own bookkeeping when `send_reply` fails with ENOENT. That happens when the kernel has interrupted the request.
- Only `do_open` holds `f->lock` across the reply. It does so to order its `open_count++` before the RELEASE that the kernel may send as soon as it has the reply.

**Hard behaviours.**
- Workers interleave, and FORGET runs concurrently with every handler.
- Replies are interrupted, and lookups and opens are cancelled.
- Protocols 5/6 use a versioned FORGET instead of a counted one.
- Open files are hidden on unlink/rename.
- `next_id` wraps.
- Partial failure inside `hide_node`: the user's rename succeeds and `rename_node` fails.

## 2. Modules

- **`FuseNodeTable`** models the node directory. It is a library of operators, one per C function, over a table value `node`: a function from live nodeids to records. `DOMAIN node` is the id table. A non-root node is in the name table when its name is not `NoName`. Each operator returns the new table, so a handler step can compose the calls it makes under one hold of `f->lock`.
  - Constants: `CtrMod` (the width of `nodeid_t`), `Major` (the negotiated protocol), `NoName`, `NoPath`.
  - `FindNode` follows the C order: `lookup_node`; then `next_id`, `hash_name` and the version/nlookup update.
  - `NextIdFrom` is the `next_id` loop, with the wrap and the generation bump.
  - `PathOf` is `get_path_name`, failing on a detached ancestor.
- **`FuseDispatch`** extends `FuseNodeTable` with the worker threads, the locks, the user filesystem (one directory, the root) and the kernel.
  - A handler is split into steps only where it releases or takes a lock that another thread can observe:
    - `Lookup`/`Mknod` run under the read lock; then `EntryReply` (delivered or interrupted); then `Cancel` (`cancel_lookup`).
    - `UnlinkStart`: write lock, `is_open`; an unlink completes at once. `UnlinkHide` is `hide_node`.
    - `HiddenName` is `hidden_name`: `NextHidden` is its inner loop, bumping `hidectr` past names the table has, and each candidate is probed with getattr against `fs`, at most `FailCtr` (10) times before giving up with EBUSY. The C name `.fuse_hidden%08x%08x` is built from (nodeid, hidectr); the model's `HiddenNames[hidectr]` keeps only the counter, so a file in `Leftovers` (left in the directory by an earlier mount) stands for one whose name matches the node being hidden. `CanHide` stops a probe that would run past the end of `HiddenNames`, the stand-in for the unbounded counter.
    - `RenameStart` and `RenameHide` follow the same split.
    - `OpenStart`: read lock, user open, `f->lock` taken and the reply sent. `OpenCount`: `open_count++`, or the undo after an interrupted reply.
    - `DataIO` is `do_read`, and stands for `do_write`, `do_flush` and `do_fsync`, which have the same shape: tree read lock, `get_path` (ENOENT without one), the user's call with path and file handle, reply. The kernel sends them on open handles and releases a handle only once its data requests are replied (a read or write system call holds the file).
    - `ReleaseCount`: `f->lock` only, decrement, `unlink_hidden` decided. `ReleaseUnlink`: read lock, path, unlink of the hidden file.
    - `DoForget`: the reading thread's inline `do_forget`.
    - `Destroy` is `fuse_destroy` after an unmount, when every worker is idle and no file is open. It unlinks the file of every hidden node still in the id table. Nothing happens after it.
  - The kernel is an environment:
    - `kref` counts the lookups it holds per nodeid.
    - `kver` is the version of its last lookup, used by protocols 5/6.
    - `kopen` counts its open handles.
    - `kdent` is its dentry cache.
  - It sends only requests for what it holds. It forgets all of an inode only when no dentry, handle or in-flight request pins it; under protocol 7 it may forget part of the count at any time. `ReadCmd` and `ReadRelease` issue requests up to `MaxReq`. `DropDentry` evicts a dentry.
- **`MC_FuseDispatch`** gives the model values and the symmetry over workers.

- **`FuseXmpFs`** models the user filesystem of `example/fusexmp_fh.c`. Each namespace callback (`xmp_getattr`, `xmp_mknod`, `xmp_mkdir`, `xmp_symlink`, `xmp_unlink`, `xmp_rmdir`, `xmp_link`, `xmp_rename`) issues one system call on the host path. Each is an operator over the host tree `fs`: a function from paths (sequences of names) to `Dir` or an inode number, so hard links are two paths with one inode. An operator returns the new tree and the errno, with POSIX's order of precedence:
  - ENOENT, ENOTDIR, EEXIST, EISDIR, ENOTEMPTY, EPERM (a link to a directory) and EINVAL (a directory moved below itself);
  - a rename between two links of one inode is a successful no-op;
  - ENAMETOOLONG stands for the depth bound `MaxDepth`.
- **`FuseNamespace`** is the abstract specification: what the library promises the kernel about nodeids, stated over paths, with no node table.
  - A nodeid the kernel holds is bound to the path of its object.
  - It follows that object through renames of the object and of its ancestors.
  - It becomes `Gone` when the object is removed or replaced, or when a directory above it is forgotten.
  - It becomes `Free` when every lookup of it is forgotten.
  - A lookup of a path that is already bound returns that nodeid.
- **`FuseNodeDirectory`** drives `FuseNodeTable` with the handlers over a directory tree: `do_lookup`, `do_mknod`, `do_mkdir`, `do_symlink`, `do_link`, `do_unlink`, `do_rmdir`, cross-directory `do_rename`, `do_open`, `do_release` and `do_forget`. It runs one request at a time; the interleavings are the subject of `FuseDispatch`.
  - `do_unlink` and `do_rename` hide an open target with `hide_node` (`HideNode`). `hidden_name` (`HiddenName`, `NextHidden`) works in the target's directory: it skips names the table has there, builds the path with `get_path_name` and probes it with the user's getattr. `HiddenNames[c]` is the name made with `hidectr = c`; a hide whose probe would run past the sequence is not taken (`CanHide`).
  - `do_open` counts `open_count` when the kernel takes the reply. `do_release` decrements it, and when it was the last open of a hidden node (`UnlinkHidden`) unlinks the node's current path, if it has one. `DoGetattr` is `do_getattr`: `get_path`, then the user's `lstat`.
  - Each action is a whole handler: the path is built, the `FuseXmpFs` callback runs, and then comes the table operation (`find_node`, `remove_node` or `rename_node`) followed by the entry reply. The kernel may decline the reply, and `cancel_lookup` then runs.
  - The kernel is modelled as `kref` (lookups held) and `kdent` (at most one dentry per nodeid, given as a parent and a name). Its behaviour follows what the VFS does:
    - it looks a name up before it unlinks or renames it, and an existing rename target has a dentry;
    - requests go only to directories it has a dentry for;
    - a dentry pins its parent's dentry, and only a dentry with no child dentry is evicted;
    - all lookups of an inode are forgotten only when the inode has no dentry;
    - `kfile[n]` counts its open files on nodeid `n`, and `kino[n]` holds the host inodes they were opened on. An open file holds its dentry;
    - unlinking an open file leaves its dentry unhashed (`kdrop`) but still pinning its parent, until the last close;
    - a rename moves the source dentry (`d_move`). A replaced target that is open gets the source's old parent and name, as `d_move` swaps them, and stays unhashed;
    - it never sends a rename of a directory into itself, of a name onto its own ancestor, or between a directory and a non-directory;
    - it never names a hidden file (`KNames` excludes `HiddenNames`): no program is assumed to touch them.
  - The constant `AllocFail` names the allocations that may fail. When `find_node` must allocate, its `calloc` may fail before `next_id`, or `hash_name`'s `strdup` may fail after it (the counter has then moved on). Either way nothing enters the table and the reply is ENOMEM (`FindNodeNoMem`). In `rename_node`, `hash_name` may fail after the target and the source were unhashed (`RenameNodeNoMem`). The node is then left detached, and `do_rename` replies ENOMEM although the user's rename has succeeded.
  - The history variable `issued` records every (nodeid, generation) pair handed out.
  - The refinement mapping sends each nodeid with `nlookup > 0` to the path `get_path_name` builds for it, or to `Gone` when that fails or the node is hidden; every other nodeid maps to `Free`. Its reference count is `nlookup`. The abstract tree is the host tree without the hidden files (`Visible`), over the names the kernel uses. `NamespaceRefined` is `FuseNamespace`'s specification, checked as a PROPERTY.
  - `OpenFileStat`: while a file is open, GETATTR of its nodeid finds the object it was opened on. `HiddenAccounted`: the hidden files on the host are exactly the paths of hidden nodes that are still open. `KernelDentriesAgree`: every dentry the kernel still holds, for a directory and a name, names a node that is hashed in the library's table under that same parent and name. This is the kernel's cache checked against the table, through renames, hides, removals and forgets.
- **`FuseDirHandle`** models the directory handles of `do_opendir`, `readdir_fill`, `fill_dir_common`, `do_readdir` and `do_releasedir`, with `xmp_opendir`, `xmp_readdir` and `xmp_releasedir` as the user's callbacks. Worker threads serve OPENDIR, READDIR and RELEASEDIR concurrently.
  - READDIR holds `dh->lock` for the fill and the reply, then unlocks.
  - RELEASEDIR closes the DIR stream, takes and drops `dh->lock`, and frees the handle.
  - The directory is a fixed sequence of entries with dirent sizes in 8-byte units; the `d_off` of entry i is i.
  - Under protocol 7 a fill starts at the request offset and stops at the first entry that does not fit. Under protocol 5 it takes the whole directory, and replies are byte slices of the buffer.
  - The major INIT negotiated is the variable `major`, chosen at start from `Majors` and never changed. `RewindMajors` names the majors under which the program may `rewinddir`.
  - The kernel runs one readdir syscall at a time per file. A signal ends the syscall, but its READDIR stays queued. RELEASEDIR comes only when no READDIR is unanswered, because a background request holds the file. The program may `rewinddir`.
- **`FuseSession`** models the single-threaded loop:
  - `fuse_loop`: tests `f->exited`, then calls `fuse_read_cmd`;
  - `fuse_read_cmd`: allocates, then blocks in `read()`. A FORGET is done inline. ENODEV after unmount calls `fuse_exit`. EINTR from a signal returns NULL;
  - `fuse_process_cmd`: EPROTO before INIT, then the allow_root gate with its exempt opcodes, then dispatch;
  - `do_init`'s protocol negotiation, including the protocol-5 major carried in the header padding.

  The handlers themselves are the other modules' subject; here a dispatched request is one reply. The kernel sends INIT first, unless it is older than protocol 5, and then LOOKUPs, READs and FORGETs of what it holds. It may unmount, which drops what is queued. A signal handler may call `fuse_exit` at any time, and the signal interrupts a blocked read.
- **`MC_FuseNodeDirectory`**, **`MC_FuseDirHandle`** and **`MC_FuseSession`** give the model values.

Still to do, most important first:
1. `FuseDispatch` over `FuseXmpFs` trees, so that the concurrent handlers are checked against `FuseNamespace` too.

## 3. Runs

| Run | cfg | Expect | Shows |
|---|---|---|---|
| dispatch_safety | `FuseDispatch.cfg` | pass | 2 workers, protocol 7, default options, 5 requests. `TypeOK`, `KernelNodesLive`, `LookupCountExact`, `RefCountExact`, `NameIndexUnique` and `OpenCountExact` hold in about 1.86 M distinct states. Ten hidden files of an earlier mount (`Leftovers`) are among 14 hidden names. The first hide gives up after ten probes, the next reaches `hidectr = 11`, and `LeftoversKept` holds. |
| dispatch_open_race | `FuseDispatch_openrace.cfg` | violation | `OpenFileReachable` fails with two workers and one name. See finding 5. |
| hidden_leak | `FuseDispatch_hidden.cfg` | violation | `TeardownClean` fails: the leaked hidden file outlives the mount. See finding 1. |
| v6_cancel | `FuseDispatch_v6.cfg` | violation | `KernelNodesLive` fails with `Major = 6`. See finding 2. |
| directory_refinement | `FuseNodeDirectory.cfg` | pass | Open files, hiding and releases included; `find_node` may fail to allocate. About 183 k distinct states in 80 s. `TypeOK`, `TablePathsExist`, `OpenFileStat`, `HiddenAccounted`, `KernelDentriesAgree`, `FreshNodeIdentity` and `NamespaceRefined` hold. |
| open_rename_forget | `FuseNodeDirectory_openrename.cfg` | violation | With four nodeids, `OpenFileStat` fails in eight steps. See finding 7. |
| hardlink_rename_open | `FuseNodeDirectory_hardlink.cfg` | violation | With four nodeids, `NamespaceRefined` fails when one hard link is renamed onto another that is open. See finding 8. |
| rename_enomem | `FuseNodeDirectory_nomem.cfg` | violation | `rename_node`'s `hash_name` may fail. `NamespaceRefined` fails in three steps. See finding 6. |
| dirhandle | `FuseDirHandle.cfg` | pass | Protocol 7 without rewinds, and protocol 5 with them; two workers, two opendirs. About 2.4 M states in 45 s. `NoUseAfterFree`, `ListingComplete` and `HandlesAccounted` hold. |
| dirhandle_rewind | `FuseDirHandle_rewind.cfg` | violation | `ListingComplete` fails under protocol 7 with a rewind. See finding 3. |
| session_loop | `FuseSession.cfg` | pass | allow_root, kernels of protocols 0 (no INIT), 5, 6 and 7, 5 requests. About 361 k states. `RepliedOnce` and `UnmountStops` hold. |
| session_exit_lost | `FuseSession_exit.cfg` | violation | `ExitStops` fails. See finding 4. |

**What the properties say.**
- `KernelNodesLive`: every nodeid the kernel can name is in the id table. Otherwise `get_node` aborts the daemon.
- `LookupCountExact`: `nlookup` equals the kernel's lookups plus the lookups whose reply is still in flight. This is what makes the counted FORGET and `cancel_lookup` correct.
- `RefCountExact`: `refctr` equals [nlookup > 0] plus the number of hashed children.
- `NameIndexUnique`: no two nodes share (parent, name).
- `OpenCountExact`: `open_count` equals the kernel's handles. It counts an OPEN reply that is delivered but not yet counted, and a RELEASE sent but not yet counted down. It implies the `assert(node->open_count > 0)` in `do_release`.
- `TeardownClean`: once `fuse_destroy` has run, no file the library hid is left in the user filesystem. The last release of a hidden node unlinks its file; `fuse_destroy` unlinks those of hidden nodes still in the id table.
- `OpenFileReachable` (action property): every READ, WRITE, FLUSH or FSYNC on a handle the kernel holds open gets a path naming a file of the user filesystem. This holds across an unlink or rename over the open file (the file is hidden) and releases of other handles. A path-based filesystem such as `fusexmp` needs it; `hard_remove` gives it up.
- `LeftoversKept`: hidden files an earlier mount left in the directory are never renamed onto, unlinked or used as a node's name.
- `FreshNodeIdentity` (action property): a node that `find_node` allocates never carries a (nodeid, generation) pair issued before, even across the wrap of `ctr`.
- `TablePathsExist`: every node whose parent chain reaches the root names a path the host has. That is, `remove_node` and `rename_node` keep the table in step with the user's unlink, rmdir and rename, hard links included.
- `NamespaceRefined`: the handlers and the table implement `FuseNamespace`. It holds in the passing run's three nodeids and fails with four (finding 8).
- `NoUseAfterFree`: no worker locks, unlocks or frees a directory handle that `do_releasedir` has freed. The kernel sends RELEASEDIR as soon as the last READDIR reply is written, while that worker still holds `dh->lock`.
- `ListingComplete`: what the program has read since opening or rewinding is always a prefix of the directory, each entry once and in order. When a READDIR returns nothing, it is the whole directory.
- `RepliedOnce`: every request the loop has read is answered exactly once, whichever gate it met. FORGET, requests still queued and requests dropped by an unmount get no answer.
- `UnmountStops` (liveness): after an unmount the loop returns.
- `ExitStops` (liveness): after a signal handler has called `fuse_exit`, the loop returns.
- `HandlesAccounted`: a handle is allocated exactly while the kernel has it open or is releasing it, and its DIR stream is open until the release calls `releasedir`. A cancelled OPENDIR leaks neither.

Every property of a passing run has a mutant in `PROJECT.json`: a seeded fault in the operator that models the code, defined just before it, which TLC catches:
- `CancelLookup` forgets 2 lookups (caught by `TypeOK`);
- a FORGET drops the whole count (`KernelNodesLive`);
- `cancel_lookup` uses the versioned forget (`LookupCountExact`);
- `unhash_name` keeps the parent reference (`RefCountExact`);
- `rename_node` keeps the target hashed (`NameIndexUnique`);
- `do_open` replies without `f->lock` (`OpenCountExact`);
- `hidden_name` without the getattr probe (`LeftoversKept`);
- `do_release` decides `unlink_hidden` without looking at `open_count` (`OpenFileReachable`), or from the count before the decrement (`TeardownClean`);
- `next_id` does not bump the generation on the wrap (`FreshNodeIdentity`);
- `remove_node` leaves the name hashed (`TablePathsExist`);
- `rename_node` rehashes the node under the old directory (`NamespaceRefined`);
- `do_releasedir` frees without taking `dh->lock` (`NoUseAfterFree`);
- `readdir_fill` does not empty the buffer under protocol 7, and `do_readdir` slices from the buffer start under protocol 5 (`ListingComplete`);
- a cancelled OPENDIR frees the handle without `releasedir` (`HandlesAccounted`);
- the EPROTO reply falls through to the handler (`RepliedOnce`);
- ENODEV returns without `fuse_exit` (`UnmountStops`).

**Bounds.**
- Two workers are enough for every pairwise race among handlers, and FORGET adds a third actor.
- Two names let RENAME have a distinct source and target.
- Two hidden names allow a hide followed by a second one. In `dispatch_safety`, 10 leftovers among 14 names reach the give-up after exactly `FailCtr` probes and the success after it.
- `MaxReq = 5` allows, for example:
  - lookup, open, unlink (hide), release and one more request;
  - two lookups of the same name with one interrupted.

  Both findings need at most 4 requests.
- `CtrMod = 8` gives 7 ids, more than 5 requests can allocate, so `next_id` never wraps here. `FuseNodeDirectory` checks the wrap.

- `FuseNodeDirectory` uses `CtrMod = 4`, so the three usable ids run out and `next_id` wraps (TLC reaches the wrap in 3 steps). It also uses:
  - two names and `MaxDepth = 2`, enough for a directory with a child, cross-directory renames, a rename onto an existing target, and a directory moved below itself;
  - two inode numbers, enough for a hard link next to another file;
  - `MaxReq = 5`;
  - two initial trees: `a/` holding file `b`, and two files `a` and `b` at the root. The empty mount is reached from the first by an unlink and an rmdir. The second gives a rename onto an open file within three nodeids: look both up, open `b`, rename `a` onto it;
  - two hidden names, enough for two hides in one run.

  Three nodeids cannot hold a directory, an open file in it and a second file elsewhere at once, nor two links of a file and their directory. `open_rename_forget` therefore uses `CtrMod = 5`; the passing run would take too long with it. With that bound TLC also finds `NamespaceRefined` violated by a rename between two hard links when the target is open. `hardlink_rename_open` reports this as finding 8, so the pass of `NamespaceRefined` in `directory_refinement` holds only within three nodeids.
- `FuseDirHandle` uses three entries of 16, 8 and 16 bytes and 24-byte READDIRs. Under protocol 7 a full read therefore takes two fills and an empty third reply. It also uses two workers (so a background READDIR and its retry, or a READDIR and a RELEASEDIR, overlap), two OPENDIRs and 7 requests. Both majors are initial states of the one passing run.

- `FuseSession` uses `MaxReq = 5`: INIT, a LOOKUP, its FORGET and two more requests, from the owner, root and another uid.

**Fairness.** In `FuseSession`, `Spec` assumes weak fairness of the loop thread's steps and none of the kernel or the signals. The loop is a single thread that runs whenever it is runnable. `FuseDispatch` has no liveness property. Each handler there is a straight line of atomic steps, and the step that releases each lock is guarded only by its own pc. Under weak fairness of the workers, "every request finishes" would therefore hold by the shape of the model. `worker_lock` is not modelled, so a lock-order deadlock could not show either. Writer starvation under reader-preferring rwlocks cannot show within a bounded number of requests.

## 4. Findings

1. **Hidden file leaked** (code bug, `fuse.c:1172`).
   - `do_release` decrements `open_count` under `f->lock` alone, before it takes the tree lock.
   - `do_unlink` holds the tree write lock and has already seen `is_open()` true (line 928). The last RELEASE then decides `unlink_hidden = 0`, because the node is not hidden yet.
   - `hide_node` then renames the file to `.fuse_hiddenXXXX` with `open_count == 0`. No later release will unlink it.
   - `do_rename` (1023) has the same window.
   - The kernel then forgets the node, which has neither a dentry nor a handle. `fuse_destroy` only unlinks hidden nodes it finds in the id table, so the file outlives the mount.
   - TLC trace: lookup, open, unlink begins, release counts down, hide, forget, unmount and `fuse_destroy`.
2. **Interrupted re-lookup frees a live node under protocol 5/6** (spec/code divergence, `fuse.c:415`).
   - `cancel_lookup` calls `forget_node_old(node, unique)`. The node's version is that very unique, so the node is unhashed and its reference dropped.
   - The kernel still holds the node from the first, delivered lookup. Its next request on that nodeid aborts in `get_node`.
   - spec.md §8 says an undelivered lookup has no net effect.

3. **Rewinding a directory after its end reads an empty directory** (code bug, `fuse.c:1770`).
   - Under protocol 6+, `readdir_fill` sets `dh->filled = 1` (line 1744). Only `fill_dir_common` clears it (line 1681) when it is given an entry, or a failed fill (line 1754).
   - A READDIR at the end of the directory therefore leaves an empty buffer marked filled.
   - `do_readdir` never refills it, so every later READDIR on the handle, including one at offset 0 after `rewinddir`, gets an empty reply.
   - spec.md §4.3 says a READDIR at a new offset performs a fresh fill.
   - TLC trace: opendir; three READDIRs reach the end; rewind; READDIR at 0 returns nothing.

4. **An exit signal can be lost** (code bug, `fuse.c:2069`).
   - `fuse_loop` tests `f->exited` and then enters the blocking `read` (line 2027).
   - A signal whose handler calls `fuse_exit` between the two sets the flag but interrupts no read.
   - The loop then waits for the next kernel request, or a second signal, before it returns.
   - TLC trace: the loop passes the test; the signal arrives; the read blocks; the kernel sends nothing.

5. **A release unlinks a hidden file that was opened again** (code bug, `fuse.c:1173`).
   - `do_release` decides `unlink_hidden` under `f->lock` (1173) and drops the lock (1174). It unlinks the hidden path later, under the tree read lock (1190).
   - An OPEN of the same node can be served in between: an `open(2)` whose path lookup came before a concurrent `unlink(2)`, or a reopen through `/proc/<pid>/fd`. `open_count` is then 1 again, but the release still unlinks the file.
   - Later READs and WRITEs on the new handle get a path that no longer exists. spec.md says a hidden node is unlinked when its `open_count` drops to zero.
   - TLC trace (two workers, one name): create a; open; unlink a begins, and an OPEN of a is taken; the file is hidden; release counts to 0; the OPEN is counted; the release unlinks `h1`; a READ on the new handle finds no file.
   - Finding 1 comes from the same cause in the other order. A decision taken under `f->lock` is applied after the lock is dropped.

6. **A failed allocation in `rename_node` leaves the table and the host tree apart** (spec/code divergence, `fuse.c:466`).
   - `do_rename` calls the user's rename, and only when that succeeds calls `rename_node` (1027-1029).
   - `rename_node` unhashes the target and the source (459-463) before `hash_name` allocates the new name. When that `strdup` fails it returns ENOMEM, and the node stays detached.
   - The kernel gets ENOMEM and keeps its dentry for the old name, whose path no longer exists. The moved file is reachable through no node until it is looked up again under a fresh nodeid.
   - spec.md calls rename an atomic re-index under the mutex, and says an allocation failure returns ENOMEM and carries on. Here the failure comes after the host change, so it cannot be atomic.
   - TLC trace: `a` gets a node (lookup or create); rename `a` to `b`, with `hash_name` failing; the abstract namespace has no step that matches.

7. **An open file replaced by a rename from another directory loses its path** (code bug, `fuse.c:1025`).
   - `do_rename` hides an open target with `hide_node`, which leaves the hidden node in the target's directory in the table.
   - The kernel's `d_move` gives the replaced dentry, still held by the open file, the source's old parent. If the source came from another directory, nothing in the kernel pins the target's directory any more.
   - The kernel evicts that directory's dentry and forgets it. `forget_node` unhashes it (400) although the hidden node is still hashed below it, so the hidden node has no path.
   - `fstat` on the open file then gets ENOENT from `do_getattr` (716). The last RELEASE finds no path and cannot unlink the hidden file (1190), which stays on the host.
   - TLC trace: look up `a/`; create `a/a`; link it as `b` in the root; open `a/a`; rename `b` onto `a/a`; evict `a/a` and `a/`; forget `a/`; GETATTR of the open file fails.

8. **Renaming a hard link onto an open link of the same file removes the source name** (code bug, `fuse.c:1025`).
   - The table keeps one node per name, so two hard links `a/a` and `b` of one file have distinct nodeids. The kernel therefore sees two inodes and sends the RENAME.
   - With `b` open, `do_rename` calls `hide_node` (1025), which renames `b` to a hidden name. The user's rename (1027) then finds no `b` and really moves `a/a` onto `b`.
   - rename(2) between two links of one inode succeeds and changes nothing. Without the open file the library passes that no-op through; with it, `a/a` disappears.
   - TLC trace: look up `a/`; create `a/a`; link it as `b`; open `b`; rename `a/a` onto `b`; the abstract namespace has no matching step.

## 5. Not modelled, and why

- **Allocation failures outside the node table.** The failures in `get_path_name`, the reply buffers and the command buffer only turn one request into an ENOMEM reply and change no state. `find_node` and `rename_node` failures, the latter in `do_rename` and in `hide_node`, are modelled in `FuseNodeDirectory` only; `FuseDispatch` does not model them.
- **The 4096-byte path limit.** Names are single model components.
- **GETATTR, SETATTR, READLINK, STATFS and xattr.** They only read the table under the read lock and pass data through, so they change no state that a property tells apart. GETATTR appears as the operator `DoGetattr`, which `OpenFileStat` uses. READ, WRITE, FLUSH and FSYNC are modelled by `DataIO`, because `OpenFileReachable` is about the path they get. `do_getxattr_read` (line 1423) replies with as many bytes as the callback returned, without checking them against the buffer. fusexmp_fh's `lgetxattr` never returns more than the buffer holds, so this code never reaches that case.
- **`worker_lock`/`numavail`.** They feed only the external multithreaded loop.
- **Context plumbing and the compat struct layouts.** They are data, not behaviour.
- **The getdir interface** (`fill_dir_old`) fills like protocol 5. `readdir_ino` only reads the table. `do_fsyncdir` changes no state.
- **The 32-bit `node->generation`** (line 63). It would need 2^32 wraps of a 64-bit counter to overflow.
- **Crash and restart.** The library persists nothing in memory. A crashed daemon is a fresh mount. What a crash does leave behind is hidden files that `fuse_destroy` never unlinked. `Leftovers` models them in the directory the next mount serves.
- **`hard_remove = TRUE`.** The model has the option as the constant `HardRemove`, but every run uses the default `FALSE`. With it, `OpenFileReachable` fails by design.
