----------------------------- MODULE FuseNamespace -----------------------------
(***************************************************************************)
(* What the library promises the kernel about nodeids, stated over paths  *)
(* and without a node table.  A nodeid the kernel holds ("a handle") is    *)
(* bound to the path of the object it was looked up as, follows that       *)
(* object through renames of it and of its ancestors, becomes Gone when   *)
(* the object is unlinked, removed or replaced (or a directory above it   *)
(* is forgotten), and is Free once the kernel has forgotten every lookup  *)
(* of it.  A lookup of a path that a bound handle names returns that      *)
(* handle; otherwise a Free one.  A reply the kernel does not take leaves *)
(* everything as it was.                                                   *)
(***************************************************************************)
EXTENDS FuseXmpFs

CONSTANTS
  Handles,   \* the nodeids
  RootH,     \* FUSE_ROOT_ID, bound to <<>> for ever
  Gone,      \* bound to an object that is no longer in the namespace
  Free,      \* held by nobody
  InitFs     \* the host trees the filesystem may be mounted on

VARIABLES fs, hpath, hrefs

nsVars == <<fs, hpath, hrefs>>

Bound(h) == hpath[h] \notin {Gone, Free}

NSInit ==
  /\ fs \in InitFs
  /\ hpath = [h \in Handles |-> IF h = RootH THEN <<>> ELSE Free]
  /\ hrefs = [h \in Handles |-> IF h = RootH THEN 1 ELSE 0]

\* The kernel takes an entry reply for path p.
Bind(p) ==
  IF \E h \in Handles : Bound(h) /\ hpath[h] = p
  THEN LET h == CHOOSE h \in Handles : Bound(h) /\ hpath[h] = p
       IN  /\ hrefs' = [hrefs EXCEPT ![h] = @ + 1]
           /\ UNCHANGED hpath
  ELSE \E h \in Handles :
         /\ hpath[h] = Free
         /\ hpath' = [hpath EXCEPT ![h] = p]
         /\ hrefs' = [hrefs EXCEPT ![h] = 1]

\* A lookup-class request under handle d succeeded on the filesystem
\* (which is now fs'); the reply is taken or not.
Entry(d, nm) ==
  \/ Bind(Append(hpath[d], nm))
  \/ UNCHANGED <<hpath, hrefs>>

Lookup(d, nm) ==
  /\ Bound(d)
  /\ UNCHANGED fs
  /\ IF Exists(fs, Append(hpath[d], nm)) THEN Entry(d, nm)
                                         ELSE UNCHANGED <<hpath, hrefs>>

Create(d, nm) ==
  /\ Bound(d)
  /\ \E r \in {XmpMkdir(fs, Append(hpath[d], nm))}
              \cup {XmpMknod(fs, Append(hpath[d], nm), i) : i \in Inos} :
       /\ fs' = r.fs
       /\ IF r.err = 0 THEN Entry(d, nm) ELSE UNCHANGED <<hpath, hrefs>>

Link(o, d, nm) ==
  /\ Bound(o) /\ Bound(d)
  /\ LET r == XmpLink(fs, hpath[o], Append(hpath[d], nm))
     IN  /\ fs' = r.fs
         /\ IF r.err = 0 THEN Entry(d, nm) ELSE UNCHANGED <<hpath, hrefs>>

\* Handles bound at or below path p become Gone.
Unbind(p) ==
  [h \in Handles |-> IF Bound(h) /\ IsPrefix(p, hpath[h]) THEN Gone ELSE hpath[h]]

RemoveEntry(d, nm) ==
  /\ Bound(d)
  /\ LET p == Append(hpath[d], nm)
     IN  \E r \in {XmpUnlink(fs, p), XmpRmdir(fs, p)} :
           /\ fs' = r.fs
           /\ hpath' = IF r.err = 0 THEN Unbind(p) ELSE hpath
  /\ UNCHANGED hrefs

\* A successful rename moves every handle at or below a to b, after those
\* at or below b are Gone.
Rename(d1, nm1, d2, nm2) ==
  /\ Bound(d1) /\ Bound(d2)
  /\ LET a == Append(hpath[d1], nm1)
         b == Append(hpath[d2], nm2)
         r == XmpRename(fs, a, b)
         u == Unbind(b)
     IN  /\ a # b
         /\ fs' = r.fs
         /\ hpath' = IF r.err # 0 THEN hpath
                     ELSE [h \in Handles |->
                             IF Bound(h) /\ IsPrefix(a, hpath[h])
                             THEN Rebase(hpath[h], a, b) ELSE u[h]]
  /\ UNCHANGED hrefs

\* Forgetting the last lookup frees the handle; what the kernel still
\* holds below a forgotten directory it can no longer reach by a path,
\* and those handles are Gone.
Forget(h, k) ==
  /\ h # RootH /\ k \in 1 .. hrefs[h]
  /\ hrefs' = [hrefs EXCEPT ![h] = @ - k]
  /\ hpath' = IF hrefs[h] # k THEN hpath
              ELSE IF Bound(h) THEN [Unbind(hpath[h]) EXCEPT ![h] = Free]
              ELSE [hpath EXCEPT ![h] = Free]
  /\ UNCHANGED fs

NSNext ==
  \E d, o \in Handles, nm, nm2 \in Names :
    \/ Lookup(d, nm) \/ Create(d, nm) \/ Link(o, d, nm)
    \/ RemoveEntry(d, nm) \/ Rename(d, nm, o, nm2)
    \/ \E k \in 1 .. hrefs[d] : Forget(d, k)

NSSpec == NSInit /\ [][NSNext]_nsVars

=============================================================================
