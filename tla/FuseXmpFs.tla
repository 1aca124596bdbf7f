------------------------------ MODULE FuseXmpFs ------------------------------
(***************************************************************************)
(* The user filesystem of example/fusexmp_fh.c: each namespace callback    *)
(* calls one system call on the host path and returns -errno on failure.  *)
(* The host directory tree is the function  fs  from non-empty paths       *)
(* (sequences of names) to Dir or the inode number of a non-directory;    *)
(* the root <<>> is always a directory.  Hard links are two paths with     *)
(* the same inode number.  Each operator returns the new tree and the      *)
(* error, 0 on success, with the POSIX precedence of the errors.           *)
(***************************************************************************)
EXTENDS Naturals, Sequences, SequencesExt, Functions

CONSTANTS
  Names,     \* the names a path component can have
  MaxDepth,  \* the host tree is never deeper than this
  Inos       \* inode numbers of non-directories

ASSUME MaxDepth \in Nat \ {0} /\ Inos \subseteq Nat \ {0}

Dir == 0   \* the entry of a directory

EPERM == 1
ENOENT == 2
EEXIST == 17
ENOTDIR == 20
EISDIR == 21
EINVAL == 22
ENAMETOOLONG == 36
ENOTEMPTY == 39

Paths == UNION {[1 .. k -> Names] : k \in 1 .. MaxDepth}

Exists(fs, p) == p = <<>> \/ p \in DOMAIN fs
IsDir(fs, p)  == p = <<>> \/ (p \in DOMAIN fs /\ fs[p] = Dir)
Below(fs, p)  == {q \in DOMAIN fs : IsPrefix(p, q) /\ q # p}
Result(fs, err) == [fs |-> fs, err |-> err]

\* xmp_getattr: lstat fails with ENOENT on a missing path.
XmpGetattr(fs, p) == IF Exists(fs, p) THEN 0 ELSE ENOENT

\* The errors of mknod, mkdir, symlink and of link's new path.
CreateErr(fs, p) ==
  CASE ~Exists(fs, Front(p))  -> ENOENT
    [] ~IsDir(fs, Front(p))   -> ENOTDIR
    [] Exists(fs, p)          -> EEXIST
    [] Len(p) > MaxDepth      -> ENAMETOOLONG
    [] OTHER                  -> 0

\* xmp_mknod and xmp_symlink create a non-directory with a fresh inode.
XmpMknod(fs, p, ino) ==
  LET e == CreateErr(fs, p)
  IN  IF e = 0 THEN Result(fs @@ (p :> ino), 0) ELSE Result(fs, e)

XmpSymlink(fs, p, ino) == XmpMknod(fs, p, ino)

XmpMkdir(fs, p) ==
  LET e == CreateErr(fs, p)
  IN  IF e = 0 THEN Result(fs @@ (p :> Dir), 0) ELSE Result(fs, e)

XmpUnlink(fs, p) ==
  CASE ~Exists(fs, p) -> Result(fs, ENOENT)
    [] IsDir(fs, p)   -> Result(fs, EISDIR)
    [] OTHER          -> Result(Restrict(fs, DOMAIN fs \ {p}), 0)

XmpRmdir(fs, p) ==
  CASE ~Exists(fs, p)      -> Result(fs, ENOENT)
    [] ~IsDir(fs, p)       -> Result(fs, ENOTDIR)
    [] Below(fs, p) # {}   -> Result(fs, ENOTEMPTY)
    [] OTHER               -> Result(Restrict(fs, DOMAIN fs \ {p}), 0)

\* xmp_link: a second name for an existing non-directory.
XmpLink(fs, a, b) ==
  CASE ~Exists(fs, a)        -> Result(fs, ENOENT)
    [] IsDir(fs, a)          -> Result(fs, EPERM)
    [] CreateErr(fs, b) # 0  -> Result(fs, CreateErr(fs, b))
    [] OTHER                 -> Result(fs @@ (b :> fs[a]), 0)

\* The path q under a, moved under b.
Rebase(q, a, b) == b \o SubSeq(q, Len(a) + 1, Len(q))

(***************************************************************************)
(* xmp_rename: rename(2).  Two names of one inode make it a successful     *)
(* no-op; a directory cannot move below itself; a target is replaced only *)
(* by an object of its own kind, and a directory target only when empty.  *)
(***************************************************************************)
XmpRename(fs, a, b) ==
  LET moved == {q \in DOMAIN fs : IsPrefix(a, q)}
      kept  == DOMAIN fs \ (moved \cup {b})
  IN
  CASE ~Exists(fs, a) \/ ~Exists(fs, Front(b))          -> Result(fs, ENOENT)
    [] ~IsDir(fs, Front(b))                             -> Result(fs, ENOTDIR)
    [] Exists(fs, b) /\ ~IsDir(fs, a) /\ fs[a] = fs[b]   -> Result(fs, 0)
    [] IsDir(fs, a) /\ IsPrefix(a, b)                   -> Result(fs, EINVAL)
    [] Exists(fs, b) /\ IsDir(fs, a) /\ ~IsDir(fs, b)   -> Result(fs, ENOTDIR)
    [] Exists(fs, b) /\ ~IsDir(fs, a) /\ IsDir(fs, b)   -> Result(fs, EISDIR)
    [] Exists(fs, b) /\ Below(fs, b) # {}               -> Result(fs, ENOTEMPTY)
    [] \E q \in moved : Len(Rebase(q, a, b)) > MaxDepth -> Result(fs, ENAMETOOLONG)
    [] OTHER ->
         Result(Restrict(fs, kept)
                @@ [q \in {Rebase(r, a, b) : r \in moved} |->
                      fs[Rebase(q, b, a)]], 0)

=============================================================================
