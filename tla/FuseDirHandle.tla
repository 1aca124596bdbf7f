---------------------------- MODULE FuseDirHandle ----------------------------
(***************************************************************************)
(* Directory handles of lib/fuse.c: do_opendir allocates a struct         *)
(* fuse_dirhandle, do_readdir fills its buffer through the user's readdir *)
(* (fusexmp_fh's xmp_readdir: seekdir to the offset, then fill_dir for    *)
(* each entry with its d_off) and serves the kernel from it under         *)
(* dh->lock, do_releasedir closes the user's DIR stream, takes and drops  *)
(* dh->lock and frees the handle.  Worker threads serve requests          *)
(* concurrently; the tree lock and f->lock are not contended here and are *)
(* left out.                                                               *)
(*                                                                         *)
(* The directory is the sequence 1..Len(Listing) of entries; Listing[i]   *)
(* is the aligned dirent size of entry i in 8-byte units, and the d_off   *)
(* of entry i is i (the position after it).  Under protocol 5 a dirent    *)
(* carries no offset and the kernel reads the buffer by byte position;    *)
(* otherwise the kernel continues from the off of the last dirent.        *)
(*                                                                         *)
(* The kernel runs one readdir syscall at a time per open file; a signal  *)
(* ends the syscall while its READDIR goes on in the background, holding  *)
(* the file, so RELEASEDIR comes only after every READDIR was answered.   *)
(***************************************************************************)
EXTENDS Naturals, Sequences, SequencesExt

CONSTANTS
  Workers,   \* the worker threads
  Majors,    \* the protocol majors INIT may negotiate
  Listing,   \* dirent sizes of the entries of the directory
  ReadSize,  \* the size of every READDIR (a page)
  RewindMajors, \* the majors under which the program rewinds a directory
  MaxOpen,   \* bound on OPENDIRs
  MaxReq,    \* bound on requests
  None       \* no lock holder

ASSUME Majors \subseteq {5, 7} /\ ReadSize \in Nat \ {0} /\ RewindMajors \subseteq Majors

VARIABLES
  dh,      \* dh[d]: the handle allocated by the d-th successful opendir
  nextDh,  \* the next handle to allocate
  wk,      \* wk[w]: the worker's program counter and request
  reqs,    \* requests sent and not yet read by a worker
  uniq,    \* requests sent so far
  kst,     \* the kernel's view of handle d: none, open, releasing, closed
  ksys,    \* the unique of the READDIR the syscall on d waits for, or 0
  kout,    \* READDIRs on d not answered yet
  kpos,    \* the file position of d
  kseen,   \* the entries read from d since position 0
  keof,    \* the last READDIR on d returned nothing
  kopens,  \* OPENDIRs sent
  major    \* f->major, set by INIT before any of these requests

vars == <<major, dh, nextDh, wk, reqs, uniq, kst, ksys, kout, kpos, kseen, keof, kopens>>
kvars == <<kst, ksys, kout, kpos, kseen, keof, kopens>>

N == Len(Listing)
Handles == 1 .. MaxOpen
Idle == [pc |-> "idle", req |-> [op |-> "none", h |-> 0, off |-> 0, id |-> 0]]

\* The byte length of a buffer holding entries c.
Bytes(c) == FoldLeft(LAMBDA acc, i : acc + Listing[i], 0, c)
Entries(from, to) == [i \in 1 .. to - from + 1 |-> from + i - 1]

Init ==
  /\ dh = [d \in Handles |-> [alive |-> FALSE, dir |-> FALSE, lock |-> None,
                              filled |-> FALSE, contents |-> <<>>]]
  /\ nextDh = 1
  /\ wk = [w \in Workers |-> Idle]
  /\ reqs = {} /\ uniq = 0
  /\ kst = [d \in Handles |-> "none"]
  /\ ksys = [d \in Handles |-> 0] /\ kout = [d \in Handles |-> 0]
  /\ kpos = [d \in Handles |-> 0] /\ kseen = [d \in Handles |-> <<>>]
  /\ keof = [d \in Handles |-> FALSE]
  /\ kopens = 0
  /\ major \in Majors

\* xmp_readdir: seekdir to the request offset (0 under protocol 5, where
\* readdir_fill passes 0), then readdir from there.
XmpReaddirFrom(o) == IF major = 5 THEN 1 ELSE o + 1

(***************************************************************************)
(* fill_dir_common, called by fill_dir for each entry from `from`: under  *)
(* protocol 5 every entry is appended; otherwise (xmp passes a non-zero   *)
(* d_off) the entry that would take the buffer past the request size     *)
(* stops the fill.  The number of entries appended.                      *)
(***************************************************************************)
FillDirTakes(from) ==
  LET M == N - from + 1
      Fits(k) == Bytes(Entries(from, from + k - 1)) <= ReadSize
  IN  IF major = 5 THEN M
      ELSE CHOOSE k \in 0 .. M : Fits(k) /\ (k = M \/ ~Fits(k + 1))

\* The buffer is not emptied before the fill.
ReaddirFillAppend(h, o) ==
  LET from == XmpReaddirFrom(o)
  IN  [h EXCEPT !.contents = @ \o Entries(from, from + FillDirTakes(from) - 1),
                !.filled = (major = 5 \/ from > N)]

(***************************************************************************)
(* readdir_fill: the buffer is emptied and filled set, then the user's    *)
(* readdir; the first fill_dir_common with an offset clears filled.       *)
(***************************************************************************)
ReaddirFill(h, o) ==
  LET from == XmpReaddirFrom(o)
  IN  [h EXCEPT !.contents = Entries(from, from + FillDirTakes(from) - 1),
                !.filled = (major = 5 \/ from > N)]

\* The byte offset of the j-th entry of buffer c.
Start(c, j) == Bytes(SubSeq(c, 1, j - 1))

\* The slice of a filled buffer starts at the buffer, not at the offset.
ReaddirReplyNoOffset(h, o) ==
  LET c == h.contents
      len == Bytes(c)
      n == IF h.filled THEN IF o < len THEN IF o + ReadSize > len THEN len - o
                                                                  ELSE ReadSize
                                       ELSE 0
           ELSE len
      js == SelectSeq(Entries(1, Len(c)),
                      LAMBDA j : Start(c, j) + Listing[c[j]] <= n)
      got == [i \in 1 .. Len(js) |-> c[js[i]]]
  IN  [got |-> got,
       pos |-> CASE got = <<>> -> o
                 [] major = 5  -> o + Bytes(got)
                 [] OTHER      -> Last(got)]

(***************************************************************************)
(* do_readdir's reply from a handle h at request offset o: a filled       *)
(* buffer is sliced at byte o for at most ReadSize bytes, an unfilled one *)
(* is sent whole.  The result is what the kernel parses out of it (whole  *)
(* dirents only) and the file position that follows.                      *)
(***************************************************************************)
ReaddirReply(h, o) ==
  LET c == h.contents
      len == Bytes(c)
      n == IF h.filled THEN IF o < len THEN IF o + ReadSize > len THEN len - o
                                                                  ELSE ReadSize
                                       ELSE 0
           ELSE len
      b == IF h.filled THEN o ELSE 0
      js == SelectSeq(Entries(1, Len(c)),
                      LAMBDA j : Start(c, j) >= b /\ Start(c, j) + Listing[c[j]] <= b + n)
      got == [i \in 1 .. Len(js) |-> c[js[i]]]
  IN  [got |-> got,
       pos |-> CASE got = <<>> -> o
                 [] major = 5  -> o + Bytes(got)
                 [] OTHER      -> Last(got)]

\* A worker takes a request the kernel sent.
Take(w) ==
  /\ wk[w].pc = "idle"
  /\ \E r \in reqs :
       /\ reqs' = reqs \ {r}
       /\ wk' = [wk EXCEPT ![w] = [pc |-> CASE r.op = "OPENDIR" -> "opendir"
                                            [] r.op = "READDIR" -> "rd_lock"
                                            [] OTHER            -> "rel_call",
                                   req |-> r]]
  /\ UNCHANGED <<dh, nextDh, uniq>> /\ UNCHANGED kvars

(***************************************************************************)
(* do_opendir: allocate the handle, the user's opendir, then under        *)
(* f->lock the reply; if the kernel no longer waits (ENOENT) the user's   *)
(* releasedir is called and the handle freed.  A failing opendir frees    *)
(* the handle before anyone sees it.                                       *)
(***************************************************************************)
\* The cancelled opendir frees the handle without the user's releasedir.
OpendirCancelNoRelease(d) == [d EXCEPT !.alive = FALSE]

OpendirCancel(d) == [d EXCEPT !.dir = FALSE, !.alive = FALSE]

DoOpendir(w) ==
  /\ wk[w].pc = "opendir"
  /\ LET d == nextDh
         opened == [dh[d] EXCEPT !.alive = TRUE, !.dir = TRUE]
     IN  \/ UNCHANGED <<dh, nextDh, kst>>
         \/ /\ dh' = [dh EXCEPT ![d] = opened]
            /\ kst' = [kst EXCEPT ![d] = "open"]
            /\ nextDh' = nextDh + 1
         \/ /\ dh' = [dh EXCEPT ![d] = OpendirCancel(opened)]
            /\ nextDh' = nextDh + 1
            /\ UNCHANGED kst
  /\ wk' = [wk EXCEPT ![w] = Idle]
  /\ UNCHANGED <<reqs, uniq, ksys, kout, kpos, kseen, keof, kopens>>

(***************************************************************************)
(* do_readdir under dh->lock: readdir_fill when the buffer is not filled  *)
(* (get_path fails if the directory has been removed: ENOENT, nothing     *)
(* changed), then send_reply.  The kernel takes the reply only if its     *)
(* syscall still waits for this request.                                  *)
(***************************************************************************)
Deliver(d, id, ok, r) ==
  /\ kout' = [kout EXCEPT ![d] = @ - 1]
  /\ IF ksys[d] = id
     THEN /\ ksys' = [ksys EXCEPT ![d] = 0]
          /\ IF ok
             THEN /\ kpos' = [kpos EXCEPT ![d] = r.pos]
                  /\ kseen' = [kseen EXCEPT ![d] = @ \o r.got]
                  /\ keof' = [keof EXCEPT ![d] = (r.got = <<>>)]
             ELSE UNCHANGED <<kpos, kseen, keof>>
     ELSE UNCHANGED <<ksys, kpos, kseen, keof>>

ReaddirLock(w) ==
  /\ wk[w].pc = "rd_lock"
  /\ LET r == wk[w].req
         d == r.h
         h == [dh[d] EXCEPT !.lock = w]
     IN  /\ dh[d].lock = None
         /\ \/ /\ ~h.filled
               /\ dh' = [dh EXCEPT ![d] = h]
               /\ Deliver(d, r.id, FALSE, <<>>)
            \/ LET f == IF h.filled THEN h ELSE ReaddirFill(h, r.off)
               IN  /\ dh' = [dh EXCEPT ![d] = f]
                   /\ Deliver(d, r.id, TRUE, ReaddirReply(f, r.off))
  /\ wk' = [wk EXCEPT ![w].pc = "rd_unlock"]
  /\ UNCHANGED <<nextDh, reqs, uniq, kst, kopens>>

ReaddirUnlock(w) ==
  /\ wk[w].pc = "rd_unlock"
  /\ dh' = [dh EXCEPT ![wk[w].req.h].lock = None]
  /\ wk' = [wk EXCEPT ![w] = Idle]
  /\ UNCHANGED <<nextDh, reqs, uniq>> /\ UNCHANGED kvars

(***************************************************************************)
(* do_releasedir: the user's releasedir (closedir), then dh->lock taken   *)
(* and dropped so that a READDIR still inside its critical section ends  *)
(* first, then the handle is freed and the reply sent.                    *)
(***************************************************************************)
ReleaseCall(w) ==
  /\ wk[w].pc = "rel_call"
  /\ dh' = [dh EXCEPT ![wk[w].req.h].dir = FALSE]
  /\ wk' = [wk EXCEPT ![w].pc = "rel_lock"]
  /\ UNCHANGED <<nextDh, reqs, uniq>> /\ UNCHANGED kvars

\* The handle is freed without waiting for dh->lock.
ReleaseLockSkip(w) ==
  /\ wk[w].pc = "rel_lock"
  /\ wk' = [wk EXCEPT ![w].pc = "rel_free"]
  /\ UNCHANGED <<dh, nextDh, reqs, uniq>> /\ UNCHANGED kvars

ReleaseLock(w) ==
  /\ wk[w].pc = "rel_lock"
  /\ dh[wk[w].req.h].lock = None
  /\ dh' = [dh EXCEPT ![wk[w].req.h].lock = w]
  /\ wk' = [wk EXCEPT ![w].pc = "rel_free"]
  /\ UNCHANGED <<nextDh, reqs, uniq>> /\ UNCHANGED kvars

ReleaseFree(w) ==
  /\ wk[w].pc = "rel_free"
  /\ LET d == wk[w].req.h
     IN  /\ dh' = [dh EXCEPT ![d].lock = None, ![d].alive = FALSE,
                             ![d].contents = <<>>]
         /\ kst' = [kst EXCEPT ![d] = "closed"]
  /\ wk' = [wk EXCEPT ![w] = Idle]
  /\ UNCHANGED <<nextDh, reqs, uniq, ksys, kout, kpos, kseen, keof, kopens>>

-----------------------------------------------------------------------------
(***************************************************************************)
(* The kernel.                                                             *)
(***************************************************************************)
Send(r) == uniq < MaxReq /\ uniq' = uniq + 1 /\ reqs' = reqs \cup {r}

KOpendir ==
  /\ kopens < MaxOpen /\ kopens' = kopens + 1
  /\ Send([op |-> "OPENDIR", h |-> 0, off |-> 0, id |-> uniq + 1])
  /\ UNCHANGED <<dh, nextDh, wk, kst, ksys, kout, kpos, kseen, keof>>

KReaddir(d) ==
  /\ kst[d] = "open" /\ ksys[d] = 0
  /\ Send([op |-> "READDIR", h |-> d, off |-> kpos[d], id |-> uniq + 1])
  /\ ksys' = [ksys EXCEPT ![d] = uniq + 1]
  /\ kout' = [kout EXCEPT ![d] = @ + 1]
  /\ UNCHANGED <<dh, nextDh, wk, kst, kpos, kseen, keof, kopens>>

\* A signal ends the syscall; its READDIR stays in the background.
KInterrupt(d) ==
  /\ ksys[d] # 0 /\ ksys' = [ksys EXCEPT ![d] = 0]
  /\ UNCHANGED <<dh, nextDh, wk, reqs, uniq, kst, kout, kpos, kseen, keof, kopens>>

\* rewinddir (lseek to 0) on the open directory.
KRewind(d) ==
  /\ major \in RewindMajors /\ kst[d] = "open" /\ ksys[d] = 0
  /\ kpos' = [kpos EXCEPT ![d] = 0]
  /\ kseen' = [kseen EXCEPT ![d] = <<>>]
  /\ keof' = [keof EXCEPT ![d] = FALSE]
  /\ UNCHANGED <<dh, nextDh, wk, reqs, uniq, kst, ksys, kout, kopens>>

\* The last close: only when no READDIR holds the file.
KReleasedir(d) ==
  /\ kst[d] = "open" /\ ksys[d] = 0 /\ kout[d] = 0
  /\ Send([op |-> "RELEASEDIR", h |-> d, off |-> 0, id |-> uniq + 1])
  /\ kst' = [kst EXCEPT ![d] = "releasing"]
  /\ UNCHANGED <<dh, nextDh, wk, ksys, kout, kpos, kseen, keof, kopens>>

\* Nothing is sent and nothing is being served.
Done ==
  /\ reqs = {} /\ \A w \in Workers : wk[w].pc = "idle"
  /\ UNCHANGED vars

Next ==
  \/ \E w \in Workers :
       \/ Take(w) \/ DoOpendir(w) \/ ReaddirLock(w) \/ ReaddirUnlock(w)
       \/ ReleaseCall(w) \/ ReleaseLock(w) \/ ReleaseFree(w)
  \/ KOpendir
  \/ \E d \in Handles :
       \/ KReaddir(d) \/ KInterrupt(d) \/ KReleasedir(d) \/ KRewind(d)
  \/ Done

\* f->major does not change after INIT.
Step == Next /\ UNCHANGED major

Spec == Init /\ [][Step]_vars

-----------------------------------------------------------------------------
(***************************************************************************)
(* Properties.                                                             *)
(***************************************************************************)
\* do_readdir and do_releasedir: no worker locks, fills, unlocks or frees
\* a directory handle that do_releasedir has already freed, although the
\* kernel sends RELEASEDIR as soon as the last READDIR reply is written,
\* before that READDIR's worker has dropped dh->lock.
NoUseAfterFree ==
  \A w \in Workers :
    wk[w].pc \in {"rd_lock", "rd_unlock", "rel_call", "rel_lock", "rel_free"}
      => dh[wk[w].req.h].alive

\* readdir_fill, fill_dir and do_readdir: the entries the program has
\* read since it opened or rewound the directory are always the start of
\* the directory, each once and in order, and the whole directory once a
\* READDIR returns nothing, whatever READDIRs were interrupted and served
\* in the background.
ListingComplete ==
  \A d \in Handles :
    /\ IsPrefix(kseen[d], Entries(1, N))
    /\ keof[d] => kseen[d] = Entries(1, N)

\* do_opendir and do_releasedir: a handle is allocated exactly while the
\* kernel has it open (or is releasing it), and the user's DIR stream is
\* open exactly while the handle is allocated and its release has not
\* called releasedir yet; a cancelled opendir leaks neither.
Releasing(d) ==
  \E w \in Workers : wk[w].req.h = d /\ wk[w].pc \in {"rel_lock", "rel_free"}

HandlesAccounted ==
  \A d \in Handles :
    /\ dh[d].alive <=> kst[d] \in {"open", "releasing"}
    /\ dh[d].dir <=> dh[d].alive /\ ~Releasing(d)

=============================================================================
