------------------------------ MODULE FuseSession ------------------------------
(***************************************************************************)
(* The single-threaded session loop of lib/fuse.c: fuse_loop checks       *)
(* f->exited, fuse_read_cmd reads one request from the device (FORGET is  *)
(* served inline), and fuse_process_cmd applies the INIT gate and the      *)
(* allow_root gate before dispatching.  do_init negotiates the protocol.  *)
(* The handlers themselves are the subject of the other modules: here a   *)
(* dispatched request is one reply.                                        *)
(*                                                                         *)
(* The kernel sends INIT first (a kernel older than protocol 5 sends none) *)
(* and then LOOKUPs, READs on handles, and FORGETs of what it looked up.  *)
(* On unmount it drops what is queued and read fails with ENODEV.  A      *)
(* signal handler may call fuse_exit; the signal ends a read that is      *)
(* blocked with EINTR.                                                     *)
(***************************************************************************)
EXTENDS Naturals, Sequences

CONSTANTS
  Uids,          \* the uids of requesting processes
  Owner,         \* the uid that mounted the filesystem (getuid())
  RootUid,       \* uid 0
  AllowRoot,     \* the allow_root option
  KernelMajors,  \* protocol majors of the kernels considered (0: no INIT)
  MaxReq         \* bound on requests

ASSUME /\ {Owner, RootUid} \subseteq Uids /\ AllowRoot \in BOOLEAN
       /\ KernelMajors \subseteq {0, 5, 6, 7}

VARIABLES
  pc,        \* the loop: top, read, blocked, process, stopped
  exited,    \* f->exited
  gotInit,   \* f->got_init
  major,     \* f->major (0 until INIT: the struct is calloc'ed)
  numavail,  \* f->numavail
  cmd,       \* the request being processed
  dev,       \* requests queued on the device
  answered,  \* answered[id]: replies written for request id
  kmajor,    \* the kernel's protocol major
  kheld,     \* lookups the kernel holds
  mounted,
  uniq,
  sentOp,    \* sentOp[id]: the opcode of request id, for checking
  aborted    \* requests dropped by the unmount, for checking

vars == <<pc, exited, gotInit, major, numavail, cmd, dev, answered, kmajor,
          kheld, mounted, uniq, sentOp, aborted>>

Ops == {"INIT", "FORGET", "LOOKUP", "READ"}
Ids == 1 .. MaxReq
NoCmd == [op |-> "none", uid |-> Owner, id |-> 0, padding |-> 0, major |-> 0]

Init ==
  /\ pc = "top" /\ exited = FALSE
  /\ gotInit = FALSE /\ major = 0 /\ numavail = 0
  /\ cmd = NoCmd /\ dev = <<>>
  /\ answered = [i \in Ids |-> 0]
  /\ kmajor \in KernelMajors
  /\ kheld = 0 /\ mounted = TRUE /\ uniq = 0
  /\ sentOp = [i \in Ids |-> "none"] /\ aborted = {}

(***************************************************************************)
(* do_init: a protocol-5 kernel puts its major in the header padding;     *)
(* majors 5 and 6 are answered in kind, any other with the library's 7.  *)
(***************************************************************************)
DoInitMajor(m) ==
  LET k == IF m.padding = 5 THEN 5 ELSE m.major
  IN  CASE k = 5 -> 5 [] k = 6 -> 6 [] OTHER -> 7

-----------------------------------------------------------------------------
(***************************************************************************)
(* The loop.                                                               *)
(***************************************************************************)

\* fuse_loop: leave when f->exited is set (and clear it), else read.
LoopTop ==
  /\ pc = "top"
  /\ IF exited THEN pc' = "stopped" /\ exited' = FALSE
               ELSE pc' = "read" /\ UNCHANGED exited
  /\ UNCHANGED <<gotInit, major, numavail, cmd, dev, answered, kmajor, kheld,
                 mounted, uniq, sentOp, aborted>>

\* fuse_read_cmd allocates the command, then blocks in read().
ReadStart ==
  /\ pc = "read" /\ pc' = "blocked"
  /\ UNCHANGED <<exited, gotInit, major, numavail, cmd, dev, answered, kmajor,
                 kheld, mounted, uniq, sentOp, aborted>>

\* fuse_read_cmd returns NULL on ENODEV without calling fuse_exit.
ReadCmdNoExit ==
  /\ pc = "blocked"
  /\ \/ /\ dev # <<>>
        /\ dev' = Tail(dev)
        /\ IF Head(dev).op = "FORGET"
           THEN pc' = "top" /\ UNCHANGED cmd
           ELSE pc' = "process" /\ cmd' = Head(dev)
     \/ /\ dev = <<>> /\ ~mounted
        /\ pc' = "top"
        /\ UNCHANGED <<dev, cmd>>
  /\ UNCHANGED <<exited, gotInit, major, numavail, answered, kmajor, kheld, mounted,
                 uniq, sentOp, aborted>>

(***************************************************************************)
(* read() returns: a request (FORGET is done inline by do_forget, the      *)
(* rest goes to fuse_process_cmd), or ENODEV after unmount, which calls   *)
(* fuse_exit.                                                              *)
(***************************************************************************)
ReadCmd ==
  /\ pc = "blocked"
  /\ \/ /\ dev # <<>>
        /\ dev' = Tail(dev)
        /\ IF Head(dev).op = "FORGET"
           THEN pc' = "top" /\ UNCHANGED cmd
           ELSE pc' = "process" /\ cmd' = Head(dev)
        /\ UNCHANGED exited
     \/ /\ dev = <<>> /\ ~mounted
        /\ exited' = TRUE /\ pc' = "top"
        /\ UNCHANGED <<dev, cmd>>
  /\ UNCHANGED <<gotInit, major, numavail, answered, kmajor, kheld, mounted, uniq, sentOp, aborted>>

(***************************************************************************)
(* fuse_process_cmd: fuse_dec_avail; EPROTO for anything before INIT;     *)
(* EACCES under allow_root for a uid other than the owner and root,       *)
(* except on INIT and on requests about open handles; else the handler,   *)
(* whose reply (send_reply_raw does fuse_inc_avail) the kernel gets.      *)
(***************************************************************************)
Exempt == {"INIT", "READ"}

Reply(c) == answered' = [answered EXCEPT ![c.id] = @ + 1]

\* The EPROTO reply of the INIT gate falls through to the handler.
ProcessCmdNoGotoOut ==
  /\ pc = "process"
  /\ LET c == cmd IN
     CASE ~gotInit /\ c.op # "INIT" ->
            /\ answered' = [answered EXCEPT ![c.id] = @ + 2]
            /\ UNCHANGED <<gotInit, major, kheld>>
       [] AllowRoot /\ c.uid \notin {Owner, RootUid} /\ c.op \notin Exempt ->
            Reply(c) /\ UNCHANGED <<gotInit, major, kheld>>
       [] c.op = "INIT" ->
            /\ gotInit' = TRUE /\ major' = DoInitMajor(c)
            /\ Reply(c) /\ UNCHANGED kheld
       [] c.op = "LOOKUP" ->
            Reply(c) /\ kheld' = kheld + 1 /\ UNCHANGED <<gotInit, major>>
       [] OTHER ->
            Reply(c) /\ UNCHANGED <<gotInit, major, kheld>>
  /\ numavail' = numavail
  /\ pc' = "top" /\ cmd' = NoCmd
  /\ UNCHANGED <<exited, dev, kmajor, mounted, uniq, sentOp, aborted>>

ProcessCmd ==
  /\ pc = "process"
  /\ LET c == cmd IN
     CASE ~gotInit /\ c.op # "INIT" ->
            Reply(c) /\ UNCHANGED <<gotInit, major, kheld>>
       [] AllowRoot /\ c.uid \notin {Owner, RootUid} /\ c.op \notin Exempt ->
            Reply(c) /\ UNCHANGED <<gotInit, major, kheld>>
       [] c.op = "INIT" ->
            /\ gotInit' = TRUE /\ major' = DoInitMajor(c)
            /\ Reply(c) /\ UNCHANGED kheld
       [] c.op = "LOOKUP" ->
            Reply(c) /\ kheld' = kheld + 1 /\ UNCHANGED <<gotInit, major>>
       [] OTHER ->
            Reply(c) /\ UNCHANGED <<gotInit, major, kheld>>
  /\ numavail' = numavail
  /\ pc' = "top" /\ cmd' = NoCmd
  /\ UNCHANGED <<exited, dev, kmajor, mounted, uniq, sentOp, aborted>>

-----------------------------------------------------------------------------
(***************************************************************************)
(* The kernel and the signal handler.                                      *)
(***************************************************************************)
KSend(op, uid) ==
  /\ mounted /\ uniq < MaxReq
  /\ IF kmajor # 0 /\ uniq = 0 THEN op = "INIT" ELSE op # "INIT"
  /\ op = "FORGET" => kheld > 0
  /\ kheld' = IF op = "FORGET" THEN kheld - 1 ELSE kheld
  /\ dev' = Append(dev, [op |-> op, uid |-> uid, id |-> uniq + 1,
                         padding |-> IF kmajor = 5 THEN 5 ELSE 0,
                         major |-> IF kmajor = 5 THEN 1 ELSE kmajor])
  /\ uniq' = uniq + 1
  /\ sentOp' = [sentOp EXCEPT ![uniq + 1] = op]
  /\ UNCHANGED <<pc, exited, gotInit, major, numavail, cmd, answered, kmajor, mounted,
                 aborted>>

\* Unmount: queued requests are dropped, read fails with ENODEV.
KUnmount ==
  /\ mounted /\ mounted' = FALSE /\ dev' = <<>>
  /\ aborted' = aborted \cup {dev[j].id : j \in 1 .. Len(dev)}
  /\ UNCHANGED <<pc, exited, gotInit, major, numavail, cmd, answered, kmajor,
                 kheld, uniq, sentOp>>

\* A signal whose handler calls fuse_exit; a blocked read returns EINTR
\* and fuse_read_cmd returns NULL.
ExitSignal ==
  /\ pc # "stopped" /\ (~exited \/ pc = "blocked")
  /\ exited' = TRUE
  /\ pc' = IF pc = "blocked" THEN "top" ELSE pc
  /\ UNCHANGED <<gotInit, major, numavail, cmd, dev, answered, kmajor, kheld,
                 mounted, uniq, sentOp, aborted>>

\* fuse_loop has returned.
Done == pc = "stopped" /\ UNCHANGED vars

Loop == LoopTop \/ ReadStart \/ ReadCmd \/ ProcessCmd

Next ==
  \/ Loop
  \/ \E op \in Ops, u \in Uids : KSend(op, u)
  \/ KUnmount \/ ExitSignal \/ Done

\* The loop thread is scheduled whenever it can run; the kernel and the
\* signals are not obliged to do anything.
Spec == Init /\ [][Next]_vars /\ WF_vars(Loop)

-----------------------------------------------------------------------------
(***************************************************************************)
(* Properties.                                                             *)
(***************************************************************************)
Pending(i) == cmd.id = i \/ \E j \in 1 .. Len(dev) : dev[j].id = i

\* fuse_read_cmd and fuse_process_cmd: every request the loop has read
\* is answered exactly once, whichever gate it met, and a FORGET (served
\* inline), a request still queued or in hand, and one dropped by the
\* unmount are not answered at all.
RepliedOnce ==
  \A i \in 1 .. uniq :
    answered[i] = IF sentOp[i] = "FORGET" \/ Pending(i) \/ i \in aborted
                  THEN 0 ELSE 1

\* fuse_loop and fuse_read_cmd: once the filesystem is unmounted, the
\* loop returns (read fails with ENODEV, which calls fuse_exit).
UnmountStops == ~mounted ~> pc = "stopped"

\* fuse_loop: once a signal handler has called fuse_exit, the loop
\* returns, without waiting for another request.
ExitStops == exited ~> pc = "stopped"

=============================================================================
