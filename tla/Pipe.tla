-------------------------------- MODULE Pipe --------------------------------
(***************************************************************************)
(* What fifo.c promises, without mutex, queues or a ring: a bounded byte   *)
(* queue with two counted ends.  A write is atomic and in order, a read    *)
(* takes a prefix, end-of-file and -EPIPE are returned only for the reason *)
(* the header comment of fifo.c gives, and bytes leave the queue only      *)
(* through a read or when the last end is closed.                          *)
(***************************************************************************)
EXTENDS Integers, Sequences

CONSTANTS Procs, Byte, Capacity

VARIABLES pipe,  \* the bytes, oldest first
          ends,  \* number of producer ends and of consumer ends
          ret    \* result of each process's last call

vars == <<pipe, ends, ret>>

Result(c, d) == [code |-> c, data |-> d]
Returns(p, c, d) == ret' = [ret EXCEPT ![p] = Result(c, d)]

Init ==
  /\ pipe = << >>
  /\ ends = [s \in {"prod", "cons"} |-> 0]
  /\ ret = [p \in Procs |-> Result("none", << >>)]

(* A call begins, or fails without touching the pipe. *)
Idle(p) ==
  /\ \E c \in {"none", "EINTR", "EINVAL", "ENOMEM"} : Returns(p, c, << >>)
  /\ UNCHANGED <<pipe, ends>>

(* An end is counted; the open may return at once or later. *)
Open(p, s) ==
  /\ ends' = [ends EXCEPT ![s] = @ + 1]
  /\ Returns(p, "OK", << >>) \/ UNCHANGED ret
  /\ UNCHANGED pipe

Opened(p) == Returns(p, "OK", << >>) /\ UNCHANGED <<pipe, ends>>

(* An open gives up: the end is no longer counted. *)
Abandon(p, s) ==
  /\ ends[s] > 0
  /\ ends' = [ends EXCEPT ![s] = @ - 1]
  /\ Returns(p, "EINTR", << >>)
  /\ UNCHANGED pipe

Close(p, s) ==
  /\ ends[s] > 0
  /\ ends' = [ends EXCEPT ![s] = @ - 1]
  /\ Returns(p, "OK", << >>)
  /\ pipe' = IF \A e \in DOMAIN ends : ends'[e] = 0 THEN << >> ELSE pipe

Write(p) ==
  /\ ends["cons"] > 0
  /\ Len(pipe) <= Len(pipe') /\ Len(pipe') <= Capacity
  /\ pipe = SubSeq(pipe', 1, Len(pipe))
  /\ Returns(p, "OK", SubSeq(pipe', Len(pipe) + 1, Len(pipe')))
  /\ UNCHANGED ends

BrokenPipe(p) ==
  ends["cons"] = 0 /\ Returns(p, "EPIPE", << >>) /\ UNCHANGED <<pipe, ends>>

(* n bytes leave the pipe; a fault in user memory may hide the last ones. *)
Read(p) ==
  /\ \E n \in 0 .. Len(pipe) : \E k \in 0 .. n :
       /\ pipe' = SubSeq(pipe, n + 1, Len(pipe))
       /\ Returns(p, "OK", SubSeq(pipe, 1, k))
  /\ UNCHANGED ends

EndOfFile(p) ==
  /\ ends["prod"] = 0 /\ pipe = << >>
  /\ Returns(p, "EOF", << >>)
  /\ UNCHANGED <<pipe, ends>>

Next == \E p \in Procs :
  \/ Idle(p) \/ Opened(p)
  \/ \E s \in {"prod", "cons"} : Open(p, s) \/ Abandon(p, s) \/ Close(p, s)
  \/ Write(p) \/ BrokenPipe(p) \/ Read(p) \/ EndOfFile(p)

Spec == Init /\ [][Next]_vars
=============================================================================
