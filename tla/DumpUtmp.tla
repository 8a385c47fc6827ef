------------------------------ MODULE DumpUtmp ------------------------------
(***************************************************************************)
(* Ejemplos/DumpUTMP/dump_utmp.c on top of the driver: processes that send *)
(* the records of a utmp file through the FIFO, one write each, and        *)
(* processes that receive them, one read each, until end of file.          *)
(*                                                                         *)
(* The driver is module Fifo, whole: a client's system call is Fifo's      *)
(* OpenCall, WriteCall, ReadCall or ReleaseCall, and the client goes on    *)
(* when Fifo has returned it to user mode with a result in ret.  A process *)
(* that ends has its file closed by the kernel.  Printing and decoding the *)
(* records is left out, and a signal that would kill the client is met as  *)
(* the -EINTR of its call.                                                 *)
(***************************************************************************)
EXTENDS Fifo

CONSTANTS
  utmp,     \* the file: a sequence of records, each a sequence of bytes
  utmp_size \* sizeof(struct utmp), in bytes of the model

ASSUME UtmpAssumption ==
  /\ utmp_size \in 1 .. BUF_LEN /\ utmp_size \in Lengths
  /\ utmp \in Seq([1 .. utmp_size -> Byte])

VARIABLES
  role,  \* what main decided: "receive", "send" or "print" (option -p)
  at,    \* where each client is
  i,     \* the sender's loop index
  got    \* the records a receiver has printed

utmpVars == <<vars, role, at, i, got>>

Roles == {"receive", "send", "print"}

(* "start"; "open", "loop" and "close" in or after a system call; "ok" and *)
(* "failed" when the process has ended with EXIT_SUCCESS or with an error. *)
UtmpInit ==
  /\ Init
  /\ role \in [Procs -> Roles]
  /\ \A p \in Procs : \/ role[p] = "print"
                      \/ role[p] = "receive" /\ p \in Readers
                      \/ role[p] = "send" /\ p \in Writers
  /\ at = [p \in Procs |-> "start"]
  /\ i = [p \in Procs |-> 0]
  /\ got = [p \in Procs |-> << >>]

Step(p, l) == at' = [at EXCEPT ![p] = l]

Quiet == UNCHANGED vars

-----------------------------------------------------------------------------
(* The file cannot be read, or there is no such directory: exit(-1). *)
ReadUtmpFails(p) ==
  /\ at[p] = "start" /\ role[p] # "receive"
  /\ Step(p, "failed") /\ Quiet /\ UNCHANGED <<role, i, got>>

(* read_utmp, then print_utmp_entries and nothing of the FIFO. *)
PrintEntries(p) ==
  /\ at[p] = "start" /\ role[p] = "print"
  /\ Step(p, "ok") /\ Quiet /\ UNCHANGED <<role, i, got>>

(* open(PATH_FIFO, O_WRONLY), open(PATH_FIFO, O_RDONLY) *)
OpenFifo(p) ==
  /\ at[p] = "start" /\ role[p] # "print"
  /\ OpenCall(p, {IF role[p] = "send" THEN "FMODE_WRITE" ELSE "FMODE_READ"})
  /\ Step(p, "open") /\ UNCHANGED <<role, i, got>>

(* The call has returned. *)
Returned(p, l) == at[p] = l /\ pc[p] = "user"

OpenChecked(p) ==
  /\ Returned(p, "open")
  /\ Step(p, IF ret[p].code = "OK" THEN "loop" ELSE "failed")
  /\ Quiet /\ UNCHANGED <<role, i, got>>

-----------------------------------------------------------------------------
(* utmp_send *)

(* for (i = 0; i < n_entradas; i++) write(fd_fifo, cur, size) *)
Send(p) ==
  /\ Returned(p, "loop") /\ role[p] = "send" /\ i[p] < Len(utmp)
  /\ WriteCall(p, utmp_size)
  /\ pc'[p] = "down" => kbuff'[p] = utmp[i[p] + 1]
  /\ Step(p, "sent") /\ UNCHANGED <<role, i, got>>

(* A partial write or an error ends the process; a return of zero, which   *)
(* the driver never gives for a record, is not told apart.                 *)
SendChecked(p) ==
  /\ Returned(p, "sent")
  /\ IF ret[p].code = "OK" /\ Len(ret[p].data) = utmp_size
     THEN i' = [i EXCEPT ![p] = @ + 1] /\ Step(p, "loop")
     ELSE UNCHANGED i /\ Step(p, "exit")
  /\ Quiet /\ UNCHANGED <<role, got>>

SendDone(p) ==
  /\ Returned(p, "loop") /\ role[p] = "send" /\ i[p] = Len(utmp)
  /\ ReleaseCall(p)
  /\ Step(p, "close") /\ UNCHANGED <<role, i, got>>

-----------------------------------------------------------------------------
(* utmp_receive *)

Receive(p) ==
  /\ Returned(p, "loop") /\ role[p] = "receive"
  /\ ReadCall(p, utmp_size)
  /\ Step(p, "received") /\ UNCHANGED <<role, i, got>>

(* Mutant: whatever ends the loop is taken for the end of the file. *)
ReceiveCheckedErrorIsEnd(p) ==
  /\ Returned(p, "received")
  /\ IF ret[p].code = "OK" /\ Len(ret[p].data) = utmp_size
     THEN got' = [got EXCEPT ![p] = Append(@, ret[p].data)] /\ Step(p, "loop")
     ELSE UNCHANGED got /\ Step(p, "end")
  /\ Quiet /\ UNCHANGED <<role, i>>

(* while (read(...) == size) print; then bytes > 0 and bytes < 0 are       *)
(* errors and 0 is the end of the file.                                    *)
ReceiveChecked(p) ==
  /\ Returned(p, "received")
  /\ IF ret[p].code = "OK" /\ Len(ret[p].data) = utmp_size
     THEN got' = [got EXCEPT ![p] = Append(@, ret[p].data)] /\ Step(p, "loop")
     ELSE /\ UNCHANGED got
          /\ Step(p, IF ret[p].code = "EOF" THEN "end" ELSE "exit")
  /\ Quiet /\ UNCHANGED <<role, i>>

(* close(fd_fifo) after the loop; exit(1) closes the file as well. *)
CloseFifo(p) ==
  /\ Returned(p, "end") \/ Returned(p, "exit")
  /\ ReleaseCall(p)
  /\ Step(p, IF at[p] = "end" THEN "close" ELSE "abort")
  /\ UNCHANGED <<role, i, got>>

Exit(p) ==
  /\ Returned(p, "close") \/ Returned(p, "abort")
  /\ Step(p, IF at[p] = "close" THEN "ok" ELSE "failed")
  /\ Quiet /\ UNCHANGED <<role, i, got>>

Client(p) ==
  \/ ReadUtmpFails(p) \/ PrintEntries(p) \/ OpenFifo(p) \/ OpenChecked(p)
  \/ Send(p) \/ SendChecked(p) \/ SendDone(p)
  \/ Receive(p) \/ ReceiveChecked(p) \/ CloseFifo(p) \/ Exit(p)

(* The driver goes on inside the system calls. *)
Driver(p) ==
  /\ Acquire(p) \/ Section(p) \/ Wake(p) \/ Signal(p)
  /\ UNCHANGED <<role, at, i, got>>

UtmpNext == \E p \in Procs : Client(p) \/ Driver(p)

UtmpSpec == UtmpInit /\ [][UtmpNext]_utmpVars

-----------------------------------------------------------------------------
(* The records p has put into the FIFO, the last one perhaps not yet known *)
(* to p.                                                                   *)
PutBy(p) ==
  i[p] + (IF /\ at[p] = "sent" /\ pc[p] = "user" /\ ret[p].code = "OK"
          THEN 1 ELSE 0)

(* Every record a receiver prints is one of the file's, whole: the FIFO    *)
(* never gives it the end of one record and the beginning of another,      *)
(* although only part of a second record fits beside the first and several *)
(* processes may write at once.                                            *)
RecordsWhole ==
  \A p \in Procs : \A k \in DOMAIN got[p] :
    \E j \in DOMAIN utmp : got[p][k] = utmp[j]

Sole(p, r) == role[p] = r /\ \A q \in Procs \ {p} : role[q] # r

(* Between one sender and one receiver: the receiver prints the records in *)
(* the order of the file, and when it ends with EXIT_SUCCESS it has missed *)
(* none of those the sender wrote.  (With a second sender it may: that one *)
(* can still write between the receiver's end of file and its close.)      *)
Delivery ==
  \A s, r \in Procs :
    Sole(s, "send") /\ Sole(r, "receive")
      => /\ got[r] = SubSeq(utmp, 1, Len(got[r]))
         /\ at[r] = "ok" => Len(got[r]) = PutBy(s)
=============================================================================
