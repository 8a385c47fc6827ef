-------------------------------- MODULE Fifo --------------------------------
(***************************************************************************)
(* The character-device FIFO of parteB/fifo.c: fifo_open, fifo_release,    *)
(* fifo_read and fifo_write, run by any number of processes, over the      *)
(* circular buffer of CBuffer.                                             *)
(*                                                                         *)
(* The unit of atomicity is the critical section: nothing the mutex        *)
(* protects is touched outside it and nothing inside it sleeps, so the     *)
(* code from down(&mutex) to the next up(&mutex) is one step, taken by the *)
(* process that holds the mutex.  Acquiring the mutex is a step of its     *)
(* own, because down_interruptible(&mutex) can fail only while another     *)
(* process holds it.  The two halves of cond_wait are steps of their own   *)
(* too: between up(mtx) and down_interruptible(cond), and between that and *)
(* the re-acquisition of the mutex, any other process may run.             *)
(*                                                                         *)
(* The kernel's semaphores are external.  The mutex is its holder; a wait  *)
(* queue (cola_prod, cola_cons) is its count.  A process whose pc is at a  *)
(* down stands both for one that has not called it yet and for one that    *)
(* sleeps in it: handing the semaphore to a sleeper is the same as that    *)
(* sleeper taking it at once.                                              *)
(***************************************************************************)
EXTENDS CBuffer, FiniteSets

CONSTANTS
  Procs,          \* processes; each holds at most one open file
  Readers,        \* those that may open with FMODE_READ
  Writers,        \* those that may open with FMODE_WRITE
  Interruptible,  \* those a signal may reach while they sleep
  NoProc,         \* "nobody holds the mutex"
  Byte,           \* values of a byte
  BUF_LEN,        \* capacity of the FIFO
  Lengths,        \* lengths a read or a write may ask for
  Faults,         \* TRUE: copy_{to,from}_user may leave bytes uncopied
  UINT,           \* 2^32, the modulus of a semaphore's unsigned count
  MaxLost         \* bound on the releases that a signal may cut short

ASSUME ProcsAssumption ==
  /\ IsFiniteSet(Procs) /\ NoProc \notin Procs
  /\ Readers \subseteq Procs /\ Writers \subseteq Procs
  /\ Interruptible \subseteq Procs
ASSUME DataAssumption ==
  /\ BUF_LEN \in Nat \ {0} /\ Lengths \subseteq Nat
  /\ Faults \in BOOLEAN /\ MaxLost \in Nat
ASSUME UINTAssumption == UINT \in Nat /\ Cardinality(Procs) < UINT

VARIABLES
  mutex,     \* the holder of the semaphore mutex
  cola,      \* cola["prod"], cola["cons"]: counts of cola_prod, cola_cons
  num,       \* num_prod, num_cons
  num_bloq,  \* num_bloq_prod, num_bloq_cons
  cbuffer,   \* the buffer
  fmode,     \* f_mode of each process's file, {} when it has none
  call,      \* the driver function each process is in
  pc,        \* where in it
  length,    \* the length argument of that call
  kbuff,     \* the bytes a write copied into its kernel buffer
  ret,       \* result of each process's last call
  lost       \* history: releases that returned -EINTR, by side

vars == <<mutex, cola, num, num_bloq, cbuffer, fmode, call, pc, length,
          kbuff, ret, lost>>

Side  == {"prod", "cons"}
FMode == {"FMODE_READ", "FMODE_WRITE"}
Calls == {"none", "open", "release", "read", "write"}

(***************************************************************************)
(* "down"   at the down_interruptible(&mutex) that starts the call         *)
(* "cond"   in cond_wait, at down_interruptible(cond)                      *)
(* "redown" in cond_wait, woken, at down_interruptible(mtx)                *)
(* "intr"   in cond_wait, interrupted, at the down(mtx) before count--     *)
(* "undo"   in fifo_open's interrupt handler, at its down(&mutex)          *)
(* A process at one of these that holds the mutex is in the critical       *)
(* section the down opens.                                                 *)
(***************************************************************************)
AtMutex == {"down", "redown", "intr", "undo"}
PC == {"user", "cond"} \cup AtMutex

Codes == {"none", "OK", "EOF", "EINTR", "EPIPE", "EINVAL", "ENOMEM"}
Result(c, d) == [code |-> c, data |-> d]

other(s) == IF s = "prod" THEN "cons" ELSE "prod"

(* file->f_mode & FMODE_READ decides whether a file is a consumer. *)
side(p) == IF "FMODE_READ" \in fmode[p] THEN "cons" ELSE "prod"

(* The queue a process waits in: its side's in open, the call's otherwise. *)
queue(p) == CASE call[p] = "read"  -> "cons"
              [] call[p] = "write" -> "prod"
              [] OTHER             -> side(p)

Init ==
  /\ mutex = NoProc
  /\ cola = [s \in Side |-> 0]
  /\ num = [s \in Side |-> 0]
  /\ num_bloq = [s \in Side |-> 0]
  /\ cbuffer \in create_cbuffer_t(Byte, BUF_LEN)
  /\ fmode = [p \in Procs |-> {}]
  /\ call = [p \in Procs |-> "none"]
  /\ pc = [p \in Procs |-> "user"]
  /\ length = [p \in Procs |-> 0]
  /\ kbuff = [p \in Procs |-> << >>]
  /\ ret = [p \in Procs |-> Result("none", << >>)]
  /\ lost = [s \in Side |-> 0]

-----------------------------------------------------------------------------
(* Building blocks of the handlers. *)

(* Process p goes into driver function c and reaches its first down. *)
Enter(p, c, n, bytes) ==
  /\ call' = [call EXCEPT ![p] = c]
  /\ pc' = [pc EXCEPT ![p] = "down"]
  /\ length' = [length EXCEPT ![p] = n]
  /\ kbuff' = [kbuff EXCEPT ![p] = bytes]
  /\ ret' = [ret EXCEPT ![p] = Result("none", << >>)]

(* Process p returns to user mode; every exit of read and write frees kbuff. *)
Return(p, c, d) ==
  /\ call' = [call EXCEPT ![p] = "none"]
  /\ pc' = [pc EXCEPT ![p] = "user"]
  /\ length' = [length EXCEPT ![p] = 0]
  /\ kbuff' = [kbuff EXCEPT ![p] = << >>]
  /\ ret' = [ret EXCEPT ![p] = Result(c, d)]

Goto(p, label) ==
  /\ pc' = [pc EXCEPT ![p] = label]
  /\ UNCHANGED <<call, length, kbuff, ret>>

(* Process p runs a critical section opened at label l and leaves it. *)
InSection(p, l) == mutex = p /\ pc[p] = l
UpMutex == mutex' = NoProc

(* The code of interrupt_InterruptHandler: fifo_open has one, at a down of  *)
(* its own; the ones of read and write only free kbuff.                    *)
InterruptHandler(p) ==
  IF call[p] = "open" THEN Goto(p, "undo") ELSE Return(p, "EINTR", << >>)

(* Mutant: while(--num_bloq_s), one up too few. *)
SignalledPreDecrement(s) == [cola EXCEPT ![s] = (@ + num_bloq[s] - 1) % UINT]

(***************************************************************************)
(* while(num_bloq_s) { num_bloq_s--; up(&cola_s); }                        *)
(* From a negative num_bloq_s the loop goes once around the 32-bit         *)
(* integers; the semaphore's count wraps with it.                          *)
(***************************************************************************)
Signalled(s) == [cola EXCEPT ![s] = (@ + num_bloq[s]) % UINT]

(* Mutants: the loop forgets num_bloq_s--, or it forgets the up. *)
BroadcastKeepsCount(s) == cola' = Signalled(s) /\ UNCHANGED num_bloq
BroadcastSilent(s) ==
  UNCHANGED cola /\ num_bloq' = [num_bloq EXCEPT ![s] = 0]

Broadcast(s) ==
  /\ cola' = Signalled(s)
  /\ num_bloq' = [num_bloq EXCEPT ![s] = 0]

(* The first half of cond_wait: count++; up(mtx). *)
CondWait(p) ==
  /\ num_bloq' = [num_bloq EXCEPT ![queue(p)] = @ + 1]
  /\ Goto(p, "cond")
  /\ UNCHANGED cola

-----------------------------------------------------------------------------
(* The kernel's side: semaphores and signals. *)

(* down or down_interruptible on the mutex succeeds. *)
Acquire(p) ==
  /\ pc[p] \in AtMutex /\ mutex = NoProc
  /\ mutex' = p
  /\ UNCHANGED <<cola, num, num_bloq, cbuffer, fmode, call, pc, length,
                 kbuff, ret, lost>>

(* down_interruptible(cond) succeeds. *)
Wake(p) ==
  /\ pc[p] = "cond" /\ cola[queue(p)] > 0
  /\ cola' = [cola EXCEPT ![queue(p)] = @ - 1]
  /\ Goto(p, "redown")
  /\ UNCHANGED <<mutex, num, num_bloq, cbuffer, fmode, lost>>

(* A signal ends down_interruptible(cond): nothing is decremented yet. *)
InterruptWait(p) ==
  /\ p \in Interruptible /\ pc[p] = "cond" /\ cola[queue(p)] = 0
  /\ Goto(p, "intr")
  /\ UNCHANGED <<mutex, cola, num, num_bloq, cbuffer, fmode, lost>>

MutexBusy(p) == p \in Interruptible /\ mutex \notin {NoProc, p}

(***************************************************************************)
(* A signal ends the down_interruptible(&mutex) of the entry: -EINTR.  A   *)
(* failed open leaves no file.  The VFS drops the file whatever release    *)
(* returns, so an interrupted release leaves its num_prod or num_cons      *)
(* counted for ever.                                                       *)
(***************************************************************************)
InterruptEntry(p) ==
  /\ MutexBusy(p) /\ pc[p] = "down"
  /\ IF call[p] = "release"
     THEN /\ lost[side(p)] < MaxLost
          /\ lost' = [lost EXCEPT ![side(p)] = @ + 1]
     ELSE UNCHANGED lost
  /\ fmode' = IF call[p] \in {"open", "release"}
              THEN [fmode EXCEPT ![p] = {}] ELSE fmode
  /\ Return(p, "EINTR", << >>)
  /\ UNCHANGED <<mutex, cola, num, num_bloq, cbuffer>>

(* A signal ends the down_interruptible(mtx) that closes cond_wait. *)
InterruptRelock(p) ==
  /\ MutexBusy(p) /\ pc[p] = "redown"
  /\ InterruptHandler(p)
  /\ UNCHANGED <<mutex, cola, num, num_bloq, cbuffer, fmode, lost>>

(* Mutant: the interrupt path without its count--. *)
InterruptSectionUncounted(p) ==
  /\ InSection(p, "intr") /\ UpMutex
  /\ InterruptHandler(p)
  /\ UNCHANGED <<cola, num, num_bloq, cbuffer, fmode, lost>>

(* cond_wait's interrupt path: down(mtx); count--; up(mtx); handler. *)
InterruptSection(p) ==
  /\ InSection(p, "intr") /\ UpMutex
  /\ num_bloq' = [num_bloq EXCEPT ![queue(p)] = @ - 1]
  /\ InterruptHandler(p)
  /\ UNCHANGED <<cola, num, cbuffer, fmode, lost>>

-----------------------------------------------------------------------------
(* fifo_open *)

OpenCall(p, mode) ==
  /\ pc[p] = "user" /\ fmode[p] = {}
  /\ mode # {}
  /\ "FMODE_READ" \in mode => p \in Readers
  /\ "FMODE_WRITE" \in mode => p \in Writers
  /\ fmode' = [fmode EXCEPT ![p] = mode]
  /\ Enter(p, "open", 0, << >>)
  /\ UNCHANGED <<mutex, cola, num, num_bloq, cbuffer, lost>>

(* Count this end, wake everybody at the other end, wait for that end. *)
OpenSection(p) ==
  LET s == side(p)
      o == other(side(p))
  IN  /\ InSection(p, "down") /\ call[p] = "open" /\ UpMutex
      /\ num' = [num EXCEPT ![s] = @ + 1]
      /\ cola' = Signalled(o)
      /\ IF num[o] = 0
         THEN /\ num_bloq' = [num_bloq EXCEPT ![o] = 0, ![s] = @ + 1]
              /\ Goto(p, "cond")
         ELSE /\ num_bloq' = [num_bloq EXCEPT ![o] = 0]
              /\ Return(p, "OK", << >>)
      /\ UNCHANGED <<cbuffer, fmode, lost>>

(* while(!num_prod), while(!num_cons): the test after a wake-up. *)
OpenRetest(p) ==
  /\ InSection(p, "redown") /\ call[p] = "open" /\ UpMutex
  /\ IF num[other(side(p))] = 0
     THEN CondWait(p)
     ELSE Return(p, "OK", << >>) /\ UNCHANGED <<cola, num_bloq>>
  /\ UNCHANGED <<num, cbuffer, fmode, lost>>

(* Mutant: a handler without its num_cons-- or num_prod--. *)
OpenUndoForgets(p) ==
  /\ InSection(p, "undo") /\ UpMutex
  /\ fmode' = [fmode EXCEPT ![p] = {}]
  /\ Return(p, "EINTR", << >>)
  /\ UNCHANGED <<cola, num, num_bloq, cbuffer, lost>>

(* The interrupt handler of fifo_open: num_cons-- or num_prod--. *)
OpenUndo(p) ==
  /\ InSection(p, "undo") /\ UpMutex
  /\ num' = [num EXCEPT ![side(p)] = @ - 1]
  /\ fmode' = [fmode EXCEPT ![p] = {}]
  /\ Return(p, "EINTR", << >>)
  /\ UNCHANGED <<cola, num_bloq, cbuffer, lost>>

-----------------------------------------------------------------------------
(* fifo_release *)

ReleaseCall(p) ==
  /\ pc[p] = "user" /\ fmode[p] # {}
  /\ Enter(p, "release", 0, << >>)
  /\ UNCHANGED <<mutex, cola, num, num_bloq, cbuffer, fmode, lost>>

(* Mutant: the release that leaves no end does not empty the buffer. *)
UnusedForgotten(n) == FALSE

(* !(num_prod || num_cons) *)
Unused(n) == n["prod"] = 0 /\ n["cons"] = 0

(***************************************************************************)
(* The last consumer wakes the producers; the last producer wakes nobody.  *)
(* When neither end is left the buffer is emptied.                         *)
(***************************************************************************)
ReleaseSection(p) ==
  LET s == side(p)
  IN  /\ InSection(p, "down") /\ call[p] = "release" /\ UpMutex
      /\ num' = [num EXCEPT ![s] = @ - 1]
      /\ IF s = "cons" /\ num'["cons"] = 0
         THEN Broadcast("prod")
         ELSE UNCHANGED <<cola, num_bloq>>
      /\ cbuffer' = IF Unused(num') THEN [cbuffer EXCEPT !.size = 0]
                                    ELSE cbuffer
      /\ fmode' = [fmode EXCEPT ![p] = {}]
      /\ Return(p, "OK", << >>)
      /\ UNCHANGED lost

-----------------------------------------------------------------------------
(* fifo_read *)

(* vmalloc(n): it may fail, and vmalloc(0) always does. *)
MayAllocate(n) == n > 0

ReadCall(p, n) ==
  /\ pc[p] = "user" /\ "FMODE_READ" \in fmode[p]
  /\ \/ n > BUF_LEN /\ Return(p, "EINVAL", << >>)
     \/ n <= BUF_LEN /\ Return(p, "ENOMEM", << >>)
     \/ n <= BUF_LEN /\ MayAllocate(n) /\ Enter(p, "read", n, << >>)
  /\ UNCHANGED <<mutex, cola, num, num_bloq, cbuffer, fmode, lost>>

(* copy_to_user leaves the last k bytes uncopied; k = 0 when it succeeds. *)
Uncopied(n) == IF Faults THEN 0 .. n ELSE {0}

(***************************************************************************)
(* The test for EOF, the loop test and the rest of fifo_read.  The code    *)
(* writes the first two once before the loop and once after cond_wait.     *)
(***************************************************************************)
ReadSection(p) ==
  LET n == length[p]
  IN  /\ InSection(p, "down") \/ InSection(p, "redown")
      /\ call[p] = "read" /\ UpMutex
      /\ \/ /\ num["prod"] = 0 /\ is_empty_cbuffer_t(cbuffer)
            /\ Return(p, "EOF", << >>)
            /\ UNCHANGED <<cola, num_bloq, cbuffer>>
         \/ /\ ~ (num["prod"] = 0 /\ is_empty_cbuffer_t(cbuffer))
            /\ size_cbuffer_t(cbuffer) < n
            /\ CondWait(p)
            /\ UNCHANGED cbuffer
         \/ /\ ~ (num["prod"] = 0 /\ is_empty_cbuffer_t(cbuffer))
            /\ size_cbuffer_t(cbuffer) >= n
            /\ cbuffer' = remove_items_cbuffer_t(cbuffer, n)
            /\ Broadcast("prod")
            /\ \E k \in Uncopied(n) :
                 Return(p, "OK", SubSeq(removed_items(cbuffer, n), 1, n - k))
      /\ UNCHANGED <<num, fmode, lost>>

-----------------------------------------------------------------------------
(* fifo_write *)

WriteCall(p, n) ==
  /\ pc[p] = "user" /\ "FMODE_WRITE" \in fmode[p]
  /\ \/ n > BUF_LEN /\ Return(p, "EINVAL", << >>)
     \/ n <= BUF_LEN /\ Return(p, "ENOMEM", << >>)
     \/ /\ n <= BUF_LEN /\ MayAllocate(n)
        /\ \E k \in Uncopied(n) : \E bytes \in [1 .. n - k -> Byte] :
             Enter(p, "write", n - k, bytes)
  /\ UNCHANGED <<mutex, cola, num, num_bloq, cbuffer, fmode, lost>>

(* Mutant: no test for a consumer after the wait. *)
WriteSectionNoRecheck(p) ==
  /\ call[p] = "write" /\ UpMutex
  /\ InSection(p, "redown") \/ (InSection(p, "down") /\ num["cons"] > 0)
  /\ \/ /\ num["cons"] > 0 /\ nr_gaps_cbuffer_t(cbuffer) < length[p]
        /\ CondWait(p)
        /\ UNCHANGED cbuffer
     \/ /\ num["cons"] = 0 \/ nr_gaps_cbuffer_t(cbuffer) >= length[p]
        /\ cbuffer' = insert_items_cbuffer_t(cbuffer, kbuff[p])
        /\ Broadcast("cons")
        /\ Return(p, "OK", kbuff[p])
  /\ UNCHANGED <<num, fmode, lost>>

(* The test for a consumer, the loop test and the rest of fifo_write. *)
WriteSection(p) ==
  LET n == length[p]
  IN  /\ InSection(p, "down") \/ InSection(p, "redown")
      /\ call[p] = "write" /\ UpMutex
      /\ \/ /\ num["cons"] = 0
            /\ Return(p, "EPIPE", << >>)
            /\ UNCHANGED <<cola, num_bloq, cbuffer>>
         \/ /\ num["cons"] > 0 /\ nr_gaps_cbuffer_t(cbuffer) < n
            /\ CondWait(p)
            /\ UNCHANGED cbuffer
         \/ /\ num["cons"] > 0 /\ nr_gaps_cbuffer_t(cbuffer) >= n
            /\ cbuffer' = insert_items_cbuffer_t(cbuffer, kbuff[p])
            /\ Broadcast("cons")
            /\ Return(p, "OK", kbuff[p])
      /\ UNCHANGED <<num, fmode, lost>>

-----------------------------------------------------------------------------
Section(p) ==
  \/ OpenSection(p) \/ OpenRetest(p) \/ OpenUndo(p) \/ ReleaseSection(p)
  \/ ReadSection(p) \/ WriteSection(p) \/ InterruptSection(p)

UserCall(p) ==
  \/ \E mode \in SUBSET FMode : OpenCall(p, mode)
  \/ ReleaseCall(p)
  \/ \E n \in Lengths : ReadCall(p, n) \/ WriteCall(p, n)

Signal(p) == InterruptWait(p) \/ InterruptEntry(p) \/ InterruptRelock(p)

Next == \E p \in Procs : UserCall(p) \/ Acquire(p) \/ Section(p) \/ Wake(p)
                           \/ Signal(p)

Spec == Init /\ [][Next]_vars

(***************************************************************************)
(* Fairness.  A process inside the driver is scheduled (WF on the section  *)
(* it is in).  A semaphore serves its sleepers first come first served, so *)
(* one that is available again and again is eventually had by whoever      *)
(* waits for it (SF).  Calls and signals are the environment's.            *)
(***************************************************************************)
Fairness == \A p \in Procs : /\ WF_vars(Section(p))
                             /\ SF_vars(Acquire(p))
                             /\ SF_vars(Wake(p))

FairSpec == Spec /\ Fairness

-----------------------------------------------------------------------------
(* Properties *)

(* Each variable keeps its type; fifo.c never makes a count of ends or a   *)
(* semaphore's count negative, and never asks the buffer for too much.     *)
TypeOK ==
  /\ mutex \in Procs \cup {NoProc}
  /\ cola \in [Side -> Nat]
  /\ num \in [Side -> Nat]
  /\ num_bloq \in [Side -> Int]
  /\ cbuffer \in cbuffer_t(Byte, BUF_LEN)
  /\ fmode \in [Procs -> SUBSET FMode]
  /\ call \in [Procs -> Calls]
  /\ pc \in [Procs -> PC]
  /\ length \in [Procs -> 0 .. BUF_LEN]
  /\ kbuff \in [Procs -> Seq(Byte)]
  /\ ret \in [Procs -> [code : Codes, data : Seq(Byte)]]
  /\ lost \in [Side -> Nat]

(* The files that count in num_prod or num_cons. *)
Ends(s) == {p \in Procs : /\ fmode[p] # {} /\ side(p) = s
                          /\ ~ (call[p] = "open" /\ pc[p] = "down")}

(* num_prod and num_cons count the files open (or being opened) at each    *)
(* end, plus the ones whose fifo_release a signal cut short: no path of    *)
(* fifo_open or fifo_release counts twice or forgets.                      *)
OpenAccounting == \A s \in Side : num[s] = Cardinality(Ends(s)) + lost[s]

(* The processes between the count++ of cond_wait and their wake-up, or    *)
(* their count-- if a signal came first.                                   *)
Waiting(s) == {p \in Procs : pc[p] \in {"cond", "intr"} /\ queue(p) = s}

(* num_bloq_s plus the wake-ups still in cola_s is exactly the number of   *)
(* processes waiting in that queue, whatever signals and broadcasts race:  *)
(* the counters may go negative, no wake-up is lost or invented.           *)
WaitAccounting ==
  \A s \in Side : num_bloq[s] + cola[s] = Cardinality(Waiting(s))

(* fifo.c implements the bounded byte queue of Pipe: the ring holds the    *)
(* bytes, num_prod and num_cons are the ends.                              *)
Abstract == INSTANCE Pipe WITH
  pipe <- Contents(cbuffer), ends <- num, Capacity <- BUF_LEN
ImplementsPipe == Abstract!Spec

(* A write succeeds only while some process has the FIFO open, or is       *)
(* opening it, for reading (fifo.c:15, "Escritura a FIFO sin CONSUMIDOR -> *)
(* Error").                                                                *)
WriteNeedsConsumer ==
  [][\A p \in Procs :
       call[p] = "write" /\ call'[p] = "none" /\ ret'[p].code = "OK"
         => Ends("cons") # {}]_vars

(* When no end is open the buffer is empty: the bytes of one conversation  *)
(* never reach the next one (the reset in fifo_release).                   *)
EmptyWhenUnused ==
  num["prod"] = 0 /\ num["cons"] = 0 => is_empty_cbuffer_t(cbuffer)

(* num_bloq_prod and num_bloq_cons never count below zero nor above the    *)
(* processes that wait, so the loop of a broadcast runs at most once for   *)
(* each of them.                                                           *)
NumBloqIsWaiters ==
  \A s \in Side : num_bloq[s] \in 0 .. Cardinality(Waiting(s))

(* What each process waits for in cond_wait. *)
Ready(p) ==
  CASE call[p] = "open"  -> num[other(side(p))] > 0
    [] call[p] = "read"  -> size_cbuffer_t(cbuffer) >= length[p]
    [] call[p] = "write" -> \/ num["cons"] = 0
                            \/ nr_gaps_cbuffer_t(cbuffer) >= length[p]

(* "Broadcast a todos los consumidores" (fifo.c:341) and its like: whoever *)
(* waits for something that is already so has a wake-up to take.           *)
NoLostWakeup ==
  \A p \in Procs : pc[p] = "cond" /\ Ready(p) => cola[queue(p)] > 0

(* "Lectura a FIFO VACIO sin PRODUCTORES -> EOF 0" (fifo.c:14): a read of  *)
(* an empty FIFO returns if no producer comes.                             *)
EofReported ==
  \A p \in Procs :
    (call[p] = "read" /\ num["prod"] = 0 /\ is_empty_cbuffer_t(cbuffer))
      ~> (\/ call[p] # "read" \/ num["prod"] > 0
          \/ ~ is_empty_cbuffer_t(cbuffer))

(* "Escritura a FIFO sin CONSUMIDOR -> Error" (fifo.c:15): a write, even   *)
(* one asleep for want of space, returns if no consumer comes.             *)
BrokenPipeReported ==
  \A p \in Procs :
    (call[p] = "write" /\ num["cons"] = 0)
      ~> (call[p] # "write" \/ num["cons"] > 0)

(* An open returns as long as the other end stays open (fifo.c:11).        *)
OpenReturns ==
  \A p \in Procs :
    call[p] = "open" ~> (call[p] # "open" \/ num[other(side(p))] = 0)
=============================================================================
