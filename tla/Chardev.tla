------------------------------ MODULE Chardev ------------------------------
(***************************************************************************)
(* Ejemplos/Chardev/chardev.c: a device with one static message, one       *)
(* cursor into it (msg_Ptr) and a counter, Device_Open, meant to keep it   *)
(* open only once.  None of them has a lock.                               *)
(*                                                                         *)
(* Each access to shared data is a step, and the steps of two processes    *)
(* may come in any order: an increment is a load and a store.  A value     *)
(* that the code has just tested the compiler may keep in a register or    *)
(* load again.  Whether a counter's test was passed in the middle of       *)
(* another process's increment of it is kept in a history variable.        *)
(***************************************************************************)
EXTENDS Kernel

CONSTANTS LENGTH,    \* length of the message, without its terminator
          BUF_LEN,   \* bound: the model does not follow the cursor beyond msg
          MaxCount   \* bound on Device_Open, which races can drive anywhere

ASSUME ChardevAssumption ==
  LENGTH \in Nat \ {0} /\ BUF_LEN \in Nat /\ LENGTH < BUF_LEN /\ MaxCount \in Nat

VARIABLES
  loaded,   \* the module is loaded and its device registered
  Device_Open,
  msg_Ptr,  \* index in msg; from LENGTH on msg is zero
  uses,     \* references to the module
  cd,       \* for each process: where it is in the driver, the value it has
            \* loaded, and whose open made the file it reads
  opened,   \* processes whose open succeeded and that have not closed
  raced     \* history: which tests were passed while another process was
            \* between the same test and its increment, since the loading

cdVars == <<loaded, Device_Open, msg_Ptr, uses, cd, opened, raced>>

User == [pc |-> "user", reg |-> 0, file |-> NoProc]

CDInit ==
  /\ loaded = FALSE
  /\ Device_Open = 0 /\ msg_Ptr = 0 /\ uses = 0
  /\ cd = [p \in Procs |-> User]
  /\ opened = {} /\ raced = {}

At(p, l) == cd[p].pc = l
Goes(p, l, r) == cd' = [cd EXCEPT ![p].pc = l, ![p].reg = r]
Returns(p) == cd' = [cd EXCEPT ![p] = User]

(* p has passed the test of the counter c: does another process stand      *)
(* between that test and its own store?                                    *)
Opening == {"load", "store"}
Moving == {"next", "put"}
Passes(p, c, window) ==
  raced' = IF \E q \in Procs \ {p} : cd[q].pc \in window
             THEN raced \cup {c} ELSE raced

(* init_module; when register_chrdev fails it returns and leaves nothing. *)
Load ==
  /\ ~ loaded /\ loaded' = TRUE
  /\ Device_Open' = 0 /\ msg_Ptr' = 0 /\ uses' = 0 /\ raced' = {}
  /\ UNCHANGED <<cd, opened>>

(* cleanup_module.  (Its race with an open in progress is FifoModule's.) *)
Unload ==
  /\ loaded /\ uses = 0 /\ \A p \in Procs : At(p, "user")
  /\ loaded' = FALSE
  /\ UNCHANGED <<Device_Open, msg_Ptr, uses, cd, opened, raced>>

-----------------------------------------------------------------------------
(* device_open *)

(* Mutant: the device is not tested.                                       *)
OpenTestForgotten(p) ==
  /\ At(p, "user") /\ loaded /\ p \notin opened
  /\ Goes(p, "load", 0) /\ Passes(p, "open", Opening)
  /\ UNCHANGED <<loaded, Device_Open, msg_Ptr, uses, opened>>

(* if (Device_Open) return -EBUSY *)
OpenTest(p) ==
  /\ At(p, "user") /\ loaded /\ p \notin opened
  /\ Device_Open = 0
  /\ Goes(p, "load", 0) /\ Passes(p, "open", Opening)
  /\ UNCHANGED <<loaded, Device_Open, msg_Ptr, uses, opened>>

(* Device_Open++, of the value tested or of the one loaded again *)
OpenLoad(p) ==
  /\ At(p, "load") /\ \E v \in {cd[p].reg, Device_Open} : Goes(p, "store", v)
  /\ UNCHANGED <<loaded, Device_Open, msg_Ptr, uses, opened, raced>>

OpenStore(p) ==
  /\ At(p, "store") /\ cd[p].reg < MaxCount /\ Goes(p, "message", 0)
  /\ Device_Open' = cd[p].reg + 1
  /\ UNCHANGED <<loaded, msg_Ptr, uses, opened, raced>>

(* sprintf of a new message, no shorter than the last; msg_Ptr = msg *)
OpenMessage(p) ==
  /\ At(p, "message") /\ Goes(p, "get", 0)
  /\ msg_Ptr' = 0
  /\ UNCHANGED <<loaded, Device_Open, uses, opened, raced>>

(* try_module_get; SUCCESS *)
OpenGet(p) ==
  /\ At(p, "get") /\ Returns(p)
  /\ uses' = uses + 1 /\ opened' = opened \cup {p}
  /\ UNCHANGED <<loaded, Device_Open, msg_Ptr, raced>>

-----------------------------------------------------------------------------
(* device_release: the VFS calls it when no read of the file is running. *)

(* Device_Open-- *)
ReleaseLoad(p) ==
  /\ At(p, "user") /\ p \in opened /\ \A q \in Procs : cd[q].file # p
  /\ Goes(p, "dec", Device_Open)
  /\ UNCHANGED <<loaded, Device_Open, msg_Ptr, uses, opened, raced>>

ReleaseStore(p) ==
  /\ At(p, "dec") /\ cd[p].reg > - MaxCount /\ Goes(p, "drop", 0)
  /\ Device_Open' = cd[p].reg - 1 /\ opened' = opened \ {p}
  /\ UNCHANGED <<loaded, msg_Ptr, uses, raced>>

(* module_put *)
ReleasePut(p) ==
  /\ At(p, "drop") /\ Returns(p)
  /\ uses' = uses - 1
  /\ UNCHANGED <<loaded, Device_Open, msg_Ptr, opened, raced>>

-----------------------------------------------------------------------------
(* device_read, by any process that shares the file that f opened.         *)

ReadCall(p, f) ==
  /\ At(p, "user") /\ f \in opened /\ ~ At(f, "dec")
  /\ cd' = [cd EXCEPT ![p] = [pc |-> "loop", reg |-> 0, file |-> f]]
  /\ UNCHANGED <<loaded, Device_Open, msg_Ptr, uses, opened, raced>>

Terminator == msg_Ptr >= LENGTH

(* Mutant: the length of the user's buffer alone is tested.                *)
ReadTestLength(p) ==
  /\ At(p, "loop")
  /\ Goes(p, "next", msg_Ptr) /\ Passes(p, "read", Moving)
  /\ UNCHANGED <<loaded, Device_Open, msg_Ptr, uses, opened>>

(* *msg_Ptr == 0 on entry, or while (length && *msg_Ptr). *)
ReadTest(p) ==
  /\ At(p, "loop") /\ ~ Terminator
  /\ Goes(p, "next", msg_Ptr) /\ Passes(p, "read", Moving)
  /\ UNCHANGED <<loaded, Device_Open, msg_Ptr, uses, opened>>

(* put_user of *msg_Ptr++: the increment of the pointer tested or of the   *)
(* one loaded again, its store, and then the copy, which may sleep.        *)
ReadLoad(p) ==
  /\ At(p, "next") /\ \E v \in {cd[p].reg, msg_Ptr} : Goes(p, "put", v)
  /\ UNCHANGED <<loaded, Device_Open, msg_Ptr, uses, opened, raced>>

ReadStore(p) ==
  /\ At(p, "put") /\ cd[p].reg < BUF_LEN /\ Goes(p, "loop", 0)
  /\ msg_Ptr' = cd[p].reg + 1
  /\ UNCHANGED <<loaded, Device_Open, uses, opened, raced>>

(* The end of the message, or of the user's buffer.                        *)
ReadReturns(p) ==
  /\ At(p, "loop") /\ Returns(p)
  /\ UNCHANGED <<loaded, Device_Open, msg_Ptr, uses, opened, raced>>

CDNext ==
  \/ Load \/ Unload
  \/ \E p \in Procs :
    \/ OpenTest(p) \/ OpenLoad(p) \/ OpenStore(p) \/ OpenMessage(p) \/ OpenGet(p)
    \/ ReleaseLoad(p) \/ ReleaseStore(p) \/ ReleasePut(p)
    \/ (\E f \in Procs : ReadCall(p, f)) \/ ReadTest(p)
    \/ ReadLoad(p) \/ ReadStore(p) \/ ReadReturns(p)

CDSpec == CDInit /\ [][CDNext]_cdVars

-----------------------------------------------------------------------------
(* The device is open at most once: "Is device open? Used to prevent       *)
(* multiple access to device" (chardev.c:30).                              *)
OpenOnce == Cardinality(opened) <= 1

(* Nobody is inside device_open or device_release.                         *)
Settled == \A p \in Procs : cd[p].pc \in {"user", "loop"} \cup Moving

(* Device_Open counts the open files and the module's references do.       *)
OpenCounted ==
  Settled => Device_Open = Cardinality(opened) /\ uses = Cardinality(opened)

(* However opens, releases and readers interleave, the device is opened    *)
(* twice, or its count goes wrong, only if an open passes its test while   *)
(* another is between its own and its increment (chardev.c:90, 93).        *)
OpensExclusive == "open" \notin raced => OpenOnce /\ OpenCounted

(* However readers that share the file, opens and releases interleave,     *)
(* msg_Ptr passes the terminator, from where a read runs on through msg,   *)
(* only if a reader passes its test while another is between its own and   *)
(* its increment (chardev.c:141, 149).                                     *)
CursorInside == "read" \notin raced => msg_Ptr <= LENGTH
=============================================================================
