----------------------------- MODULE FifoModule -----------------------------
(***************************************************************************)
(* The life of the module of parteB/fifo.c: loading, unloading and the     *)
(* reference count that fifo_open and fifo_release keep by hand, fops      *)
(* having no .owner for the VFS to count with.  What happens inside        *)
(* fifo_open and fifo_release is module Fifo's; here they only last, end   *)
(* well, or are interrupted.                                               *)
(*                                                                         *)
(* rmmod is external: it starts if the count is zero, after which          *)
(* try_module_get fails, and then runs cleanup_module.                     *)
(***************************************************************************)
EXTENDS Kernel

CONSTANTS MaxStale,    \* bound on the inits that leave a device behind
          MaxUnpaired  \* bound on references lost, and on puts without a get

VARIABLES
  module,      \* "out", "live" or, once rmmod has started, "going"
  registered,  \* the device of the loaded module is registered
  stale,       \* devices still registered by an init_module that failed
  refs,        \* the module's reference count
  buf,         \* cbuffer points to a buffer
  blocks,      \* blocks obtained with vmalloc by create_cbuffer_t
  file,        \* what each process's file is doing
  pinned,      \* files for which try_module_get has succeeded
  unput,       \* history: interrupted releases, which keep their reference
  unpaired,    \* history: releases of files that never had one
  dropped      \* history: structs lost by create_cbuffer_t

fmVars == <<module, registered, stale, refs, buf, blocks, file, pinned, unput,
            unpaired, dropped>>

FMInit ==
  /\ module = "out" /\ registered = FALSE /\ stale = 0
  /\ refs = 0 /\ buf = FALSE /\ blocks = 0
  /\ file = [p \in Procs |-> "none"] /\ pinned = {}
  /\ unput = 0 /\ unpaired = 0 /\ dropped = 0

(***************************************************************************)
(* init_module: register_chrdev fails and nothing changes; or              *)
(* create_cbuffer_t fails, with or without its struct, and -ENOMEM is      *)
(* returned with the device registered; or the module is loaded.           *)
(***************************************************************************)
init_module ==
  /\ module = "out"
  /\ \/ /\ stale < MaxStale /\ stale' = stale + 1
        /\ \E n \in {0, 1} : blocks' = blocks + n /\ dropped' = dropped + n
        /\ UNCHANGED <<module, registered, refs, buf, unput, unpaired>>
     \/ /\ module' = "live" /\ registered' = TRUE /\ refs' = 0
        /\ buf' = TRUE /\ blocks' = blocks + 2
        /\ unput' = 0 /\ unpaired' = 0
        /\ UNCHANGED <<stale, dropped>>
  /\ UNCHANGED <<file, pinned>>

rmmod ==
  /\ module = "live" /\ refs = 0
  /\ module' = "going"
  /\ UNCHANGED <<registered, stale, refs, buf, blocks, file, pinned, unput,
                 unpaired, dropped>>

(* cleanup_module, first statement: unregister_chrdev. *)
Unregister ==
  /\ module = "going" /\ registered
  /\ registered' = FALSE
  /\ UNCHANGED <<module, stale, refs, buf, blocks, file, pinned, unput,
                 unpaired, dropped>>

(* A file that is left when the code goes can never be used again.         *)
Abandon ==
  file' = [p \in Procs |-> IF file[p] = "none" THEN "none" ELSE "dangling"]

(* cleanup_module, second statement: destroy_cbuffer_t; the code is gone. *)
Destroy ==
  /\ module = "going" /\ ~ registered
  /\ buf' = FALSE /\ blocks' = blocks - 2 /\ module' = "out"
  /\ Abandon
  /\ UNCHANGED <<registered, stale, refs, pinned, unput, unpaired, dropped>>

-----------------------------------------------------------------------------
OpenEnters(p) ==
  /\ registered /\ file[p] = "none"
  /\ file' = [file EXCEPT ![p] = "opening"]
  /\ UNCHANGED <<module, registered, stale, refs, buf, blocks, pinned, unput,
                 unpaired, dropped>>

(* An interrupted open returns -EINTR before it takes a reference. *)
OpenInterrupted(p) ==
  /\ p \in Interruptible /\ file[p] = "opening"
  /\ file' = [file EXCEPT ![p] = "none"]
  /\ UNCHANGED <<module, registered, stale, refs, buf, blocks, pinned, unput,
                 unpaired, dropped>>

(* try_module_get(THIS_MODULE), whose result is ignored; return 0. *)
OpenReturns(p) ==
  /\ file[p] = "opening"
  /\ file' = [file EXCEPT ![p] = "open"]
  /\ IF module = "live" THEN refs' = refs + 1 /\ pinned' = pinned \cup {p}
                        ELSE UNCHANGED <<refs, pinned>>
  /\ UNCHANGED <<module, registered, stale, buf, blocks, unput, unpaired,
                 dropped>>

(* Mutant: module_put comes first, before the release may sleep. *)
ReleaseEntersPutting(p) ==
  /\ file[p] = "open"
  /\ file' = [file EXCEPT ![p] = "releasing"]
  /\ refs' = refs - 1
  /\ UNCHANGED <<module, registered, stale, buf, blocks, pinned, unput,
                 unpaired, dropped>>

ReleaseEnters(p) ==
  /\ file[p] = "open"
  /\ file' = [file EXCEPT ![p] = "releasing"]
  /\ UNCHANGED <<module, registered, stale, refs, buf, blocks, pinned, unput,
                 unpaired, dropped>>

(* Mutant: the interrupted release calls module_put as well. *)
ReleaseInterruptedPuts(p) ==
  /\ p \in Interruptible /\ file[p] = "releasing"
  /\ file' = [file EXCEPT ![p] = "none"]
  /\ pinned' = pinned \ {p}
  /\ refs' = refs - 1 /\ unput' = unput + Cardinality(pinned \cap {p})
  /\ UNCHANGED <<module, registered, stale, buf, blocks, unpaired, dropped>>

(* A release interrupted at down_interruptible returns -EINTR without      *)
(* module_put; the VFS drops the file all the same.                        *)
ReleaseInterrupted(p) ==
  /\ p \in Interruptible /\ file[p] = "releasing"
  /\ unput < MaxUnpaired
  /\ file' = [file EXCEPT ![p] = "none"]
  /\ pinned' = pinned \ {p}
  /\ unput' = unput + Cardinality(pinned \cap {p})
  /\ UNCHANGED <<module, registered, stale, refs, buf, blocks, unpaired,
                 dropped>>

(* module_put(THIS_MODULE); return 0. *)
ReleaseReturns(p) ==
  /\ file[p] = "releasing"
  /\ file' = [file EXCEPT ![p] = "none"]
  /\ refs' = refs - 1
  /\ pinned' = pinned \ {p}
  /\ p \in pinned \/ unpaired < MaxUnpaired
  /\ unpaired' = unpaired + (IF p \in pinned THEN 0 ELSE 1)
  /\ UNCHANGED <<module, registered, stale, buf, blocks, unput, dropped>>

FMNext ==
  \/ init_module \/ rmmod \/ Unregister \/ Destroy
  \/ \E p \in Procs :
       \/ OpenEnters(p) \/ OpenInterrupted(p) \/ OpenReturns(p)
       \/ ReleaseEnters(p) \/ ReleaseInterrupted(p) \/ ReleaseReturns(p)

FMSpec == FMInit /\ [][FMNext]_fmVars

-----------------------------------------------------------------------------
(* The count is the open files that have a reference, plus the references  *)
(* that interrupted releases keep for ever (the module can then never be   *)
(* unloaded), minus the puts of files opened while rmmod was under way;    *)
(* no other path of fifo_open and fifo_release unbalances it.  And memory  *)
(* is the buffer's two blocks, and the structs that create_cbuffer_t loses *)
(* when its second allocation fails.                                       *)
CountExact == module # "out" => refs = Cardinality(pinned) + unput - unpaired
BlocksExact == blocks = (IF buf THEN 2 ELSE 0) + dropped

RefsAccounted == CountExact /\ BlocksExact

(* From the moment its open has returned with a reference until its        *)
(* release has returned, a file finds the module and the buffer in place,  *)
(* however rmmod races with other opens.  (A file whose open still sleeps, *)
(* fifo.c:146 and 163, or came too late has no such guarantee.)            *)
PinnedFileHasModule == pinned # {} => module = "live" /\ registered /\ buf
=============================================================================
