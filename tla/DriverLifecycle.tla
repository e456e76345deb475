-------------------------- MODULE DriverLifecycle --------------------------
(***************************************************************************)
(* Loading and unloading the kernel modules under hello-linux/practices:   *)
(* the resources each init function acquires one after the other, what it  *)
(* gives back when one of them fails, what its exit function gives back,   *)
(* and the processes that open the device meanwhile.  The kernel side      *)
(* (open, close, rmmod, the reference count of the module) is external.    *)
(***************************************************************************)
EXTENDS Naturals, Sequences

CONSTANTS
  Drivers,   \* the modules of the run, among xorbox, crypto, simple and net
  Process    \* the processes that may open the device

ASSUME DriverAssumption == Drivers \subseteq {"xorbox", "crypto", "simple", "net"}

VARIABLES
  driver,    \* the module somebody loads
  phase,     \* absent, loading, unwinding, live, unloading
  held,      \* the resources the module owns
  todo,      \* what the init, error path or exit function has left to do
  files,     \* the processes with the device open
  stray      \* the releases of something the module did not own

vars == <<driver, phase, held, todo, files, stray>>
-----------------------------------------------------------------------------
(* xorbox.c: a chain of labels, each giving back one resource more.        *)

XorboxSteps == <<"region", "dev", "buffer", "cdev", "class", "device">>

XorboxLabels == <<"class", "cdev", "buffer", "dev", "region">>

\* Mutant: device_create jumps to err_del_cdev.
XorboxLabel_SkipsClass(r) ==
  CASE r = "device" -> 2 [] r = "class" -> 2 [] r = "cdev" -> 3
    [] r = "buffer" -> 4 [] r = "dev" -> 5 [] r = "region" -> 6

\* Mutant: cdev_add jumps to err_del_cdev.
XorboxLabel_DeletesUnadded(r) ==
  CASE r = "device" -> 1 [] r = "class" -> 2 [] r = "cdev" -> 2
    [] r = "buffer" -> 4 [] r = "dev" -> 5 [] r = "region" -> 6

\* The label the failure of a step jumps to; alloc_chrdev_region just returns.
XorboxLabel(r) ==
  CASE r = "device" -> 1 [] r = "class" -> 2 [] r = "cdev" -> 3
    [] r = "buffer" -> 4 [] r = "dev" -> 5 [] r = "region" -> 6

XorboxUnwind(r) == SubSeq(XorboxLabels, XorboxLabel(r), Len(XorboxLabels))

\* Mutant: the buffer goes before the character device that serves it.
XorboxExit_BufferFirst == <<"buffer", "cdev", "dev", "device", "class", "region">>

XorboxExit == <<"cdev", "buffer", "dev", "device", "class", "region">>
-----------------------------------------------------------------------------
(* my_crypto.c: kvfree of a message where the buffer was meant (line 97),  *)
(* and class_unregister followed by class_destroy, which unregisters again.*)

CryptoSteps == <<"buffer", "chrdev", "class", "device">>

CryptoUnwind(r) ==
  CASE r = "buffer" -> <<>>
    [] r = "chrdev" -> <<"buffer">>
    [] r = "class" -> <<"chrdev", "buffer">>
    [] r = "device" -> <<"class", "chrdev", "message">>

CryptoExit == <<"device", "class", "class", "chrdev", "buffer">>
-----------------------------------------------------------------------------
(* simple-driver.c and tun_custom_net.c: two resources each.               *)

SimpleSteps == <<"buffer", "chrdev">>
SimpleUnwind(r) == IF r = "chrdev" THEN <<"buffer">> ELSE <<>>
SimpleExit == <<"chrdev", "buffer">>

NetSteps == <<"netdev", "registration">>
NetUnwind(r) == IF r = "registration" THEN <<"netdev">> ELSE <<>>
NetExit == <<"registration", "netdev">>
-----------------------------------------------------------------------------
Steps ==
  CASE driver = "xorbox" -> XorboxSteps [] driver = "crypto" -> CryptoSteps
    [] driver = "simple" -> SimpleSteps [] driver = "net" -> NetSteps

Unwind(r) ==
  CASE driver = "xorbox" -> XorboxUnwind(r) [] driver = "crypto" -> CryptoUnwind(r)
    [] driver = "simple" -> SimpleUnwind(r) [] driver = "net" -> NetUnwind(r)

Exit ==
  CASE driver = "xorbox" -> XorboxExit [] driver = "crypto" -> CryptoExit
    [] driver = "simple" -> SimpleExit [] driver = "net" -> NetExit

\* What registers the operations of a module, and what they touch.
Published == held \intersect {"cdev", "chrdev", "registration"} # {}
Touched ==
  CASE driver = "xorbox" -> {"dev", "buffer"}
    [] driver \in {"crypto", "simple"} -> {"buffer"}
    [] driver = "net" -> {"netdev"}

\* Mutant: no module sets an owner.
Pinned_Never == FALSE

\* xorbox sets cdev.owner: an open file keeps the module loaded.  my_crypto and
\* simple-driver register file operations without an owner.
Pinned == driver = "xorbox"

\* The device node: xorbox and my_crypto create it, simple-driver has it made by
\* hand once it is registered (its README), and net has none.
Node == "device" \in held \/ (driver = "simple" /\ "chrdev" \in held)

Init ==
  /\ driver \in Drivers
  /\ phase = "absent"
  /\ held = {} /\ todo = <<>> /\ files = {} /\ stray = {}

Insmod ==
  /\ phase = "absent"
  /\ phase' = "loading"
  /\ todo' = Steps
  /\ UNCHANGED <<driver, held, files, stray>>

Acquire ==
  /\ phase = "loading" /\ todo # <<>>
  /\ held' = held \union {Head(todo)}
  /\ todo' = Tail(todo)
  /\ UNCHANGED <<driver, phase, files, stray>>

AcquireFails ==
  /\ phase = "loading" /\ todo # <<>>
  /\ phase' = "unwinding"
  /\ todo' = Unwind(Head(todo))
  /\ UNCHANGED <<driver, held, files, stray>>

InitReturns ==
  /\ phase = "loading" /\ todo = <<>>
  /\ phase' = "live"
  /\ UNCHANGED <<driver, held, todo, files, stray>>

\* rmmod is refused while the module is pinned.
Rmmod ==
  /\ phase = "live" /\ (Pinned => files = {})
  /\ phase' = "unloading"
  /\ todo' = Exit
  /\ UNCHANGED <<driver, held, files, stray>>

Release ==
  /\ phase \in {"unwinding", "unloading"} /\ todo # <<>>
  /\ held' = held \ {Head(todo)}
  /\ stray' = IF Head(todo) \in held THEN stray ELSE stray \union {Head(todo)}
  /\ todo' = Tail(todo)
  /\ UNCHANGED <<driver, phase, files>>

\* The failed init or the exit function returns and the module is gone.
Gone ==
  /\ phase \in {"unwinding", "unloading"} /\ todo = <<>>
  /\ phase' = "absent"
  /\ UNCHANGED <<driver, held, todo, files, stray>>

\* An owner that is going away refuses new files.
Open(p) ==
  /\ Node /\ Published /\ p \notin files
  /\ Pinned => phase \in {"loading", "live"}
  /\ files' = files \union {p}
  /\ UNCHANGED <<driver, phase, held, todo, stray>>

Close(p) ==
  /\ p \in files
  /\ files' = files \ {p}
  /\ UNCHANGED <<driver, phase, held, todo, stray>>

Next ==
  \/ Insmod \/ Acquire \/ AcquireFails \/ InitReturns
  \/ Rmmod \/ Release \/ Gone
  \/ \E p \in Process : Open(p) \/ Close(p)

Spec == Init /\ [][Next]_vars
-----------------------------------------------------------------------------
\* No error path and no exit function gives back something the module does not
\* own, or gives it back twice.  Two releases of my_crypto are the exceptions:
\* the message freed for the buffer (line 97) and the class unregistered twice on
\* the way out (lines 107 and 108).
OnlyOwnedReleased ==
  stray \subseteq IF driver = "crypto" THEN {"message", "class"} ELSE {}

\* Whichever step of the init function fails, and after every unload, the module
\* leaves nothing behind, except that my_crypto keeps the buffer when it is
\* device_create that failed (line 97).
NothingLeaked ==
  phase = "absent" /\ held # {} =>
    /\ driver = "crypto" /\ held = {"buffer"} /\ "message" \in stray

\* Whoever finds an interface registered, and opens it, finds what its operations
\* work on: memory is acquired before the interface is registered and freed after
\* it is gone.  A file opened before is another matter: simple-driver and my_crypto
\* free the buffer under the files that are open when rmmod takes them away.
PublishedBacked == Published => Touched \subseteq held

\* xorbox: an open file always finds the device and its buffer, in the window
\* after device_create and under rmmod alike.
XorboxFilesBacked == driver = "xorbox" /\ files # {} => Touched \subseteq held
=============================================================================
