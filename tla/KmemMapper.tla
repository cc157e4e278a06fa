----------------------------- MODULE KmemMapper -----------------------------
(***************************************************************************)
(* The kmem_mapper driver, and the scripts that load and unload it: a       *)
(* character device whose open puts the first bytes of the two monitored    *)
(* regions at their original value, and whose mmap maps the page of the     *)
(* regions.  The system calls reach the page through the pointers           *)
(* mwmon_mmap_area and mwmon_mmap_area2, which the driver sets.             *)
(*                                                                         *)
(* Of the kernel: a module with an open file is not unloaded, an open of a  *)
(* module that is being unloaded fails, and a module whose initialization   *)
(* fails is freed, with whatever it left registered.                        *)
(***************************************************************************)
EXTENDS Integers, FiniteSets

VARIABLES driver,    \* program point of kmemmapper_load, insmod, rmmod, kmemmapper_unload
          region,    \* major 201 is registered
          cdev,      \* cdev_add has been called, and cdev_del has not
          leftover,  \* a cdev of a load that failed is still registered
          page,      \* what mwmon_mmap_area points at: none, live or freed
          mem,       \* the first byte of either region
          node,      \* /dev/kmem_mapper exists
          users,     \* the processes that have the device open or mapped
          wild       \* an open ran without its page

driverVars == <<driver, region, cdev, leftover, page, mem, node, users, wild>>

Region == {"mwmon_mmap_area", "mwmon_mmap_area2"}
Byte == {"original", "notified", "other"}

Originals == [r \in Region |-> "original"]

DriverInit ==
    /\ driver = "out"
    /\ region = FALSE /\ cdev = FALSE /\ leftover = FALSE
    /\ page = "none"
    /\ mem = Originals
    /\ node = FALSE
    /\ users = {}
    /\ wild = FALSE

Goto(from, to) ==
    /\ driver = from
    /\ driver' = to

-----------------------------------------------------------------------------
(* kmemmapper_load and kmem_mapper_init *)

insmod ==
    /\ Goto("out", "register")
    /\ UNCHANGED <<region, cdev, leftover, page, mem, node, users, wild>>

\* register_chrdev_region.  When it fails, because an earlier load that
\* failed still has the number or for want of memory, init unregisters the
\* number all the same.
Register ==
    /\ \/ ~region /\ Goto("register", "cdev_add") /\ region' = TRUE
       \/ Goto("register", "out") /\ region' = FALSE
    /\ UNCHANGED <<cdev, leftover, page, mem, node, users, wild>>

\* cdev_add; the device is live from here on.  A failure keeps the number.
CdevAdd ==
    /\ \/ Goto("cdev_add", "kmalloc") /\ cdev' = TRUE
       \/ Goto("cdev_add", "out") /\ UNCHANGED cdev
    /\ UNCHANGED <<region, leftover, page, mem, node, users, wild>>

\* kmalloc, and the two pointers into the page it returns.  A failure keeps
\* the number and the device, and the pointers as they were; insmod fails,
\* and the script stops.
Kmalloc ==
    /\ \/ /\ Goto("kmalloc", "fill")
          /\ page' = "live"
          /\ mem' \in [Region -> Byte]
          /\ UNCHANGED <<cdev, leftover>>
       \/ /\ Goto("kmalloc", "out")
          /\ cdev' = FALSE
          /\ leftover' = TRUE
          /\ UNCHANGED <<page, mem>>
    /\ UNCHANGED <<region, node, users, wild>>

\* SetPageReserved, and the original value into both regions.
Fill ==
    /\ Goto("fill", "mknod")
    /\ mem' = Originals
    /\ UNCHANGED <<region, cdev, leftover, page, node, users, wild>>

mknod ==
    /\ Goto("mknod", "in")
    /\ node' = TRUE
    /\ UNCHANGED <<region, cdev, leftover, page, mem, users, wild>>

-----------------------------------------------------------------------------
(* kmemmapper_unload and kmem_mapper_exit *)

\* A wrong driver: without .owner = THIS_MODULE nothing keeps it loaded.
rmmodWithoutOwner ==
    /\ Goto("in", "kfree")
    /\ UNCHANGED <<region, cdev, leftover, page, mem, node, users, wild>>

\* rmmod fails, and the script stops, while the device is in use: the .owner
\* of its file operations is the module.
rmmod ==
    /\ users = {}
    /\ Goto("in", "kfree")
    /\ UNCHANGED <<region, cdev, leftover, page, mem, node, users, wild>>

\* ClearPageReserved and kfree; the pointers stay.
Kfree ==
    /\ Goto("kfree", "cdev_del")
    /\ page' = "freed"
    /\ UNCHANGED <<region, cdev, leftover, mem, node, users, wild>>

CdevDel ==
    /\ Goto("cdev_del", "rm")
    /\ cdev' = FALSE
    /\ region' = FALSE
    /\ UNCHANGED <<leftover, page, mem, node, users, wild>>

rm ==
    /\ Goto("rm", "out")
    /\ node' = FALSE
    /\ UNCHANGED <<region, cdev, leftover, page, mem, users, wild>>

DriverNext ==
    \/ insmod \/ Register \/ CdevAdd \/ Kmalloc \/ Fill \/ mknod
    \/ rmmod \/ Kfree \/ CdevDel \/ rm

-----------------------------------------------------------------------------
(* The methods of the device *)

\* An open of the node reaches a device: the one of the driver, unless the
\* module is on its way out, or else one that a failed load left.
Found ==
    /\ node
    /\ IF cdev THEN driver \notin {"kfree", "cdev_del"} ELSE leftover

HasPage == cdev /\ page = "live"

\* A wrong open: it leaves the regions as they are.
OpenLeavesBytes(p) ==
    /\ Found /\ HasPage
    /\ users' = users \cup {p}
    /\ UNCHANGED <<driver, region, cdev, leftover, page, mem, node, wild>>

\* kmem_mapper_open by process p.
Open(p) ==
    /\ Found /\ HasPage
    /\ users' = users \cup {p}
    /\ mem' = Originals
    /\ UNCHANGED <<driver, region, cdev, leftover, page, node, wild>>

\* An open that has no page to write to, or runs in a module that has been
\* freed; the process does not survive it.
OpenWild ==
    /\ Found /\ ~HasPage
    /\ wild' = TRUE
    /\ UNCHANGED <<driver, region, cdev, leftover, page, mem, node, users>>

\* The last close of process p, and the end of its mapping.
Release(p) ==
    /\ users' = users \ {p}
    /\ UNCHANGED <<driver, region, cdev, leftover, page, mem, node, wild>>

\* A store to region r through a mapping.
Store(r, v) ==
    /\ mem' = [mem EXCEPT ![r] = v]
    /\ UNCHANGED <<driver, region, cdev, leftover, page, node, users, wild>>

-----------------------------------------------------------------------------

DriverTypeOK ==
    /\ driver \in {"out", "register", "cdev_add", "kmalloc", "fill", "mknod",
                   "in", "kfree", "cdev_del", "rm"}
    /\ region \in BOOLEAN /\ cdev \in BOOLEAN /\ leftover \in BOOLEAN
    /\ page \in {"none", "live", "freed"}
    /\ mem \in [Region -> Byte]
    /\ node \in BOOLEAN
    /\ wild \in BOOLEAN

\* Whoever has the device open or mapped keeps its page: it is unloaded, and
\* the page freed, only when nobody does.  And an open finds the page although
\* the device is live before the page is there and after it is gone, because
\* the scripts make the node last and a module on its way out is not opened;
\* unless an earlier load failed and left its own device behind.
PageOutlivesItsUsers ==
    /\ users # {} => driver = "in" /\ page = "live"
    /\ wild => leftover

=============================================================================
