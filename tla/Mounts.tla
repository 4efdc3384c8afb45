-------------------------------- MODULE Mounts --------------------------------
(***************************************************************************)
(* The modules of files/module_loader.c: which one serves which mount      *)
(* point, and which mount points are reserved.                             *)
(***************************************************************************)
EXTENDS Integers

CONSTANTS Modules, Owners, Nil,
          Mount      \* the mount point of each module

VARIABLES map,       \* the module at each mount point
          reserved,  \* the owner who reserved it, 0 if nobody did
          live,      \* history: modules that were initialised and not finished
          barred     \* history: mount points reserved while nothing was there
vars == <<map, reserved, live, barred>>

MountPoints == {Mount[m] : m \in Modules}

Init ==
  /\ map = [p \in MountPoints |-> Nil]
  /\ reserved = [p \in MountPoints |-> 0]
  /\ live = {} /\ barred = {}

\* Owner 0 is the same as none, and leaves the mount point free; the map may be
\* refused the memory for a new one.
reserve_mount_point ==
  \E p \in MountPoints, owner \in Owners :
    /\ reserved' \in {reserved} \cup
         IF reserved[p] # 0 THEN {} ELSE {[reserved EXCEPT ![p] = owner]}
    /\ barred' = IF reserved'[p] # reserved[p] /\ map[p] = Nil
                 THEN barred \cup {p} ELSE barred
    /\ UNCHANGED <<map, live>>

\* A mount point that is taken gets the new module; the map may be refused the
\* memory for one that is not.
Mounted(m) ==
  {[map EXCEPT ![Mount[m]] = m]} \cup IF map[Mount[m]] = Nil THEN {map} ELSE {}

AdmittedAnyway(m) == TRUE

Admitted(m) == reserved[Mount[m]] = 0

\* What has no version is not initialised; what is refused its mount point is.
load_module_to ==
  \E m \in Modules, versioned, initialised \in BOOLEAN :
    /\ live' = IF versioned /\ initialised THEN live \cup {m} ELSE live
    /\ IF versioned /\ initialised /\ Admitted(m) THEN map' \in Mounted(m) ELSE map' = map
    /\ UNCHANGED <<reserved, barred>>

\* Whatever is at the mount point goes.
unload_module_from ==
  \E m \in Modules :
    /\ live' = live \ {m}
    /\ map' = [map EXCEPT ![Mount[m]] = Nil]
    /\ UNCHANGED <<reserved, barred>>

Next == reserve_mount_point \/ load_module_to \/ unload_module_from

Spec == Init /\ [][Next]_vars

-----------------------------------------------------------------------------
\* Whatever order modules are loaded, replaced, unloaded and reserved against
\* in, a mount point leads to a module of its own that is initialised, and none
\* that was reserved while it was free leads anywhere (module_loader.c:21-54).
MountsHold ==
  \A p \in MountPoints :
    /\ map[p] # Nil => Mount[map[p]] = p /\ map[p] \in live
    /\ p \in barred => map[p] = Nil
=============================================================================
