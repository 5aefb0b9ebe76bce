------------------------------ MODULE MC_Devices -----------------------------
(***************************************************************************)
(* What the kernel does with its devices and its memory, checked together: *)
(* the network, its card, TLS, the keyboard and the mouse, the disk, the   *)
(* frames of memory.  The six parts write no state of one another, so a    *)
(* behaviour is one part's, with the others at rest.                       *)
(***************************************************************************)
EXTENDS KernelNet, KernelCard, KernelTls, KernelInput, KernelDisk, KernelMemory

VARIABLE part   \* the part that runs

devicesVars == <<part, netVars, cardVars, tlsVars, inputVars, diskVars, memoryVars>>

\* A part at rest starts in one way only.
DevicesInit ==
    /\ part \in {"net", "card", "tls", "input", "disk", "memory"}
    /\ NetInit /\ CardInit /\ TlsInit /\ InputInit /\ DiskInit /\ MemoryInit
    /\ part = "disk" \/ \A i \in DOMAIN platter, j \in DOMAIN bounce : platter[i] = 0 /\ bounce[j] = 0
    /\ part = "memory" \/ layout = CHOOSE l \in Layouts : Starts(l)

DevicesNext ==
    /\ UNCHANGED part
    /\ \/ part = "net" /\ NetNext /\ UNCHANGED <<cardVars, tlsVars, inputVars, diskVars, memoryVars>>
       \/ part = "card" /\ CardNext /\ UNCHANGED <<netVars, tlsVars, inputVars, diskVars, memoryVars>>
       \/ part = "tls" /\ TlsNext /\ UNCHANGED <<netVars, cardVars, inputVars, diskVars, memoryVars>>
       \/ part = "input" /\ InputNext /\ UNCHANGED <<netVars, cardVars, tlsVars, diskVars, memoryVars>>
       \/ part = "disk" /\ DiskNext /\ UNCHANGED <<netVars, cardVars, tlsVars, inputVars, memoryVars>>
       \/ part = "memory" /\ MemoryNext /\ UNCHANGED <<netVars, cardVars, tlsVars, inputVars, diskVars>>

DevicesSpec == DevicesInit /\ [][DevicesNext]_devicesVars

\* A bound: once a question was given a number in use, nothing more is looked at.
NumbersApart == ~reused

\* Resolvers and names have no order and no meaning of their own.
NetSymmetry == Permutations(Resolvers) \cup Permutations(HostNames)

\* Every part's variables have their types.
DevicesTypeOK ==
    NetTypeOK /\ CardTypeOK /\ TlsTypeOK /\ InputTypeOK /\ DiskTypeOK /\ MemoryTypeOK

\* The server's flight, without certificates: grenOS checks none.
TheFlight == <<"extensions", "finished">>

\* Three maps: one with a region that starts and ends within frames and one
\* reserved, one with two regions of a size, one too small to start.
Region(b, n, u) == [base |-> b, length |-> n, usable |-> u]
Maps == {<<Region(0, 9, TRUE), Region(9, 3, FALSE), Region(13, 22, TRUE)>>,
         <<Region(24, 12, TRUE), Region(37, 12, TRUE)>>,
         <<Region(1, 6, TRUE)>>}
=============================================================================
