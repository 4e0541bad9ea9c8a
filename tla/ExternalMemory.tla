--------------------------- MODULE ExternalMemory ---------------------------
(***************************************************************************)
(* Memory shared between Direct3D 12 and HIP.  vkd3d-proton, as patched,   *)
(* gives out a Linux file descriptor in the guise of a HANDLE; ext_mem.c   *)
(* takes it out of the import descriptor again; the real library, external *)
(* here, imports what the descriptor denotes.                              *)
(*                                                                         *)
(* Descriptors and handles are plain numbers from overlapping ranges.      *)
(* exported is the process's descriptor table as far as it holds exported  *)
(* memory; descriptor 0 is standard input, and no code closes a descriptor *)
(* that was exported.                                                      *)
(***************************************************************************)
EXTENDS Integers, Sequences

CONSTANTS
  Buffers,          \* shared buffers
  Textures,         \* shared textures
  FdExtension,      \* VKD3D_CONFIG=external_memory_fd, with the thunk resolved
  Foreign,          \* whatever a true Win32 handle denotes
  MaxFds            \* bound: descriptors exported in a run

Resources == Buffers \cup Textures

ASSUME ExternalMemoryAssumption ==
  /\ FdExtension \in BOOLEAN
  /\ MaxFds \in Nat
  /\ Foreign \notin Resources

VARIABLES
  exported,  \* descriptor i denotes exported[i]
  handles,   \* the HANDLEs the caller was given, with what it was given them for
  imported   \* external memory objects: what each holds, and was meant to hold

memoryVars == <<exported, handles, imported>>

HIP_EXT_MEM_TYPE_OPAQUE_FD == 1
HIP_EXT_MEM_TYPE_OPAQUE_WIN32 == 2
HIP_EXT_MEM_TYPE_D3D12_RESOURCE == 5

NULL_HANDLE == 0
Handle == [number : 0 .. MaxFds, means : Resources]
ImportedMemory == [holds : Resources, meant : Resources \cup {Foreign}]

MemoryInit ==
  /\ exported = <<>>
  /\ handles = {}
  /\ imported = {}

(* Plausible wrong version: every handle is taken for a descriptor. *)
ExtractWhatever(type, handle) == handle

-----------------------------------------------------------------------------
(* d3d12_device_CreateSharedHandle.  Only a buffer has exportable memory, and
   vkGetMemoryFdKHR may fail; otherwise D3DKMTShareObjects reports success under
   Wine and leaves the handle null. *)
CreateSharedHandle ==
  \E r \in Resources :
    /\ \/ /\ r \in Buffers /\ FdExtension
          /\ Len(exported) < MaxFds
          /\ exported' = Append(exported, r)
          /\ handles' = handles \cup {[number |-> Len(exported) + 1, means |-> r]}
       \/ /\ handles' = handles \cup {[number |-> NULL_HANDLE, means |-> r]}
          /\ UNCHANGED exported
    /\ UNCHANGED imported

(* The handle descriptors a caller of hipImportExternalMemory can fill in: one
   it was given, as either of the two types that carry a descriptor, or a true
   Win32 handle, whose number may be that of a descriptor. *)
Descriptors ==
  {[type |-> ty, number |-> h.number, means |-> h.means] :
      ty \in {HIP_EXT_MEM_TYPE_OPAQUE_FD, HIP_EXT_MEM_TYPE_D3D12_RESOURCE}, h \in handles} \cup
  {[type |-> HIP_EXT_MEM_TYPE_OPAQUE_WIN32, number |-> n, means |-> Foreign] : n \in 1 .. MaxFds}

hip_ext_mem_extract_fd(type, handle) ==
  IF type \in {HIP_EXT_MEM_TYPE_OPAQUE_FD, HIP_EXT_MEM_TYPE_D3D12_RESOURCE} THEN handle ELSE -1

(* The real library imports a descriptor that denotes exported memory. *)
ImportFd(fd, meant) ==
  /\ fd \in DOMAIN exported
  /\ imported' = imported \cup {[holds |-> exported[fd], meant |-> meant]}
  /\ UNCHANGED <<exported, handles>>

DestroyMemory ==
  /\ \E m \in imported : imported' = imported \ {m}
  /\ UNCHANGED <<exported, handles>>
=============================================================================
