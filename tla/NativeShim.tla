----------------------------- MODULE NativeShim -----------------------------
(***************************************************************************)
(* The Linux half of the shim: native.c's lazy loader of the real HIP      *)
(* library, and the handlers that register fat binaries, kernels and       *)
(* device variables and later launch or write through them, over the       *)
(* tables of registry.c.                                                   *)
(*                                                                         *)
(* init_mutex guards the loader and is explicit; registry_mutex is held    *)
(* around one table access and no call, so each such access is one step.   *)
(* The real HIP library is external: which candidates exist, what they     *)
(* export, and whether a call succeeds is up to the environment.           *)
(***************************************************************************)
EXTENDS Integers, Sequences

CONSTANTS
  Threads,
  NoThread,
  Tokens,      \* addresses of fat binary data, which are also their tokens
  Bundles,     \* the tokens that resolve_bundle_ptr recognises
  Hosts,       \* host addresses of kernels and of device variables
  Names,       \* device names
  NumLibs,     \* candidates to dlopen, in the order they are tried
  Exports,     \* per candidate: the symbols it exports
  MaxEntries,  \* per table: MAX_FATBINS, MAX_FUNCTIONS, MAX_VARS
  MaxModules,  \* bound: modules the real library loads in a run
  NoValue

Kinds == {"fatbin", "function", "var"}

(* The pointers the handlers of this module use, in the order they are
   resolved; hipMemcpy also stands for the other plain forwarders. *)
SymOrder == <<"hipMemcpy", "hipModuleLoadData", "hipModuleGetFunction",
              "hipModuleGetGlobal", "hipModuleLaunchKernel">>
Syms == {"hipMemcpy", "hipModuleLoadData", "hipModuleGetFunction",
         "hipModuleGetGlobal", "hipModuleLaunchKernel"}

NULL == 0

ASSUME NativeAssumption ==
  /\ NoThread \notin Threads
  /\ Bundles \subseteq Tokens
  /\ NumLibs \in Nat
  /\ Exports \in [1 .. NumLibs -> SUBSET Syms]
  /\ MaxEntries \in [Kinds -> Nat]
  /\ MaxModules \in Nat

Libs == 1 .. NumLibs
Modules == 1 .. MaxModules
(* A loaded module, or what a name denotes in one. *)
Value == [module : Modules, name : Names \cup {NoValue}]
Module(m) == [module |-> m, name |-> NoValue]
Symbol(v, name) == [module |-> v.module, name |-> name]

ASSUME NoValueAssumption == NoValue \notin Value \cup Names

VARIABLES
  hip_handle, p,   \* statics of native.c: the library, and the p_* pointers
  init_mutex,      \* its owner
  resolving,       \* how many of SymOrder the owner has resolved
  tables,          \* registry.c: fatbins, functions and vars
  present,         \* external: the candidates dlopen would find now
  modules,         \* external: modules loaded so far
  pc, call, val    \* per thread: the step, the call, the value it works with

vars == <<hip_handle, p, init_mutex, resolving, tables, present, modules, pc, call, val>>
loaderVars == <<hip_handle, p, init_mutex, resolving>>
hostVars == <<present, modules>>

Entry == [key : Tokens \cup Hosts, value : Value, name : Names \cup {NoValue}]

PCs == {"idle", "find", "lock", "test", "open", "resolve", "check", "call", "add", "name"}

(* The calls: register a fat binary, a kernel or a device variable; launch a
   kernel; copy to a device variable; or any handler that only forwards. *)
Calls ==
  [op : {"fatbin"}, token : Tokens] \cup
  [op : {"function", "var"}, token : Tokens, host : Hosts, name : Names] \cup
  [op : {"launch", "tosymbol"}, host : Hosts] \cup
  [op : {"forward"}]

NoCall == [op |-> "forward"]

Init ==
  /\ hip_handle = NULL
  /\ p = [s \in Syms |-> NULL]
  /\ init_mutex = NoThread
  /\ resolving = 0
  /\ tables = [k \in Kinds |-> <<>>]
  /\ present \in SUBSET Libs
  /\ modules = 0
  /\ pc = [t \in Threads |-> "idle"]
  /\ call = [t \in Threads |-> NoCall]
  /\ val = [t \in Threads |-> NoValue]

Goto(t, label) == pc' = [pc EXCEPT ![t] = label]
SetVal(t, v) == val' = [val EXCEPT ![t] = v]
Finish(t) == Goto(t, "idle") /\ call' = [call EXCEPT ![t] = NoCall] /\ SetVal(t, NoValue)

(* The table a call looks its key up in, and the key. *)
FindKind(c) ==
  CASE c.op \in {"function", "var"} -> "fatbin"
    [] c.op = "launch" -> "function"
    [] OTHER -> "var"
FindKey(c) == IF c.op \in {"function", "var"} THEN c.token ELSE c.host

(* The table a registration adds to, and the key it adds. *)
AddKey(c) == IF c.op = "fatbin" THEN c.token ELSE c.host

(* The real function a handler calls, which it checks for null first. *)
Needs(c) ==
  CASE c.op = "fatbin" -> "hipModuleLoadData"
    [] c.op = "function" -> "hipModuleGetFunction"
    [] c.op = "var" -> "hipModuleGetGlobal"
    [] c.op = "launch" -> "hipModuleLaunchKernel"
    [] OTHER -> "hipMemcpy"

Matches(k, key) == {i \in 1 .. Len(tables[k]) : tables[k][i].key = key}

-----------------------------------------------------------------------------
(* Plausible wrong versions of the code, for the mutation runs. *)

LastMatch(k, key, i) == i \in Matches(k, key) /\ \A j \in Matches(k, key) : j <= i
NeverLoaded == FALSE
LockOnlyToLoad(t) == hip_handle # NULL \/ init_mutex = NoThread
AddEvenIfFull(k) == FALSE
KeepMutex(t) == init_mutex' = init_mutex

-----------------------------------------------------------------------------
(* registry_find_module, registry_find_function, registry_find_function_name
   and registry_find_var all stop at the first entry with the key. *)
FirstMatch(k, key, i) == i \in Matches(k, key) /\ \A j \in Matches(k, key) : i <= j

(* ensure_loaded comes first in the handlers that call it; the registering and
   launching handlers look their key up first and rely on what they find. *)
Start(t) ==
  /\ pc[t] = "idle"
  /\ \E c \in Calls :
       /\ call' = [call EXCEPT ![t] = c]
       /\ Goto(t, IF c.op \in {"fatbin", "forward"} THEN "lock" ELSE "find")
  /\ UNCHANGED <<loaderVars, tables, hostVars, val>>

(* find_module, find_function, find_var: one access under registry_mutex. *)
Find(t) ==
  /\ pc[t] = "find"
  /\ \E i \in DOMAIN tables[FindKind(call[t])] :
       /\ FirstMatch(FindKind(call[t]), FindKey(call[t]), i)
       /\ SetVal(t, tables[FindKind(call[t])][i].value)
  /\ Goto(t, IF call[t].op = "tosymbol" THEN "lock" ELSE "check")
  /\ UNCHANGED <<loaderVars, tables, hostVars, call>>

FindNothing(t) ==
  /\ pc[t] = "find"
  /\ Matches(FindKind(call[t]), FindKey(call[t])) = {}
  /\ Finish(t)
  /\ UNCHANGED <<loaderVars, tables, hostVars>>

(***************************************************************************)
(* ensure_loaded                                                           *)
(***************************************************************************)
MayEnter(t) == init_mutex = NoThread

AcquireInit(t) ==
  /\ pc[t] = "lock"
  /\ MayEnter(t)
  /\ init_mutex' = t
  /\ Goto(t, "test")
  /\ UNCHANGED <<hip_handle, p, resolving, tables, hostVars, call, val>>

Loaded == hip_handle # NULL

TestLoaded(t) ==
  /\ pc[t] = "test"
  /\ IF Loaded THEN Goto(t, "check") /\ init_mutex' = NoThread
               ELSE Goto(t, "open") /\ UNCHANGED init_mutex
  /\ UNCHANGED <<hip_handle, p, resolving, tables, hostVars, call, val>>

(* LD_LIBRARY_PATH is prefixed with the host's directories, then the first
   candidate that dlopen finds is kept. *)
OpenLibrary(t) ==
  /\ pc[t] = "open"
  /\ \E l \in present : (\A m \in present : l <= m) /\ hip_handle' = l
  /\ resolving' = 0
  /\ Goto(t, "resolve")
  /\ UNCHANGED <<p, init_mutex, tables, hostVars, call, val>>

Unlock(t) == init_mutex' = NoThread

OpenFails(t) ==
  /\ pc[t] = "open"
  /\ present = {}
  /\ Unlock(t)
  /\ Finish(t)
  /\ UNCHANGED <<hip_handle, p, resolving, tables, hostVars>>

(* One dlsym: a symbol the library does not export stays null. *)
Dlsym(l, s) == IF s \in Exports[l] THEN l ELSE NULL

ResolveSymbol(t) ==
  /\ pc[t] = "resolve"
  /\ resolving < Len(SymOrder)
  /\ p' = [p EXCEPT ![SymOrder[resolving + 1]] = Dlsym(hip_handle, SymOrder[resolving + 1])]
  /\ resolving' = resolving + 1
  /\ UNCHANGED <<hip_handle, init_mutex, tables, hostVars, pc, call, val>>

FinishLoad(t) ==
  /\ pc[t] = "resolve"
  /\ resolving = Len(SymOrder)
  /\ init_mutex' = NoThread
  /\ Goto(t, "check")
  /\ UNCHANGED <<hip_handle, p, resolving, tables, hostVars, call, val>>

(***************************************************************************)
(* The handlers, once the library is loaded or the key was found.          *)
(***************************************************************************)
Usable(t) == p[Needs(call[t])] # NULL

CheckPointer(t) ==
  /\ pc[t] = "check"
  /\ Usable(t)
  /\ Goto(t, "call")
  /\ UNCHANGED <<loaderVars, tables, hostVars, call, val>>

PointerMissing(t) ==
  /\ pc[t] = "check"
  /\ ~Usable(t)
  /\ Finish(t)
  /\ UNCHANGED <<loaderVars, tables, hostVars>>

(* hipModuleLoadData; data that is no bundle never gets this far. *)
LoadModule(t) ==
  /\ pc[t] = "call" /\ call[t].op = "fatbin"
  /\ call[t].token \in Bundles
  /\ modules < MaxModules
  /\ modules' = modules + 1
  /\ SetVal(t, Module(modules + 1))
  /\ Goto(t, "add")
  /\ UNCHANGED <<loaderVars, tables, present, call>>

(* hipModuleGetFunction, hipModuleGetGlobal: what the name denotes in the
   module that was found. *)
ResolveName(t) ==
  /\ pc[t] = "call" /\ call[t].op \in {"function", "var"}
  /\ SetVal(t, Symbol(val[t], call[t].name))
  /\ Goto(t, "add")
  /\ UNCHANGED <<loaderVars, tables, hostVars, call>>

(* The bundle is not recognised, or the module or the name does not load. *)
RegisterFails(t) ==
  /\ pc[t] = "call" /\ call[t].op \in {"fatbin", "function", "var"}
  /\ Finish(t)
  /\ UNCHANGED <<loaderVars, tables, hostVars>>

(* hipModuleLaunchKernel, whatever it returns: the name is looked up next. *)
LaunchKernel(t) ==
  /\ pc[t] = "call" /\ call[t].op = "launch"
  /\ Goto(t, "name")
  /\ UNCHANGED <<loaderVars, tables, hostVars, call, val>>

(* hipMemcpy and the other forwarded calls, whatever they return. *)
ForwardCall(t) ==
  /\ pc[t] = "call" /\ call[t].op \in {"tosymbol", "forward"}
  /\ Finish(t)
  /\ UNCHANGED <<loaderVars, tables, hostVars>>

TableFull(k) == Len(tables[k]) >= MaxEntries[k]

Added(k, e) == Append(tables[k], e)

(* registry_add_fatbin, registry_add_function, registry_add_var: a full table
   drops the entry, and the handler ignores that. *)
Add(t) ==
  /\ pc[t] = "add"
  /\ LET c == call[t]
         e == [key |-> AddKey(c), value |-> val[t],
               name |-> IF c.op = "function" THEN c.name ELSE NoValue]
     IN tables' = IF TableFull(c.op) THEN tables
                  ELSE [tables EXCEPT ![c.op] = Added(c.op, e)]
  /\ Finish(t)
  /\ UNCHANGED <<loaderVars, hostVars>>

(* find_function_name, for the log line of the launch. *)
LogLaunch(t) ==
  /\ pc[t] = "name"
  /\ Finish(t)
  /\ UNCHANGED <<loaderVars, tables, hostVars>>

(* External: a candidate library becomes visible in the container. *)
LibraryAppears ==
  /\ \E l \in Libs \ present : present' = present \cup {l}
  /\ UNCHANGED <<loaderVars, tables, modules, pc, call, val>>

-----------------------------------------------------------------------------
EnsureLoaded(t) ==
  \/ AcquireInit(t)
  \/ TestLoaded(t)
  \/ OpenLibrary(t)
  \/ OpenFails(t)
  \/ ResolveSymbol(t)
  \/ FinishLoad(t)

Handler(t) ==
  \/ Find(t)
  \/ FindNothing(t)
  \/ CheckPointer(t)
  \/ PointerMissing(t)
  \/ LoadModule(t)
  \/ ResolveName(t)
  \/ RegisterFails(t)
  \/ LaunchKernel(t)
  \/ ForwardCall(t)
  \/ Add(t)
  \/ LogLaunch(t)

Next ==
  \/ LibraryAppears
  \/ \E t \in Threads : Start(t) \/ EnsureLoaded(t) \/ Handler(t)

Spec == Init /\ [][Next]_vars

(* A thread inside a call keeps running; nothing makes a caller start one, or
   a library appear. *)
FairSpec == Spec /\ \A t \in Threads : WF_vars(EnsureLoaded(t) \/ Handler(t))

-----------------------------------------------------------------------------
TypeOK ==
  /\ hip_handle \in Libs \cup {NULL}
  /\ p \in [Syms -> Libs \cup {NULL}]
  /\ init_mutex \in Threads \cup {NoThread}
  /\ resolving \in 0 .. Len(SymOrder)
  /\ tables \in [Kinds -> Seq(Entry)]
  /\ \A k \in Kinds : Len(tables[k]) <= MaxEntries[k]
  /\ present \subseteq Libs
  /\ modules \in 0 .. MaxModules
  /\ pc \in [Threads -> PCs]
  /\ call \in [Threads -> Calls]
  /\ val \in [Threads -> Value \cup {NoValue}]

(* No handler looks at a p_* pointer before every pointer has been resolved
   from the one library that stays loaded.  The handlers that never call
   ensure_loaded (registering and launching kernels) included: an entry they
   found was added by a call that did. *)
ResolvedBeforeUse ==
  \A t \in Threads : pc[t] \in {"check", "call"} =>
    hip_handle # NULL /\ \A s \in Syms : p[s] = Dlsym(hip_handle, s)

(* Once the library is loaded neither it nor a resolved pointer is replaced,
   even when a candidate that would have been preferred appears later. *)
LoadedOnce ==
  [][hip_handle # NULL /\ (\A t \in Threads : pc[t] # "resolve")
       => UNCHANGED <<hip_handle, p>>]_vars

(* The kernel name the launch logs is the name of the kernel it launched,
   although the two lookups are separate and registrations go on between. *)
NameMatchesLaunch ==
  \A t \in Threads : pc[t] = "name" =>
    \E i \in DOMAIN tables["function"] :
      FirstMatch("function", call[t].host, i) /\ tables["function"][i].name = val[t].name

(* Whatever happens inside ensure_loaded, init_mutex is given back. *)
InitMutexReleased == init_mutex # NoThread ~> init_mutex = NoThread

(* The tables implement the write-once map: what they bind is the first entry
   of each key, and what a call works with is what it found. *)
TableBindings ==
  UNION {{[kind |-> k, key |-> tables[k][i].key, value |-> tables[k][i].value] :
            i \in {j \in DOMAIN tables[k] : FirstMatch(k, tables[k][j].key, j)}} : k \in Kinds}

WorkingBinding(t) ==
  IF pc[t] \in {"idle", "find"} \/ call[t].op \in {"fatbin", "forward"} THEN NoValue
  ELSE [kind |-> FindKind(call[t]), key |-> FindKey(call[t]),
        value |-> IF pc[t] = "add" THEN Module(val[t].module) ELSE val[t]]

Table == INSTANCE SymbolTable WITH
           Users <- Threads, Keys <- Tokens \cup Hosts, Values <- Value, NoBinding <- NoValue,
           bindings <- TableBindings, inuse <- [t \in Threads |-> WorkingBinding(t)]

(* registry.c with its callers implements SymbolTable. *)
ImplementsSymbolTable == Table!Spec
=============================================================================
