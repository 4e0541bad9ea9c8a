-------------------------- MODULE NativeShimProofs --------------------------
(***************************************************************************)
(* For any number of threads, candidates, tokens and table sizes: no       *)
(* handler uses a pointer before the one library is resolved, the library  *)
(* is never replaced, the tables implement the write-once map of           *)
(* SymbolTable, and a launch logs the name of the kernel it launched.      *)
(***************************************************************************)
EXTENDS NativeShim, TLAPS

InMutex == {"test", "open", "resolve"}
Lookups == {"function", "var", "launch", "tosymbol"}

(* Whoever is inside ensure_loaded owns init_mutex, and opens only a library
   that nobody has opened. *)
LoaderExcludes ==
  \A t \in Threads :
    /\ pc[t] \in InMutex => init_mutex = t
    /\ pc[t] = "open" => hip_handle = NULL

(* Every pointer is what the loaded library exports. *)
Complete == hip_handle # NULL /\ \A s \in Syms : p[s] = Dlsym(hip_handle, s)

(* The pointers resolved so far, while the library is being resolved. *)
ResolvedPrefix ==
  \A t \in Threads : pc[t] = "resolve" =>
    /\ hip_handle # NULL
    /\ \A i \in 1 .. resolving : p[SymOrder[i]] = Dlsym(hip_handle, SymOrder[i])

LoadedIsComplete ==
  hip_handle # NULL /\ (\A t \in Threads : pc[t] # "resolve") => Complete

(* Only a call that went through ensure_loaded can have added an entry; so a
   call that found one needs no lock of its own. *)
EntriesAfterLoad ==
  /\ (\E k \in Kinds : tables[k] # <<>>) => Complete
  /\ \A t \in Threads : pc[t] \in {"check", "call", "add", "name"} => Complete

(* The value a call works with, and the calls that reach each step. *)
CallShape ==
  \A t \in Threads :
    /\ pc[t] = "find" => call[t].op \in Lookups
    /\ pc[t] = "name" => call[t].op = "launch"
    /\ pc[t] = "add" => call[t].op \in Kinds /\ val[t] \in Value
    /\ pc[t] \in {"lock"} \cup InMutex => call[t].op \in {"fatbin", "forward", "tosymbol"}
    /\ pc[t] \notin {"idle", "find"} /\ call[t].op \in Lookups => val[t] \in Value

(* What a fat binary's token is bound to is a whole module, and a registration
   works with that until it has resolved the name. *)
ModuleValues ==
  /\ \A i \in DOMAIN tables["fatbin"] : tables["fatbin"][i].value.name = NoValue
  /\ \A t \in Threads :
       /\ pc[t] \in {"check", "call"} /\ call[t].op \in {"function", "var"} => val[t].name = NoValue
       /\ pc[t] = "add" /\ call[t].op = "fatbin" => val[t].name = NoValue

IInv == /\ TypeOK /\ LoaderExcludes /\ ResolvedPrefix /\ LoadedIsComplete
        /\ EntriesAfterLoad /\ CallShape /\ ModuleValues

-----------------------------------------------------------------------------
LEMMA SymOrderFacts ==
  /\ Len(SymOrder) = 5
  /\ \A i \in 1 .. 5 : SymOrder[i] \in Syms
  /\ \A s \in Syms : \E i \in 1 .. 5 : SymOrder[i] = s
<1>1. Len(SymOrder) = 5
  BY DEF SymOrder
<1>2. /\ SymOrder[1] = "hipMemcpy" /\ SymOrder[2] = "hipModuleLoadData"
      /\ SymOrder[3] = "hipModuleGetFunction" /\ SymOrder[4] = "hipModuleGetGlobal"
      /\ SymOrder[5] = "hipModuleLaunchKernel"
  BY DEF SymOrder
<1>3. 1 .. 5 = {1, 2, 3, 4, 5}
  OBVIOUS
<1> QED
  BY <1>1, <1>2, <1>3 DEF Syms

LEMMA DlsymType == \A l \in Libs, s \in Syms : Dlsym(l, s) \in Libs \cup {NULL}
BY DEF Dlsym

(* The fields a call of each kind has. *)
LEMMA CallFields ==
  ASSUME NEW c \in Calls
  PROVE  /\ c.op \in Kinds \cup {"launch", "tosymbol", "forward"}
         /\ c.op \in Kinds => c.token \in Tokens
         /\ c.op \in {"function", "var"} => c.host \in Hosts /\ c.name \in Names
         /\ c.op \in {"launch", "tosymbol"} => c.host \in Hosts
<1>1. CASE c \in [op : {"fatbin"}, token : Tokens]
  BY <1>1 DEF Kinds
<1>2. CASE c \in [op : {"function", "var"}, token : Tokens, host : Hosts, name : Names]
  BY <1>2 DEF Kinds
<1>3. CASE c \in [op : {"launch", "tosymbol"}, host : Hosts]
  BY <1>3 DEF Kinds
<1>4. CASE c \in [op : {"forward"}]
  BY <1>4 DEF Kinds
<1> QED
  BY <1>1, <1>2, <1>3, <1>4 DEF Calls

LEMMA FindTypes ==
  ASSUME NEW c \in Calls
  PROVE  /\ FindKind(c) \in Kinds
         /\ c.op \in Lookups => FindKey(c) \in Tokens \cup Hosts
         /\ c.op \in Kinds => AddKey(c) \in Tokens \cup Hosts
<1>1. FindKind(c) \in Kinds
  BY CallFields DEF FindKind, Kinds
<1>2. c.op \in Lookups => FindKey(c) \in Tokens \cup Hosts
  BY CallFields DEF FindKey, Lookups, Kinds
<1>3. c.op \in Kinds => AddKey(c) \in Tokens \cup Hosts
  BY CallFields DEF AddKey, Kinds
<1> QED
  BY <1>1, <1>2, <1>3

LEMMA FinishTypes ==
  ASSUME TypeOK, NEW t \in Threads, Finish(t)
  PROVE  /\ pc' = [pc EXCEPT ![t] = "idle"] /\ pc' \in [Threads -> PCs]
         /\ call' \in [Threads -> Calls] /\ val' \in [Threads -> Value \cup {NoValue}]
         /\ \A u \in Threads \ {t} : call'[u] = call[u] /\ val'[u] = val[u]
<1>1. NoCall \in Calls
  BY DEF NoCall, Calls
<1> QED
  BY <1>1 DEF TypeOK, Finish, Goto, SetVal, PCs

(* The value a lookup returns. *)
LEMMA FoundValue ==
  ASSUME TypeOK, NEW k \in Kinds, NEW i \in DOMAIN tables[k]
  PROVE  tables[k][i] \in Entry /\ tables[k][i].value \in Value /\ tables[k] # <<>>
<1>1. tables[k] \in Seq(Entry)
  BY DEF TypeOK
<1>2. DOMAIN tables[k] = 1 .. Len(tables[k]) /\ Len(tables[k]) \in Nat
  BY <1>1
<1>3. tables[k][i] \in Entry
  BY <1>1, <1>2
<1>4. tables[k] # <<>>
  BY <1>2
<1> QED
  BY <1>3, <1>4 DEF Entry

LEMMA InitInv == Init => IInv
<1> SUFFICES ASSUME Init PROVE IInv
  OBVIOUS
<1>1. TypeOK
  <2>1. NoCall \in Calls
    BY DEF NoCall, Calls
  <2>2. pc \in [Threads -> PCs] /\ call \in [Threads -> Calls]
    BY <2>1 DEF Init, PCs
  <2>3. \A k \in Kinds : tables[k] = <<>> /\ Len(tables[k]) = 0
    BY DEF Init
  <2>4. tables \in [Kinds -> Seq(Entry)]
    BY DEF Init
  <2>5. hip_handle \in Libs \cup {NULL} /\ p \in [Syms -> Libs \cup {NULL}]
    BY DEF Init
  <2>6. resolving \in 0 .. Len(SymOrder) /\ modules \in 0 .. MaxModules
    BY NativeAssumption, SymOrderFacts DEF Init
  <2>7. \A k \in Kinds : Len(tables[k]) <= MaxEntries[k]
    BY <2>3, NativeAssumption
  <2> QED
    BY <2>2, <2>4, <2>5, <2>6, <2>7 DEF Init, TypeOK
<1>2. \A t \in Threads : pc[t] = "idle"
  BY DEF Init
<1>3. \A k \in Kinds : tables[k] = <<>>
  BY DEF Init
<1>4. hip_handle = NULL
  BY DEF Init
<1>5. LoaderExcludes /\ ResolvedPrefix /\ LoadedIsComplete
  BY <1>2, <1>4 DEF LoaderExcludes, ResolvedPrefix, LoadedIsComplete, InMutex
<1>6. EntriesAfterLoad
  BY <1>2, <1>3 DEF EntriesAfterLoad
<1>7. CallShape
  BY <1>2 DEF CallShape, InMutex
<1>8. ModuleValues
  <2>1. DOMAIN tables["fatbin"] = {}
    BY <1>3 DEF Kinds
  <2> QED
    BY <1>2, <2>1 DEF ModuleValues
<1> QED
  BY <1>1, <1>5, <1>6, <1>7, <1>8 DEF IInv

-----------------------------------------------------------------------------
(* What a registration adds, and that it stays within its table. *)
NewEntry(t) ==
  [key |-> AddKey(call[t]), value |-> val[t],
   name |-> IF call[t].op = "function" THEN call[t].name ELSE NoValue]

LEMMA AddTypes ==
  ASSUME IInv, NEW t \in Threads, Add(t)
  PROVE  /\ call[t].op \in Kinds /\ NewEntry(t) \in Entry
         /\ \/ tables' = tables
            \/ tables' = [tables EXCEPT ![call[t].op] = Append(@, NewEntry(t))]
         /\ tables' \in [Kinds -> Seq(Entry)]
         /\ \A k \in Kinds : Len(tables'[k]) <= MaxEntries[k]
<1>1. TypeOK /\ call[t] \in Calls /\ call[t].op \in Kinds /\ val[t] \in Value
  BY DEF IInv, TypeOK, CallShape, Add
<1>2. NewEntry(t) \in Entry
  <2>1. AddKey(call[t]) \in Tokens \cup Hosts
    BY <1>1, FindTypes
  <2>2. call[t].op = "function" => call[t].name \in Names
    BY <1>1, CallFields
  <2> QED
    BY <1>1, <2>1, <2>2 DEF NewEntry, Entry
<1>3. tables' = IF TableFull(call[t].op) THEN tables
                ELSE [tables EXCEPT ![call[t].op] = Append(tables[call[t].op], NewEntry(t))]
  BY DEF Add, Added, NewEntry
<1>4. CASE TableFull(call[t].op)
  BY <1>1, <1>2, <1>3, <1>4 DEF TypeOK
<1>5. CASE ~TableFull(call[t].op)
  <2>1. tables[call[t].op] \in Seq(Entry) /\ Len(tables[call[t].op]) < MaxEntries[call[t].op]
    BY <1>1, <1>5, NativeAssumption DEF TypeOK, TableFull
  <2>2. /\ Append(tables[call[t].op], NewEntry(t)) \in Seq(Entry)
        /\ Len(Append(tables[call[t].op], NewEntry(t))) <= MaxEntries[call[t].op]
    BY <1>1, <1>2, <2>1, NativeAssumption
  <2> QED
    BY <1>1, <1>2, <1>3, <1>5, <2>2 DEF TypeOK
<1> QED
  BY <1>4, <1>5

LEMMA TypeStep == IInv /\ [Next]_vars => TypeOK'
<1> SUFFICES ASSUME IInv, [Next]_vars PROVE TypeOK'
  OBVIOUS
<1>a. TypeOK /\ CallShape
  BY DEF IInv
<1> USE NativeAssumption DEF loaderVars, hostVars, Goto, SetVal
<1>1. CASE UNCHANGED vars
  BY <1>1, <1>a DEF vars, TypeOK
<1>2. CASE LibraryAppears
  BY <1>2, <1>a DEF LibraryAppears, TypeOK
<1>3. ASSUME NEW t \in Threads, Start(t) PROVE TypeOK'
  <2>1. PICK c \in Calls :
          /\ call' = [call EXCEPT ![t] = c]
          /\ pc' = [pc EXCEPT ![t] = IF c.op \in {"fatbin", "forward"} THEN "lock" ELSE "find"]
    BY <1>3 DEF Start
  <2>2. call' \in [Threads -> Calls] /\ pc' \in [Threads -> PCs]
    BY <2>1, <1>a DEF TypeOK, PCs
  <2> QED
    BY <1>3, <1>a, <2>2 DEF Start, TypeOK
<1>4. ASSUME NEW t \in Threads, AcquireInit(t) PROVE TypeOK'
  BY <1>4, <1>a DEF AcquireInit, TypeOK, PCs
<1>5. ASSUME NEW t \in Threads, TestLoaded(t) PROVE TypeOK'
  BY <1>5, <1>a DEF TestLoaded, TypeOK, PCs
<1>6. ASSUME NEW t \in Threads, OpenLibrary(t) PROVE TypeOK'
  BY <1>6, <1>a DEF OpenLibrary, TypeOK, PCs
<1>7. ASSUME NEW t \in Threads, OpenFails(t) PROVE TypeOK'
  BY <1>7, <1>a, FinishTypes DEF OpenFails, TypeOK, Unlock
<1>8. ASSUME NEW t \in Threads, ResolveSymbol(t) PROVE TypeOK'
  <2>1. resolving + 1 \in 1 .. 5 /\ SymOrder[resolving + 1] \in Syms /\ hip_handle \in Libs
    BY <1>8, <1>a, SymOrderFacts DEF ResolveSymbol, TypeOK, IInv, ResolvedPrefix
  <2>2. p' \in [Syms -> Libs \cup {NULL}]
    BY <1>8, <1>a, <2>1, DlsymType DEF ResolveSymbol, TypeOK
  <2>3. resolving' \in 0 .. Len(SymOrder)
    BY <1>8, <2>1, SymOrderFacts DEF ResolveSymbol
  <2> QED
    BY <1>8, <1>a, <2>2, <2>3 DEF ResolveSymbol, TypeOK
<1>9. ASSUME NEW t \in Threads, FinishLoad(t) PROVE TypeOK'
  BY <1>9, <1>a DEF FinishLoad, TypeOK, PCs
<1>10. ASSUME NEW t \in Threads, Find(t) PROVE TypeOK'
  <2>1. FindKind(call[t]) \in Kinds
    BY <1>a, FindTypes DEF TypeOK
  <2>2. PICK i \in DOMAIN tables[FindKind(call[t])] :
          val' = [val EXCEPT ![t] = tables[FindKind(call[t])][i].value]
    BY <1>10 DEF Find
  <2>3. val' \in [Threads -> Value \cup {NoValue}]
    BY <1>a, <2>1, <2>2, FoundValue DEF TypeOK
  <2>4. pc' \in [Threads -> PCs]
    BY <1>10, <1>a DEF Find, TypeOK, PCs
  <2> QED
    BY <1>10, <1>a, <2>3, <2>4 DEF Find, TypeOK
<1>11. ASSUME NEW t \in Threads, FindNothing(t) PROVE TypeOK'
  BY <1>11, <1>a, FinishTypes DEF FindNothing, TypeOK
<1>12. ASSUME NEW t \in Threads, CheckPointer(t) PROVE TypeOK'
  BY <1>12, <1>a DEF CheckPointer, TypeOK, PCs
<1>13. ASSUME NEW t \in Threads, PointerMissing(t) PROVE TypeOK'
  BY <1>13, <1>a, FinishTypes DEF PointerMissing, TypeOK
<1>14. ASSUME NEW t \in Threads, LoadModule(t) PROVE TypeOK'
  <2>1. modules' \in 0 .. MaxModules /\ modules + 1 \in Modules
    BY <1>14, <1>a DEF LoadModule, TypeOK, Modules
  <2>2. Module(modules + 1) \in Value
    BY <2>1 DEF Module, Value
  <2>3. val' \in [Threads -> Value \cup {NoValue}] /\ pc' \in [Threads -> PCs]
    BY <1>14, <1>a, <2>2 DEF LoadModule, TypeOK, PCs
  <2> QED
    BY <1>14, <1>a, <2>1, <2>3 DEF LoadModule, TypeOK
<1>15. ASSUME NEW t \in Threads, ResolveName(t) PROVE TypeOK'
  <2>1. val[t] \in Value /\ call[t].name \in Names
    BY <1>15, <1>a, CallFields DEF ResolveName, TypeOK, CallShape, Lookups
  <2>2. Symbol(val[t], call[t].name) \in Value
    BY <2>1 DEF Symbol, Value
  <2>3. val' \in [Threads -> Value \cup {NoValue}] /\ pc' \in [Threads -> PCs]
    BY <1>15, <1>a, <2>2 DEF ResolveName, TypeOK, PCs
  <2> QED
    BY <1>15, <1>a, <2>3 DEF ResolveName, TypeOK
<1>16. ASSUME NEW t \in Threads, RegisterFails(t) PROVE TypeOK'
  BY <1>16, <1>a, FinishTypes DEF RegisterFails, TypeOK
<1>17. ASSUME NEW t \in Threads, LaunchKernel(t) PROVE TypeOK'
  BY <1>17, <1>a DEF LaunchKernel, TypeOK, PCs
<1>18. ASSUME NEW t \in Threads, ForwardCall(t) PROVE TypeOK'
  BY <1>18, <1>a, FinishTypes DEF ForwardCall, TypeOK
<1>19. ASSUME NEW t \in Threads, Add(t) PROVE TypeOK'
  <2>1. tables' \in [Kinds -> Seq(Entry)] /\ \A k \in Kinds : Len(tables'[k]) <= MaxEntries[k]
    BY <1>19, <1>a, AddTypes DEF TypeOK
  <2> QED
    BY <1>19, <1>a, <2>1, FinishTypes DEF Add, TypeOK
<1>20. ASSUME NEW t \in Threads, LogLaunch(t) PROVE TypeOK'
  BY <1>20, <1>a, FinishTypes DEF LogLaunch, TypeOK
<1> QED
  BY <1>1, <1>2, <1>3, <1>4, <1>5, <1>6, <1>7, <1>8, <1>9, <1>10, <1>11, <1>12, <1>13, <1>14, <1>15, <1>16, <1>17, <1>18, <1>19, <1>20 DEF Next, EnsureLoaded, Handler

-----------------------------------------------------------------------------
(* A thread's step and call are its own: no other thread moves it. *)
LEMMA OthersKept ==
  ASSUME TypeOK, NEW t \in Threads, Start(t) \/ EnsureLoaded(t) \/ Handler(t),
         NEW u \in Threads, u # t
  PROVE  pc'[u] = pc[u] /\ call'[u] = call[u] /\ val'[u] = val[u]
<1>a. /\ pc \in [Threads -> PCs] /\ call \in [Threads -> Calls]
      /\ val \in [Threads -> Value \cup {NoValue}]
  BY DEF TypeOK
<1>1. CASE Start(t)
  BY <1>a, <1>1 DEF Start, Goto
<1>2. CASE EnsureLoaded(t)
  BY <1>a, <1>2 DEF EnsureLoaded, AcquireInit, TestLoaded, OpenLibrary, OpenFails, ResolveSymbol,
     FinishLoad, Goto, SetVal, Finish
<1>3. CASE Handler(t)
  BY <1>a, <1>3 DEF Handler, Find, FindNothing, CheckPointer, PointerMissing, LoadModule,
     ResolveName, RegisterFails, LaunchKernel, ForwardCall, Add, LogLaunch, Goto, SetVal, Finish
<1> QED
  BY <1>1, <1>2, <1>3

LEMMA OwnStep ==
  ASSUME TypeOK, [Next]_vars, NEW u \in Threads,
         pc'[u] # pc[u] \/ call'[u] # call[u] \/ val'[u] # val[u]
  PROVE  Start(u) \/ EnsureLoaded(u) \/ Handler(u)
<1>1. CASE UNCHANGED vars
  BY <1>1 DEF vars
<1>2. CASE LibraryAppears
  BY <1>2 DEF LibraryAppears
<1>3. ASSUME NEW t \in Threads, Start(t) \/ EnsureLoaded(t) \/ Handler(t) PROVE t = u
  BY <1>3, OthersKept
<1> QED
  BY <1>1, <1>2, <1>3 DEF Next

(* Only two steps touch the library or its pointers. *)
LEMMA LoaderFrame ==
  ASSUME IInv, [Next]_vars
  PROVE  \/ UNCHANGED <<hip_handle, p>>
         \/ \E t \in Threads : OpenLibrary(t) \/ ResolveSymbol(t)
BY DEF Next, EnsureLoaded, Handler, vars, loaderVars, LibraryAppears, Start, AcquireInit, TestLoaded, OpenLibrary, OpenFails, ResolveSymbol, FinishLoad, Find, FindNothing, CheckPointer, PointerMissing, LoadModule, ResolveName, RegisterFails, LaunchKernel, ForwardCall, Add, LogLaunch

LEMMA ResolvingFrame ==
  ASSUME IInv, [Next]_vars
  PROVE  \/ UNCHANGED resolving
         \/ \E t \in Threads : OpenLibrary(t) \/ ResolveSymbol(t)
BY DEF Next, EnsureLoaded, Handler, vars, loaderVars, LibraryAppears, Start, AcquireInit, TestLoaded, OpenLibrary, OpenFails, ResolveSymbol, FinishLoad, Find, FindNothing, CheckPointer, PointerMissing, LoadModule, ResolveName, RegisterFails, LaunchKernel, ForwardCall, Add, LogLaunch

(* Only a registration changes a table. *)
LEMMA TablesFrame ==
  ASSUME IInv, [Next]_vars
  PROVE  tables' = tables \/ \E t \in Threads : Add(t)
BY DEF Next, EnsureLoaded, Handler, vars, LibraryAppears, Start, AcquireInit, TestLoaded, OpenLibrary, OpenFails, ResolveSymbol, FinishLoad, Find, FindNothing, CheckPointer, PointerMissing, LoadModule, ResolveName, RegisterFails, LaunchKernel, ForwardCall, LogLaunch

LEMMA CompleteKept ==
  ASSUME IInv, [Next]_vars, Complete
  PROVE  Complete'
<1>1. CASE UNCHANGED <<hip_handle, p>>
  BY <1>1 DEF Complete, Dlsym
<1>2. ASSUME NEW t \in Threads, OpenLibrary(t) PROVE Complete'
  BY <1>2 DEF OpenLibrary, IInv, LoaderExcludes, Complete
<1>3. ASSUME NEW t \in Threads, ResolveSymbol(t) PROVE Complete'
  <2>1. hip_handle' = hip_handle /\ \A s \in Syms : p'[s] = p[s] \/ p'[s] = Dlsym(hip_handle, s)
    BY <1>3 DEF ResolveSymbol, IInv, TypeOK
  <2> QED
    BY <2>1 DEF Complete, Dlsym
<1> QED
  BY <1>1, <1>2, <1>3, LoaderFrame

(* The thread that resolves the last symbol has resolved them all. *)
LEMMA AllResolved ==
  ASSUME IInv, NEW t \in Threads, pc[t] = "resolve", resolving = Len(SymOrder)
  PROVE  Complete
<1>1. hip_handle # NULL /\ \A i \in 1 .. 5 : p[SymOrder[i]] = Dlsym(hip_handle, SymOrder[i])
  BY SymOrderFacts DEF IInv, ResolvedPrefix
<1> QED
  BY <1>1, SymOrderFacts DEF Complete

LEMMA ExcludesStep == IInv /\ [Next]_vars => LoaderExcludes'
<1> SUFFICES ASSUME IInv, [Next]_vars PROVE LoaderExcludes'
  OBVIOUS
<1>a. LoaderExcludes /\ pc \in [Threads -> PCs]
  BY DEF IInv, TypeOK
<1> USE <1>a DEF LoaderExcludes, InMutex, loaderVars, Goto, Finish
<1>1. CASE UNCHANGED vars
  BY <1>1 DEF vars
<1>2. CASE LibraryAppears
  BY <1>2 DEF LibraryAppears
<1>3. ASSUME NEW t \in Threads, Start(t) PROVE LoaderExcludes'
  BY <1>3 DEF Start
<1>4. ASSUME NEW t \in Threads, AcquireInit(t) PROVE LoaderExcludes'
  BY <1>4, NativeAssumption DEF AcquireInit, MayEnter
<1>5. ASSUME NEW t \in Threads, TestLoaded(t) PROVE LoaderExcludes'
  BY <1>5 DEF TestLoaded, Loaded
<1>6. ASSUME NEW t \in Threads, OpenLibrary(t) PROVE LoaderExcludes'
  BY <1>6 DEF OpenLibrary
<1>7. ASSUME NEW t \in Threads, OpenFails(t) PROVE LoaderExcludes'
  BY <1>7 DEF OpenFails, Unlock
<1>8. ASSUME NEW t \in Threads, ResolveSymbol(t) PROVE LoaderExcludes'
  BY <1>8 DEF ResolveSymbol
<1>9. ASSUME NEW t \in Threads, FinishLoad(t) PROVE LoaderExcludes'
  BY <1>9 DEF FinishLoad
<1>10. ASSUME NEW t \in Threads, Find(t) PROVE LoaderExcludes'
  BY <1>10 DEF Find
<1>11. ASSUME NEW t \in Threads, FindNothing(t) PROVE LoaderExcludes'
  BY <1>11 DEF FindNothing
<1>12. ASSUME NEW t \in Threads, CheckPointer(t) PROVE LoaderExcludes'
  BY <1>12 DEF CheckPointer
<1>13. ASSUME NEW t \in Threads, PointerMissing(t) PROVE LoaderExcludes'
  BY <1>13 DEF PointerMissing
<1>14. ASSUME NEW t \in Threads, LoadModule(t) PROVE LoaderExcludes'
  BY <1>14 DEF LoadModule
<1>15. ASSUME NEW t \in Threads, ResolveName(t) PROVE LoaderExcludes'
  BY <1>15 DEF ResolveName
<1>16. ASSUME NEW t \in Threads, RegisterFails(t) PROVE LoaderExcludes'
  BY <1>16 DEF RegisterFails
<1>17. ASSUME NEW t \in Threads, LaunchKernel(t) PROVE LoaderExcludes'
  BY <1>17 DEF LaunchKernel
<1>18. ASSUME NEW t \in Threads, ForwardCall(t) PROVE LoaderExcludes'
  BY <1>18 DEF ForwardCall
<1>19. ASSUME NEW t \in Threads, Add(t) PROVE LoaderExcludes'
  BY <1>19 DEF Add
<1>20. ASSUME NEW t \in Threads, LogLaunch(t) PROVE LoaderExcludes'
  BY <1>20 DEF LogLaunch
<1> QED
  BY <1>1, <1>2, <1>3, <1>4, <1>5, <1>6, <1>7, <1>8, <1>9, <1>10, <1>11, <1>12, <1>13, <1>14, <1>15, <1>16, <1>17, <1>18, <1>19, <1>20 DEF Next, EnsureLoaded, Handler

LEMMA PrefixStep == IInv /\ [Next]_vars => ResolvedPrefix'
<1> SUFFICES ASSUME IInv, [Next]_vars, NEW u \in Threads, pc'[u] = "resolve"
             PROVE  /\ hip_handle' # NULL
                    /\ \A i \in 1 .. resolving' : p'[SymOrder[i]] = Dlsym(hip_handle', SymOrder[i])
  BY DEF ResolvedPrefix, Dlsym
<1>a. pc \in [Threads -> PCs] /\ resolving \in 0 .. 5
  BY SymOrderFacts DEF IInv, TypeOK
<1>b. \A t \in Threads : pc[u] = "resolve" /\ pc[t] \in InMutex => t = u
  BY DEF IInv, LoaderExcludes, InMutex
<1>1. CASE pc[u] = "resolve" /\ UNCHANGED <<hip_handle, p, resolving>>
  BY <1>1 DEF IInv, ResolvedPrefix
<1>2. ASSUME NEW t \in Threads, OpenLibrary(t)
      PROVE  hip_handle' # NULL /\ resolving' = 0
  BY <1>2 DEF OpenLibrary, IInv, TypeOK, Libs, NULL
<1>3. ASSUME NEW t \in Threads, ResolveSymbol(t)
      PROVE  /\ hip_handle' # NULL
             /\ \A i \in 1 .. resolving' : p'[SymOrder[i]] = Dlsym(hip_handle', SymOrder[i])
  <2>1. /\ hip_handle # NULL /\ hip_handle' = hip_handle
        /\ \A i \in 1 .. resolving : p[SymOrder[i]] = Dlsym(hip_handle, SymOrder[i])
    BY <1>3 DEF ResolveSymbol, IInv, ResolvedPrefix
  <2>2. resolving' = resolving + 1 /\ resolving + 1 \in 1 .. 5
    BY <1>a, <1>3, SymOrderFacts DEF ResolveSymbol
  <2>3. p' = [p EXCEPT ![SymOrder[resolving + 1]] = Dlsym(hip_handle, SymOrder[resolving + 1])]
    BY <1>3 DEF ResolveSymbol
  <2>4. ASSUME NEW i \in 1 .. resolving + 1
        PROVE  p'[SymOrder[i]] = Dlsym(hip_handle, SymOrder[i])
    <3>1. SymOrder[i] \in Syms /\ p \in [Syms -> Libs \cup {NULL}]
      BY <2>2, SymOrderFacts DEF IInv, TypeOK
    <3>2. CASE i = resolving + 1
      BY <2>3, <3>1, <3>2
    <3>3. CASE i \in 1 .. resolving
      BY <2>1, <2>3, <3>1, <3>3
    <3> QED
      BY <1>a, <3>2, <3>3
  <2> QED
    BY <2>1, <2>2, <2>4
<1>4. \/ pc[u] = "resolve" /\ UNCHANGED <<hip_handle, p, resolving>>
      \/ \E t \in Threads : OpenLibrary(t) \/ ResolveSymbol(t)
  <2>1. CASE pc[u] = "resolve"
    BY <2>1, LoaderFrame, ResolvingFrame
  <2>2. CASE pc[u] # "resolve"
    <3>1. Start(u) \/ EnsureLoaded(u) \/ Handler(u)
      BY <2>2, OwnStep DEF IInv
    <3>2. CASE EnsureLoaded(u)
      BY <1>a, <2>2, <3>2 DEF EnsureLoaded, AcquireInit, TestLoaded, OpenFails, FinishLoad, Goto, Finish
    <3>3. CASE Start(u)
      BY <1>a, <3>3 DEF Start, Goto
    <3>4. CASE Handler(u)
      BY <1>a, <3>4 DEF Handler, Find, FindNothing, CheckPointer, PointerMissing, LoadModule,
         ResolveName, RegisterFails, LaunchKernel, ForwardCall, Add, LogLaunch, Goto, Finish
    <3> QED
      BY <3>1, <3>2, <3>3, <3>4
  <2> QED
    BY <2>1, <2>2
<1> QED
  BY <1>1, <1>2, <1>3, <1>4

LEMMA CompleteStep == IInv /\ [Next]_vars => LoadedIsComplete'
<1> SUFFICES ASSUME IInv, [Next]_vars, hip_handle' # NULL, \A u \in Threads : pc'[u] # "resolve"
             PROVE  Complete'
  BY DEF LoadedIsComplete, Complete, Dlsym
<1>a. pc \in [Threads -> PCs]
  BY DEF IInv, TypeOK
<1>1. \A t \in Threads : ~OpenLibrary(t) /\ ~ResolveSymbol(t)
  BY <1>a DEF OpenLibrary, ResolveSymbol, Goto
<1>2. UNCHANGED <<hip_handle, p>>
  BY <1>1, LoaderFrame
<1>3. CASE \A t \in Threads : pc[t] # "resolve"
  BY <1>2, <1>3, CompleteKept DEF IInv, LoadedIsComplete
<1>4. ASSUME NEW t \in Threads, pc[t] = "resolve" PROVE Complete'
  <2>1. pc'[t] # pc[t]
    BY <1>4
  <2>2. FinishLoad(t)
    <3>1. EnsureLoaded(t)
      BY <1>4, <2>1, OwnStep DEF IInv, Start, Handler, Find, FindNothing, CheckPointer, PointerMissing,
         LoadModule, ResolveName, RegisterFails, LaunchKernel, ForwardCall, Add, LogLaunch
    <3> QED
      BY <1>1, <1>4, <3>1 DEF EnsureLoaded, AcquireInit, TestLoaded, OpenFails
  <2>3. Complete
    BY <1>4, <2>2, AllResolved DEF FinishLoad
  <2> QED
    BY <2>3, CompleteKept
<1> QED
  BY <1>3, <1>4

LEMMA EntriesStep == IInv /\ [Next]_vars => EntriesAfterLoad'
<1> SUFFICES ASSUME IInv, [Next]_vars PROVE EntriesAfterLoad'
  OBVIOUS
<1>a. TypeOK /\ EntriesAfterLoad /\ pc \in [Threads -> PCs] /\ call \in [Threads -> Calls]
  BY DEF IInv, TypeOK
<1> DEFINE Late == {"check", "call", "add", "name"}
<1>1. ASSUME NEW k \in Kinds, tables'[k] # <<>> PROVE Complete'
  <2>1. CASE tables[k] # <<>>
    BY <1>a, <2>1, CompleteKept DEF EntriesAfterLoad
  <2>2. CASE tables[k] = <<>>
    <3>1. PICK t \in Threads : Add(t)
      BY <1>1, <2>2, TablesFrame
    <3> QED
      BY <1>a, <3>1, CompleteKept DEF EntriesAfterLoad, Add
  <2> QED
    BY <2>1, <2>2
<1>2. ASSUME NEW u \in Threads, pc'[u] \in Late PROVE Complete'
  <2>1. CASE pc[u] \in Late
    BY <1>a, <2>1, CompleteKept DEF EntriesAfterLoad
  <2>2. CASE pc[u] \notin Late
    <3>1. Start(u) \/ EnsureLoaded(u) \/ Handler(u)
      BY <1>a, <1>2, <2>2, OwnStep
    <3>2. TestLoaded(u) \/ FinishLoad(u) \/ Find(u)
      BY <1>a, <1>2, <2>2, <3>1 DEF Start, EnsureLoaded, AcquireInit, OpenLibrary, OpenFails,
         ResolveSymbol, Handler, FindNothing, CheckPointer, PointerMissing, LoadModule,
         ResolveName, RegisterFails, LaunchKernel, ForwardCall, Add, LogLaunch, Goto, Finish
    <3>3. CASE TestLoaded(u)
      <4>1. hip_handle # NULL /\ pc[u] = "test"
        BY <1>a, <1>2, <3>3 DEF TestLoaded, Goto, Loaded
      <4>2. \A t \in Threads : pc[t] # "resolve"
        BY <4>1 DEF IInv, LoaderExcludes, InMutex
      <4> QED
        BY <4>1, <4>2, CompleteKept DEF IInv, LoadedIsComplete
    <3>4. CASE FinishLoad(u)
      BY <3>4, AllResolved, CompleteKept DEF FinishLoad
    <3>5. CASE Find(u)
      <4>1. FindKind(call[u]) \in Kinds
        BY <1>a, FindTypes
      <4>2. PICK i \in DOMAIN tables[FindKind(call[u])] : TRUE
        BY <3>5 DEF Find
      <4> QED
        BY <1>a, <4>1, <4>2, FoundValue, CompleteKept DEF EntriesAfterLoad
    <3> QED
      BY <3>2, <3>3, <3>4, <3>5
  <2> QED
    BY <2>1, <2>2
<1> QED
  BY <1>1, <1>2 DEF EntriesAfterLoad, Complete, Dlsym

(* What one thread's call has to look like, and that its own steps keep it. *)
Shape(t) ==
  /\ pc[t] = "find" => call[t].op \in Lookups
  /\ pc[t] = "name" => call[t].op = "launch"
  /\ pc[t] = "add" => call[t].op \in Kinds /\ val[t] \in Value
  /\ pc[t] \in {"lock"} \cup InMutex => call[t].op \in {"fatbin", "forward", "tosymbol"}
  /\ pc[t] \notin {"idle", "find"} /\ call[t].op \in Lookups => val[t] \in Value
  /\ pc[t] \in {"check", "call"} /\ call[t].op \in {"function", "var"} => val[t].name = NoValue
  /\ pc[t] = "add" /\ call[t].op = "fatbin" => val[t].name = NoValue

LEMMA FinishShape ==
  ASSUME TypeOK, NEW u \in Threads, Finish(u)
  PROVE  Shape(u)'
<1>1. pc'[u] = "idle"
  BY FinishTypes DEF TypeOK
<1> QED
  BY <1>1 DEF Shape, InMutex

LEMMA OwnShape ==
  ASSUME IInv, NEW u \in Threads, Shape(u), Start(u) \/ EnsureLoaded(u) \/ Handler(u)
  PROVE  Shape(u)'
<1>a. /\ TypeOK /\ pc \in [Threads -> PCs] /\ call \in [Threads -> Calls]
      /\ val \in [Threads -> Value \cup {NoValue}] /\ call[u] \in Calls
  BY DEF IInv, TypeOK
<1>b. call[u].op \in Kinds \cup {"launch", "tosymbol", "forward"}
  BY <1>a, CallFields
<1> USE DEF Shape, Goto, SetVal, Kinds, Lookups, InMutex
<1>1. CASE Start(u)
  <2>1. PICK c \in Calls : /\ call' = [call EXCEPT ![u] = c]
                           /\ Goto(u, IF c.op \in {"fatbin", "forward"} THEN "lock" ELSE "find")
    BY <1>1 DEF Start
  <2>2. c.op \in Kinds \cup {"launch", "tosymbol", "forward"}
    BY CallFields
  <2>3. call'[u] = c /\ pc'[u] = IF c.op \in {"fatbin", "forward"} THEN "lock" ELSE "find"
    BY <1>a, <2>1
  <2> QED
    BY <2>2, <2>3
<1>2. CASE AcquireInit(u)
  BY <1>a, <1>2 DEF AcquireInit
<1>3. CASE TestLoaded(u)
  BY <1>a, <1>3 DEF TestLoaded
<1>4. CASE OpenLibrary(u)
  BY <1>a, <1>4 DEF OpenLibrary
<1>5. CASE OpenFails(u)
  BY <1>a, <1>5, FinishShape DEF OpenFails
<1>6. CASE ResolveSymbol(u)
  BY <1>a, <1>6 DEF ResolveSymbol
<1>7. CASE FinishLoad(u)
  BY <1>a, <1>7 DEF FinishLoad
<1>8. CASE Find(u)
  <2>1. FindKind(call[u]) \in Kinds
    BY <1>a, FindTypes
  <2>2. PICK i \in DOMAIN tables[FindKind(call[u])] :
          val' = [val EXCEPT ![u] = tables[FindKind(call[u])][i].value]
    BY <1>8 DEF Find
  <2>3. val'[u] = tables[FindKind(call[u])][i].value /\ val'[u] \in Value
    BY <1>a, <2>1, <2>2, FoundValue
  <2>4. call[u].op \in {"function", "var"} => val'[u].name = NoValue
    BY <2>2, <2>3 DEF FindKind, IInv, ModuleValues
  <2>5. /\ call' = call /\ pc[u] = "find"
        /\ pc'[u] = IF call[u].op = "tosymbol" THEN "lock" ELSE "check"
    BY <1>a, <1>8 DEF Find
  <2> QED
    BY <2>3, <2>4, <2>5
<1>9. CASE FindNothing(u)
  BY <1>a, <1>9, FinishShape DEF FindNothing
<1>10. CASE CheckPointer(u)
  BY <1>a, <1>10 DEF CheckPointer
<1>11. CASE PointerMissing(u)
  BY <1>a, <1>11, FinishShape DEF PointerMissing
<1>12. CASE LoadModule(u)
  <2>1. modules + 1 \in Modules
    <3>1. modules \in 0 .. MaxModules /\ modules < MaxModules /\ MaxModules \in Nat
      BY <1>12, <1>a, NativeAssumption DEF LoadModule, TypeOK
    <3> QED
      BY <3>1 DEF Modules
  <2>2. Module(modules + 1) \in Value /\ Module(modules + 1).name = NoValue
    BY <2>1 DEF Module, Value
  <2>3. pc'[u] = "add" /\ call'[u].op = "fatbin" /\ val'[u] = Module(modules + 1)
    BY <1>a, <1>12 DEF LoadModule
  <2> QED
    BY <2>2, <2>3
<1>13. CASE ResolveName(u)
  <2>1. val[u] \in Value /\ call[u].name \in Names
    BY <1>13, <1>a, CallFields DEF ResolveName
  <2>2. Symbol(val[u], call[u].name) \in Value
    BY <2>1 DEF Symbol, Value
  <2>3. /\ pc'[u] = "add" /\ call'[u] = call[u] /\ call[u].op \in {"function", "var"}
        /\ val'[u] = Symbol(val[u], call[u].name)
    BY <1>a, <1>13 DEF ResolveName
  <2> QED
    BY <2>2, <2>3
<1>14. CASE RegisterFails(u)
  BY <1>a, <1>14, FinishShape DEF RegisterFails
<1>15. CASE LaunchKernel(u)
  BY <1>a, <1>15 DEF LaunchKernel
<1>16. CASE ForwardCall(u)
  BY <1>a, <1>16, FinishShape DEF ForwardCall
<1>17. CASE Add(u)
  BY <1>a, <1>17, FinishShape DEF Add
<1>18. CASE LogLaunch(u)
  BY <1>a, <1>18, FinishShape DEF LogLaunch
<1> QED
  BY <1>1, <1>2, <1>3, <1>4, <1>5, <1>6, <1>7, <1>8, <1>9, <1>10, <1>11, <1>12, <1>13, <1>14,
     <1>15, <1>16, <1>17, <1>18 DEF EnsureLoaded, Handler

LEMMA ShapeStep == IInv /\ [Next]_vars => \A u \in Threads : Shape(u)'
<1> SUFFICES ASSUME IInv, [Next]_vars, NEW u \in Threads PROVE Shape(u)'
  OBVIOUS
<1>1. Shape(u)
  BY DEF IInv, CallShape, ModuleValues, Shape
<1>2. CASE pc'[u] = pc[u] /\ call'[u] = call[u] /\ val'[u] = val[u]
  BY <1>1, <1>2 DEF Shape
<1>3. CASE pc'[u] # pc[u] \/ call'[u] # call[u] \/ val'[u] # val[u]
  BY <1>1, <1>3, OwnStep, OwnShape DEF IInv
<1> QED
  BY <1>2, <1>3

(* A fat binary's token gets a module with no name. *)
LEMMA FatbinStep ==
  ASSUME IInv, [Next]_vars, NEW i \in DOMAIN tables'["fatbin"]
  PROVE  tables'["fatbin"][i].value.name = NoValue
<1>a. "fatbin" \in Kinds /\ tables \in [Kinds -> Seq(Entry)] /\ ModuleValues
  BY DEF Kinds, IInv, TypeOK
<1>1. CASE tables' = tables
  BY <1>a, <1>1 DEF ModuleValues
<1>2. ASSUME NEW t \in Threads, Add(t) PROVE tables'["fatbin"][i].value.name = NoValue
  <2>1. CASE tables'["fatbin"] = tables["fatbin"]
    BY <1>a, <2>1 DEF ModuleValues
  <2>2. CASE tables'["fatbin"] # tables["fatbin"]
    <3>1. /\ call[t].op = "fatbin" /\ NewEntry(t) \in Entry
          /\ tables'["fatbin"] = Append(tables["fatbin"], NewEntry(t))
      BY <1>a, <1>2, <2>2, AddTypes
    <3>2. NewEntry(t).value.name = NoValue
      BY <1>a, <1>2, <3>1 DEF NewEntry, ModuleValues, Add
    <3>3. tables["fatbin"] \in Seq(Entry)
      BY <1>a
    <3>4. \/ i \in DOMAIN tables["fatbin"] /\ tables'["fatbin"][i] = tables["fatbin"][i]
          \/ tables'["fatbin"][i] = NewEntry(t)
      BY <3>1, <3>3
    <3> QED
      BY <1>a, <3>2, <3>4 DEF ModuleValues
  <2> QED
    BY <2>1, <2>2
<1> QED
  BY <1>1, <1>2, TablesFrame

LEMMA StepInv == IInv /\ [Next]_vars => IInv'
<1> SUFFICES ASSUME IInv, [Next]_vars PROVE IInv'
  OBVIOUS
<1>1. TypeOK' /\ LoaderExcludes' /\ ResolvedPrefix' /\ LoadedIsComplete' /\ EntriesAfterLoad'
  BY TypeStep, ExcludesStep, PrefixStep, CompleteStep, EntriesStep
<1>2. CallShape'
  BY ShapeStep DEF Shape, CallShape
<1>3. ModuleValues'
  BY ShapeStep, FatbinStep DEF Shape, ModuleValues
<1> QED
  BY <1>1, <1>2, <1>3 DEF IInv

-----------------------------------------------------------------------------
(* The tables, pointers and calls of native.c keep their types and bounds. *)
THEOREM TypeCorrect == Spec => []TypeOK
<1>1. IInv => TypeOK
  BY DEF IInv
<1> QED
  BY InitInv, StepInv, <1>1, PTL DEF Spec

(* Every pointer a handler looks at has been resolved, whether or not the
   handler called ensure_loaded itself. *)
THEOREM ReadyBeforeUse == Spec => []ResolvedBeforeUse
<1>1. IInv => ResolvedBeforeUse
  BY DEF IInv, EntriesAfterLoad, Complete, ResolvedBeforeUse
<1> QED
  BY InitInv, StepInv, <1>1, PTL DEF Spec

(* The library stays loaded and its pointers stay put: no thread opens one
   while another is open. *)
THEOREM LibraryLoadedOnce == Spec => LoadedOnce
<1>1. ASSUME IInv, [Next]_vars, hip_handle # NULL, \A t \in Threads : pc[t] # "resolve"
      PROVE  UNCHANGED <<hip_handle, p>>
  <2>1. \A t \in Threads : ~OpenLibrary(t) /\ ~ResolveSymbol(t)
    BY <1>1 DEF IInv, LoaderExcludes, OpenLibrary, ResolveSymbol
  <2> QED
    BY <1>1, <2>1, LoaderFrame
<1>2. IInv /\ [Next]_vars
        => [hip_handle # NULL /\ (\A t \in Threads : pc[t] # "resolve")
              => UNCHANGED <<hip_handle, p>>]_vars
  BY <1>1
<1> QED
  BY InitInv, StepInv, <1>2, PTL DEF Spec, LoadedOnce

-----------------------------------------------------------------------------
(* What one table binds, as a function of the table: the first entry of each
   key. *)
Bind(k, e) == [kind |-> k, key |-> e.key, value |-> e.value]
First(T, i) == \A j \in 1 .. Len(T) : T[j].key = T[i].key => i <= j
Bound(k, T) == {Bind(k, T[i]) : i \in {j \in 1 .. Len(T) : First(T, j)}}
HasKey(T, e) == \E i \in 1 .. Len(T) : T[i].key = e.key

LEMMA TableBindingsBound ==
  TypeOK => TableBindings = UNION {Bound(k, tables[k]) : k \in Kinds}
<1> SUFFICES ASSUME TypeOK PROVE TableBindings = UNION {Bound(k, tables[k]) : k \in Kinds}
  OBVIOUS
<1>1. ASSUME NEW k \in Kinds
      PROVE  {[kind |-> k, key |-> tables[k][i].key, value |-> tables[k][i].value] :
                i \in {j \in DOMAIN tables[k] : FirstMatch(k, tables[k][j].key, j)}}
               = Bound(k, tables[k])
  <2>1. tables[k] \in Seq(Entry)
    BY <1>1 DEF TypeOK
  <2>2. DOMAIN tables[k] = 1 .. Len(tables[k])
    BY <2>1
  <2>3. \A j \in 1 .. Len(tables[k]) :
          FirstMatch(k, tables[k][j].key, j) <=> First(tables[k], j)
    BY DEF FirstMatch, First, Matches
  <2> QED
    BY <2>2, <2>3 DEF Bound, Bind
<1> QED
  BY <1>1 DEF TableBindings

(* Adding an entry binds its key, or changes nothing when it is bound. *)
LEMMA AppendBound ==
  ASSUME NEW T \in Seq(Entry), NEW e \in Entry, NEW k
  PROVE  Bound(k, Append(T, e)) =
           IF HasKey(T, e) THEN Bound(k, T) ELSE Bound(k, T) \cup {Bind(k, e)}
<1> DEFINE A == Append(T, e)
           n == Len(T)
<1>1. n \in Nat /\ Len(A) = n + 1 /\ A[n + 1] = e /\ \A i \in 1 .. n : A[i] = T[i]
  OBVIOUS
<1>2. 1 .. n + 1 = (1 .. n) \cup {n + 1}
  BY <1>1
<1> HIDE DEF A, n
<1>3. \A i \in 1 .. n : First(A, i) <=> First(T, i)
  <2> SUFFICES ASSUME NEW i \in 1 .. n PROVE First(A, i) <=> First(T, i)
    OBVIOUS
  <2>1. A[i] = T[i] /\ i <= n + 1
    BY <1>1
  <2>2. First(A, i) <=> \A j \in 1 .. n : T[j].key = T[i].key => i <= j
    BY <1>1, <1>2, <2>1 DEF First
  <2> QED
    BY <2>2 DEF First, n
<1>4. First(A, n + 1) <=> ~HasKey(T, e)
  <2>1. First(A, n + 1) <=> \A j \in 1 .. n : T[j].key = e.key => n + 1 <= j
    BY <1>1, <1>2 DEF First
  <2>2. \A j \in 1 .. n : ~(n + 1 <= j)
    BY <1>1
  <2> QED
    BY <2>1, <2>2 DEF HasKey, n
<1>5. Bound(k, A) = {Bind(k, A[i]) : i \in {j \in (1 .. n) \cup {n + 1} : First(A, j)}}
  BY <1>1, <1>2 DEF Bound
<1>6. {Bind(k, A[i]) : i \in {j \in 1 .. n : First(A, j)}} = Bound(k, T)
  <2>1. {j \in 1 .. n : First(A, j)} = {j \in 1 .. n : First(T, j)}
    BY <1>3
  <2> QED
    BY <1>1, <2>1 DEF Bound, n
<1>7. CASE HasKey(T, e)
  <2>1. {j \in (1 .. n) \cup {n + 1} : First(A, j)} = {j \in 1 .. n : First(A, j)}
    BY <1>4, <1>7
  <2> QED
    BY <1>5, <1>6, <1>7, <2>1 DEF A
<1>8. CASE ~HasKey(T, e)
  <2>1. {j \in (1 .. n) \cup {n + 1} : First(A, j)} = {j \in 1 .. n : First(A, j)} \cup {n + 1}
    BY <1>4, <1>8
  <2>2. Bound(k, A) = {Bind(k, A[i]) : i \in {j \in 1 .. n : First(A, j)}} \cup {Bind(k, A[n + 1])}
    BY <1>5, <2>1
  <2> QED
    BY <1>1, <1>6, <1>8, <2>2 DEF A
<1> QED
  BY <1>7, <1>8

(* What a registration binds in all. *)
LEMMA AddBinds ==
  ASSUME IInv, NEW t \in Threads, Add(t)
  PROVE  \/ TableBindings' = TableBindings
         \/ /\ TableBindings' = TableBindings \cup {Bind(call[t].op, NewEntry(t))}
            /\ Bind(call[t].op, NewEntry(t)) \in Table!Binding
            /\ \A c \in TableBindings :
                 ~(c.kind = call[t].op /\ c.key = NewEntry(t).key)
<1> DEFINE op == call[t].op
           e == NewEntry(t)
<1>b. [Next]_vars
  BY DEF Next, Handler
<1>1. /\ op \in Kinds /\ e \in Entry
      /\ tables' = tables \/ tables' = [tables EXCEPT ![op] = Append(@, e)]
      /\ tables \in [Kinds -> Seq(Entry)] /\ tables' \in [Kinds -> Seq(Entry)]
  BY AddTypes DEF IInv, TypeOK
<1>2. TableBindings = UNION {Bound(k, tables[k]) : k \in Kinds}
  BY TableBindingsBound DEF IInv
<1>3. TableBindings' = UNION {Bound(k, tables'[k]) : k \in Kinds}
  <2>1. TypeOK'
    BY TypeStep, <1>b
  <2>2. (TypeOK => TableBindings = UNION {Bound(k, tables[k]) : k \in Kinds})'
    BY TableBindingsBound, PTL
  <2> QED
    BY <2>1, <2>2
<1>u. /\ \A b : b \in TableBindings <=> \E k \in Kinds : b \in Bound(k, tables[k])
      /\ \A b : b \in TableBindings' <=> \E k \in Kinds : b \in Bound(k, tables'[k])
  BY <1>2, <1>3
<1> HIDE DEF op, e
<1>4. CASE tables' = tables
  BY <1>2, <1>3, <1>4
<1>5. CASE tables' = [tables EXCEPT ![op] = Append(@, e)]
  <2>1. \A k \in Kinds \ {op} : tables'[k] = tables[k]
    BY <1>1, <1>5
  <2>2. tables'[op] = Append(tables[op], e) /\ tables[op] \in Seq(Entry)
    BY <1>1, <1>5
  <2>3. Bound(op, tables'[op]) = IF HasKey(tables[op], e) THEN Bound(op, tables[op])
                                 ELSE Bound(op, tables[op]) \cup {Bind(op, e)}
    BY <1>1, <2>2, AppendBound
  <2>4. CASE HasKey(tables[op], e)
    <3>1. \A k \in Kinds : Bound(k, tables'[k]) = Bound(k, tables[k])
      BY <2>1, <2>3, <2>4
    <3> QED
      BY <1>2, <1>3, <3>1
  <2>5. CASE ~HasKey(tables[op], e)
    <3>1. TableBindings' = TableBindings \cup {Bind(op, e)}
      <4>1. \A k \in Kinds \ {op} : Bound(k, tables'[k]) = Bound(k, tables[k])
        BY <2>1
      <4>2. Bound(op, tables'[op]) = Bound(op, tables[op]) \cup {Bind(op, e)}
        BY <2>3, <2>5
      <4>3. \A b : b \in TableBindings' <=> b \in TableBindings \/ b = Bind(op, e)
        BY <1>1, <1>u, <4>1, <4>2
      <4>4. TableBindings' = UNION {Bound(k, tables'[k]) : k \in Kinds}
        BY <1>3
      <4> QED
        BY <4>3, <4>4
    <3>2. Bind(op, e) \in Table!Binding
      BY <1>1 DEF Bind, Table!Binding, Entry
    <3>3. ASSUME NEW c \in TableBindings PROVE ~(c.kind = op /\ c.key = e.key)
      <4>1. PICK k \in Kinds : c \in Bound(k, tables[k])
        BY <1>2
      <4>2. PICK i \in 1 .. Len(tables[k]) : c = Bind(k, tables[k][i])
        BY <4>1 DEF Bound
      <4>3. c.kind = k /\ c.key = tables[k][i].key
        BY <4>2 DEF Bind
      <4> QED
        BY <2>5, <4>3 DEF HasKey
    <3> QED
      BY <3>1, <3>2, <3>3 DEF op, e
  <2> QED
    BY <2>4, <2>5
<1> QED
  BY <1>1, <1>4, <1>5

LEMMA BindingsKept ==
  ASSUME IInv, [Next]_vars, tables' = tables
  PROVE  TableBindings' = TableBindings
BY DEF TableBindings, FirstMatch, Matches

(* A step that leaves a thread's working binding alone, or drops it. *)
LEMMA WorkingOfIdle ==
  ASSUME TypeOK, NEW t \in Threads, Finish(t)
  PROVE  WorkingBinding(t)' = NoValue
<1>1. pc'[t] = "idle"
  BY FinishTypes DEF TypeOK
<1> QED
  BY <1>1 DEF WorkingBinding

InUse == [t \in Threads |-> WorkingBinding(t)]

(* Only the thread that moves changes what it works with. *)
LEMMA InUseStep ==
  ASSUME IInv, NEW t \in Threads, Start(t) \/ EnsureLoaded(t) \/ Handler(t)
  PROVE  /\ InUse' = [InUse EXCEPT ![t] = WorkingBinding(t)']
         /\ InUse[t] = WorkingBinding(t)
         /\ WorkingBinding(t)' = WorkingBinding(t) => InUse' = InUse
<1>1. ASSUME NEW u \in Threads, u # t PROVE WorkingBinding(u)' = WorkingBinding(u)
  <2>1. pc'[u] = pc[u] /\ call'[u] = call[u] /\ val'[u] = val[u]
    BY <1>1, OthersKept DEF IInv
  <2> QED
    BY <2>1 DEF WorkingBinding, FindKind, FindKey
<1> QED
  BY <1>1 DEF InUse

(* The steps of ensure_loaded and of the calls into the library keep it. *)
LEMMA WorkingKept ==
  ASSUME IInv, NEW t \in Threads,
         \/ Start(t) \/ AcquireInit(t) \/ TestLoaded(t) \/ OpenLibrary(t) \/ ResolveSymbol(t)
         \/ FinishLoad(t) \/ CheckPointer(t) \/ LoadModule(t) \/ ResolveName(t) \/ LaunchKernel(t)
  PROVE  WorkingBinding(t)' = WorkingBinding(t)
<1>a. /\ pc \in [Threads -> PCs] /\ call \in [Threads -> Calls]
      /\ val \in [Threads -> Value \cup {NoValue}] /\ TypeOK
  BY DEF IInv, TypeOK
<1>1. CASE Start(t)
  <2>1. PICK c \in Calls : /\ call' = [call EXCEPT ![t] = c]
                           /\ pc' = [pc EXCEPT ![t] = IF c.op \in {"fatbin", "forward"} THEN "lock" ELSE "find"]
    BY <1>1 DEF Start, Goto
  <2>2. pc[t] = "idle" /\ call'[t] = c /\ (c.op \in {"fatbin", "forward"} \/ pc'[t] = "find")
    BY <1>a, <1>1, <2>1 DEF Start
  <2> QED
    BY <2>2 DEF WorkingBinding
<1>2. ASSUME call'[t] = call[t], val'[t] = val[t], pc[t] \notin {"idle", "find", "add"},
             pc'[t] \notin {"idle", "find", "add"}
      PROVE  WorkingBinding(t)' = WorkingBinding(t)
  BY <1>2 DEF WorkingBinding, FindKind, FindKey
<1>3. CASE AcquireInit(t) \/ TestLoaded(t) \/ OpenLibrary(t) \/ ResolveSymbol(t) \/ FinishLoad(t)
           \/ CheckPointer(t) \/ LaunchKernel(t)
  <2>1. call'[t] = call[t] /\ val'[t] = val[t]
    BY <1>3 DEF AcquireInit, TestLoaded, OpenLibrary, ResolveSymbol, FinishLoad, CheckPointer, LaunchKernel
  <2>2. pc[t] \notin {"idle", "find", "add"} /\ pc'[t] \notin {"idle", "find", "add"}
    BY <1>a, <1>3 DEF AcquireInit, TestLoaded, OpenLibrary, ResolveSymbol, FinishLoad, CheckPointer,
       LaunchKernel, Goto
  <2> QED
    BY <1>2, <2>1, <2>2
<1>4. CASE LoadModule(t)
  <2>1. call[t].op = "fatbin" /\ call' = call
    BY <1>4 DEF LoadModule
  <2> QED
    BY <2>1 DEF WorkingBinding
<1>5. CASE ResolveName(t)
  <2>1. /\ pc[t] = "call" /\ call[t].op \in {"function", "var"} /\ call' = call
        /\ pc'[t] = "add" /\ val'[t] = Symbol(val[t], call[t].name)
    BY <1>a, <1>5 DEF ResolveName, Goto, SetVal
  <2>2. val[t] \in Value /\ val[t].name = NoValue
    BY <2>1 DEF IInv, CallShape, ModuleValues, Lookups
  <2>3. Module(val'[t].module) = val[t]
    BY <2>1, <2>2 DEF Module, Symbol, Value
  <2>4. /\ WorkingBinding(t) = [kind |-> FindKind(call[t]), key |-> FindKey(call[t]), value |-> val[t]]
        /\ WorkingBinding(t)' = [kind |-> FindKind(call[t]), key |-> FindKey(call[t]),
                                 value |-> Module(val'[t].module)]
    BY <2>1 DEF WorkingBinding, FindKind, FindKey
  <2> QED
    BY <2>3, <2>4
<1> QED
  BY <1>1, <1>3, <1>4, <1>5

LEMMA FindResolves ==
  ASSUME IInv, NEW t \in Threads, Find(t)
  PROVE  WorkingBinding(t) = NoValue /\ WorkingBinding(t)' \in TableBindings
<1>a. /\ pc \in [Threads -> PCs] /\ call[t] \in Calls /\ val \in [Threads -> Value \cup {NoValue}]
      /\ TypeOK
  BY DEF IInv, TypeOK
<1> DEFINE k == FindKind(call[t])
           key == FindKey(call[t])
<1>1. k \in Kinds
  BY <1>a, FindTypes
<1>2. PICK i \in DOMAIN tables[k] : FirstMatch(k, key, i) /\ val' = [val EXCEPT ![t] = tables[k][i].value]
  BY DEF Find, SetVal
<1>3. /\ pc[t] = "find" /\ call' = call /\ pc'[t] \in {"lock", "check"}
      /\ call[t].op \notin {"fatbin", "forward"}
  BY <1>a DEF Find, Goto, IInv, CallShape, Lookups
<1>4. tables[k][i].key = key
  BY <1>2 DEF FirstMatch, Matches
<1>5. val'[t] = tables[k][i].value
  BY <1>a, <1>2
<1>6. WorkingBinding(t) = NoValue
  BY <1>3 DEF WorkingBinding
<1>7. WorkingBinding(t)' = [kind |-> k, key |-> tables[k][i].key, value |-> tables[k][i].value]
  BY <1>3, <1>4, <1>5 DEF WorkingBinding, FindKind, FindKey
<1> HIDE DEF k, key
<1>8. [kind |-> k, key |-> tables[k][i].key, value |-> tables[k][i].value] \in TableBindings
  BY <1>1, <1>2, <1>4 DEF TableBindings
<1> QED
  BY <1>6, <1>7, <1>8

tableVars == <<TableBindings, InUse>>
LEMMA RefinedStep == IInv /\ [Next]_vars => [Table!Next]_tableVars
<1> SUFFICES ASSUME IInv, [Next]_vars PROVE [Table!Next]_tableVars
  OBVIOUS
<1>1. CASE tables' = tables /\ InUse' = InUse
  BY <1>1, BindingsKept DEF tableVars
<1>2. CASE UNCHANGED vars \/ LibraryAppears
  <2>1. tables' = tables /\ pc' = pc /\ call' = call /\ val' = val
    BY <1>2 DEF vars, LibraryAppears
  <2>2. InUse' = InUse
    BY <2>1 DEF InUse, WorkingBinding, FindKind, FindKey
  <2> QED
    BY <1>1, <2>1, <2>2
<1>3. ASSUME NEW t \in Threads,
             \/ Start(t) \/ AcquireInit(t) \/ TestLoaded(t) \/ OpenLibrary(t) \/ ResolveSymbol(t)
             \/ FinishLoad(t) \/ CheckPointer(t) \/ LoadModule(t) \/ ResolveName(t) \/ LaunchKernel(t)
      PROVE  [Table!Next]_tableVars
  <2>1. tables' = tables
    BY <1>3 DEF Start, AcquireInit, TestLoaded, OpenLibrary, ResolveSymbol, FinishLoad, CheckPointer,
       LoadModule, ResolveName, LaunchKernel
  <2>2. Start(t) \/ EnsureLoaded(t) \/ Handler(t)
    BY <1>3 DEF EnsureLoaded, Handler
  <2> QED
    BY <1>1, <1>3, <2>1, <2>2, WorkingKept, InUseStep
<1>4. ASSUME NEW t \in Threads, Find(t) PROVE [Table!Next]_tableVars
  <2>1. TableBindings' = TableBindings
    BY <1>4, BindingsKept DEF Find
  <2>2. InUse[t] = NoValue /\ \E b \in TableBindings : InUse' = [InUse EXCEPT ![t] = b]
    BY <1>4, FindResolves, InUseStep DEF Handler
  <2> QED
    BY <2>1, <2>2 DEF Table!Next, Table!Resolve, InUse
<1>5. ASSUME NEW t \in Threads,
             \/ FindNothing(t) \/ OpenFails(t) \/ PointerMissing(t) \/ RegisterFails(t)
             \/ ForwardCall(t) \/ LogLaunch(t)
      PROVE  [Table!Next]_tableVars
  <2>1. tables' = tables /\ Finish(t)
    BY <1>5 DEF FindNothing, OpenFails, PointerMissing, RegisterFails, ForwardCall, LogLaunch
  <2>2. InUse' = [InUse EXCEPT ![t] = NoValue]
    BY <1>5, <2>1, WorkingOfIdle, InUseStep DEF IInv, EnsureLoaded, Handler
  <2>3. CASE InUse[t] = NoValue
    <3>1. InUse' = InUse
      BY <2>2, <2>3 DEF InUse
    <3> QED
      BY <1>1, <2>1, <3>1
  <2>4. CASE InUse[t] # NoValue
    BY <2>1, <2>2, <2>4, BindingsKept DEF Table!Next, Table!Release, InUse
  <2> QED
    BY <2>3, <2>4
<1>6. ASSUME NEW t \in Threads, Add(t) PROVE [Table!Next]_tableVars
  <2>1. Finish(t)
    BY <1>6 DEF Add
  <2>2. InUse' = [InUse EXCEPT ![t] = NoValue]
    BY <1>6, <2>1, WorkingOfIdle, InUseStep DEF IInv, Handler
  <2>3. InUse[t] = NoValue => InUse' = InUse
    BY <2>2 DEF InUse
  <2>4. CASE TableBindings' = TableBindings
    BY <2>2, <2>3, <2>4 DEF Table!Next, Table!Release, InUse, tableVars
  <2>5. CASE TableBindings' # TableBindings
    <3> DEFINE b == Bind(call[t].op, NewEntry(t))
    <3>1. /\ TableBindings' = TableBindings \cup {b} /\ b \in Table!Binding
          /\ \A c \in TableBindings : ~(c.kind = b.kind /\ c.key = b.key)
      BY <1>6, <2>5, AddBinds DEF Bind
    <3>2. b \in TableBindings' \ TableBindings
      BY <3>1
    <3> HIDE DEF b
    <3>3. Table!BindNew
      BY <3>1, <3>2 DEF Table!BindNew
    <3> QED
      BY <2>2, <2>3, <3>3 DEF Table!Next, Table!Bind, Table!BindAndRelease, InUse
  <2> QED
    BY <2>4, <2>5
<1> QED
  BY <1>2, <1>3, <1>4, <1>5, <1>6 DEF Next, EnsureLoaded, Handler

LEMMA RefinedInit == Init => Table!Init
<1> SUFFICES ASSUME Init PROVE Table!Init
  OBVIOUS
<1>1. TableBindings = {}
  <2>1. \A k \in Kinds : DOMAIN tables[k] = {}
    BY DEF Init
  <2> QED
    BY <2>1 DEF TableBindings
<1>2. \A t \in Threads : WorkingBinding(t) = NoValue
  BY DEF Init, WorkingBinding
<1> QED
  BY <1>1, <1>2 DEF Table!Init

(* The tables of registry.c, as native.c uses them, implement the write-once
   map: a key is bound at most once and for good. *)
THEOREM RegistryIsWriteOnce == Spec => ImplementsSymbolTable
<1>1. IInv /\ [Next]_vars => [Table!Next]_<<TableBindings, InUse>>
  BY RefinedStep DEF tableVars
<1> QED
  BY InitInv, StepInv, RefinedInit, <1>1, PTL DEF Spec, ImplementsSymbolTable, Table!Spec, InUse

-----------------------------------------------------------------------------
(* What a launch works with is the first function of its host address, and an
   entry for a function carries the name it was resolved from. *)
LaunchesWith(t) ==
  \E i \in DOMAIN tables["function"] :
    FirstMatch("function", call[t].host, i) /\ tables["function"][i].value = val[t]

NamedAs(t) ==
  /\ pc[t] = "add" /\ call[t].op = "function" => val[t].name = call[t].name
  /\ pc[t] \in {"check", "call", "name"} /\ call[t].op = "launch" => LaunchesWith(t)

NamesInv ==
  /\ \A i \in DOMAIN tables["function"] :
       tables["function"][i].name = tables["function"][i].value.name
  /\ \A t \in Threads : NamedAs(t)

(* A table only grows at its end. *)
LEMMA TableGrows ==
  ASSUME IInv, [Next]_vars, NEW k \in Kinds
  PROVE  \/ tables'[k] = tables[k]
         \/ \E t \in Threads :
              Add(t) /\ call[t].op = k /\ tables'[k] = Append(tables[k], NewEntry(t))
<1>1. CASE tables' = tables
  BY <1>1
<1>2. ASSUME NEW t \in Threads, Add(t)
      PROVE  tables'[k] = tables[k] \/ (call[t].op = k /\ tables'[k] = Append(tables[k], NewEntry(t)))
  <2>1. \/ tables' = tables
        \/ tables' = [tables EXCEPT ![call[t].op] = Append(@, NewEntry(t))]
    BY <1>2, AddTypes
  <2>2. DOMAIN tables = Kinds
    BY DEF IInv, TypeOK
  <2> QED
    BY <2>1, <2>2
<1> QED
  BY <1>1, <1>2, TablesFrame

(* So the entry a key is found at stays the one it is found at. *)
LEMMA FirstMatchKept ==
  ASSUME IInv, [Next]_vars, NEW key, NEW i \in DOMAIN tables["function"],
         FirstMatch("function", key, i)
  PROVE  /\ i \in DOMAIN tables'["function"] /\ tables'["function"][i] = tables["function"][i]
         /\ FirstMatch("function", key, i)'
<1> DEFINE T == tables["function"]
           A == tables'["function"]
<1>1. "function" \in Kinds /\ T \in Seq(Entry)
  BY DEF Kinds, IInv, TypeOK
<1>2. /\ i \in 1 .. Len(T) /\ T[i].key = key
      /\ \A j \in 1 .. Len(T) : T[j].key = key => i <= j
  BY DEF FirstMatch, Matches
<1>3. /\ i \in 1 .. Len(A) /\ A[i] = T[i] /\ DOMAIN A = 1 .. Len(A)
      /\ \A j \in 1 .. Len(A) : A[j].key = key => i <= j
  <2>1. CASE A = T
    BY <1>1, <1>2, <2>1
  <2>2. ASSUME NEW t \in Threads, A = Append(T, NewEntry(t)), NewEntry(t) \in Entry
        PROVE  /\ i \in 1 .. Len(A) /\ A[i] = T[i] /\ DOMAIN A = 1 .. Len(A)
               /\ \A j \in 1 .. Len(A) : A[j].key = key => i <= j
    <3>1. /\ Len(T) \in Nat /\ Len(A) = Len(T) + 1 /\ DOMAIN A = 1 .. Len(A)
          /\ \A j \in 1 .. Len(T) : A[j] = T[j]
      BY <1>1, <2>2
    <3> HIDE DEF T, A
    <3> QED
      BY <1>2, <3>1
  <2> QED
    BY <1>1, <2>1, <2>2, TableGrows, AddTypes
<1> QED
  BY <1>3, <1>2 DEF FirstMatch, Matches

LEMMA FunctionNames ==
  ASSUME IInv, NamesInv, [Next]_vars, NEW i \in DOMAIN tables'["function"]
  PROVE  tables'["function"][i].name = tables'["function"][i].value.name
<1>1. "function" \in Kinds /\ tables["function"] \in Seq(Entry)
  BY DEF Kinds, IInv, TypeOK
<1>2. CASE tables'["function"] = tables["function"]
  BY <1>2 DEF NamesInv
<1>3. ASSUME NEW t \in Threads, Add(t), call[t].op = "function",
             tables'["function"] = Append(tables["function"], NewEntry(t))
      PROVE  tables'["function"][i].name = tables'["function"][i].value.name
  <2>1. NewEntry(t) \in Entry
    BY <1>3, AddTypes
  <2>2. NewEntry(t).name = NewEntry(t).value.name
    BY <1>3 DEF NewEntry, NamesInv, NamedAs, Add
  <2>3. \/ i \in DOMAIN tables["function"] /\ tables'["function"][i] = tables["function"][i]
        \/ tables'["function"][i] = NewEntry(t)
    BY <1>1, <1>3, <2>1
  <2> QED
    BY <2>2, <2>3 DEF NamesInv
<1> QED
  BY <1>1, <1>2, <1>3, TableGrows

LEMMA LaunchesWithKept ==
  ASSUME IInv, [Next]_vars, NEW t \in Threads, LaunchesWith(t),
         call'[t] = call[t], val'[t] = val[t]
  PROVE  LaunchesWith(t)'
<1>1. PICK i \in DOMAIN tables["function"] :
        FirstMatch("function", call[t].host, i) /\ tables["function"][i].value = val[t]
  BY DEF LaunchesWith
<1>2. PICK key : key = call[t].host
  OBVIOUS
<1>3. /\ i \in DOMAIN tables'["function"] /\ tables'["function"][i] = tables["function"][i]
      /\ FirstMatch("function", key, i)'
  BY <1>1, <1>2, FirstMatchKept
<1>4. FirstMatch("function", call[t].host, i)'
  BY <1>2, <1>3 DEF FirstMatch, Matches
<1> QED
  BY <1>1, <1>3, <1>4 DEF LaunchesWith

(* A launch takes up the first entry of its host address and keeps it until it
   has logged the name. *)
LEMMA OwnName ==
  ASSUME IInv, [Next]_vars, NEW u \in Threads, NamedAs(u),
         Start(u) \/ EnsureLoaded(u) \/ Handler(u)
  PROVE  NamedAs(u)'
<1>a. /\ TypeOK /\ CallShape /\ pc \in [Threads -> PCs] /\ call \in [Threads -> Calls]
      /\ val \in [Threads -> Value \cup {NoValue}] /\ call[u] \in Calls
  BY DEF IInv, TypeOK
<1>b. ASSUME pc'[u] \in {"check", "call", "name"}, pc[u] \in {"check", "call", "name"},
             call'[u] = call[u], val'[u] = val[u]
      PROVE  NamedAs(u)'
  BY <1>b, LaunchesWithKept DEF NamedAs
<1>c. ASSUME pc'[u] \notin {"check", "call", "name", "add"} PROVE NamedAs(u)'
  BY <1>c DEF NamedAs
<1>d. ASSUME call'[u].op \notin {"function", "launch"} PROVE NamedAs(u)'
  BY <1>d DEF NamedAs
<1> USE DEF Goto, SetVal
<1>1. CASE Start(u)
  <2>1. pc'[u] \in {"lock", "find"}
    BY <1>a, <1>1 DEF Start
  <2> QED
    BY <1>c, <2>1
<1>2. CASE EnsureLoaded(u)
  <2>1. \/ pc'[u] \notin {"check", "call", "name", "add"}
        \/ call'[u] = call[u] /\ pc[u] \in {"lock"} \cup InMutex
    BY <1>a, <1>2 DEF EnsureLoaded, AcquireInit, TestLoaded, OpenLibrary, OpenFails, ResolveSymbol,
       FinishLoad, Finish, InMutex
  <2> QED
    BY <1>a, <1>c, <1>d, <2>1 DEF CallShape
<1>3. CASE \/ FindNothing(u) \/ PointerMissing(u) \/ RegisterFails(u) \/ ForwardCall(u)
           \/ Add(u) \/ LogLaunch(u)
  <2>1. pc'[u] = "idle"
    BY <1>a, <1>3 DEF FindNothing, PointerMissing, RegisterFails, ForwardCall, Add, LogLaunch, Finish
  <2> QED
    BY <1>c, <2>1
<1>4. CASE Find(u)
  <2>1. /\ call' = call /\ tables' = tables
        /\ pc'[u] = IF call[u].op = "tosymbol" THEN "lock" ELSE "check"
    BY <1>a, <1>4 DEF Find
  <2>2. CASE call[u].op = "launch"
    <3>1. FindKind(call[u]) = "function" /\ FindKey(call[u]) = call[u].host
      BY <2>2 DEF FindKind, FindKey
    <3>2. PICK i \in DOMAIN tables["function"] :
            /\ FirstMatch("function", call[u].host, i)
            /\ val' = [val EXCEPT ![u] = tables["function"][i].value]
      BY <1>4, <3>1 DEF Find
    <3>3. val'[u] = tables["function"][i].value
      BY <1>a, <3>2
    <3>4. FirstMatch("function", call[u].host, i)'
      BY <2>1, <3>2 DEF FirstMatch, Matches
    <3>5. LaunchesWith(u)'
      BY <2>1, <3>3, <3>4 DEF LaunchesWith
    <3> QED
      BY <2>1, <2>2, <3>5 DEF NamedAs
  <2>3. CASE call[u].op # "launch"
    BY <2>1, <2>3 DEF NamedAs
  <2> QED
    BY <2>2, <2>3
<1>5. CASE CheckPointer(u) \/ LaunchKernel(u)
  <2>1. /\ pc'[u] \in {"check", "call", "name"} /\ pc[u] \in {"check", "call", "name"}
        /\ call'[u] = call[u] /\ val'[u] = val[u]
    BY <1>a, <1>5 DEF CheckPointer, LaunchKernel
  <2> QED
    BY <1>b, <2>1
<1>6. CASE LoadModule(u)
  BY <1>d, <1>6 DEF LoadModule
<1>7. CASE ResolveName(u)
  <2>1. /\ pc'[u] = "add" /\ call'[u] = call[u] /\ val'[u] = Symbol(val[u], call[u].name)
    BY <1>a, <1>7 DEF ResolveName
  <2>2. val'[u].name = call'[u].name
    BY <2>1 DEF Symbol
  <2> QED
    BY <2>1, <2>2 DEF NamedAs
<1> QED
  BY <1>1, <1>2, <1>3, <1>4, <1>5, <1>6, <1>7 DEF Handler

LEMMA NamesStep == IInv /\ NamesInv /\ [Next]_vars => NamesInv'
<1> SUFFICES ASSUME IInv, NamesInv, [Next]_vars PROVE NamesInv'
  OBVIOUS
<1>1. ASSUME NEW u \in Threads PROVE NamedAs(u)'
  <2>1. NamedAs(u)
    BY DEF NamesInv
  <2>2. CASE pc'[u] = pc[u] /\ call'[u] = call[u] /\ val'[u] = val[u]
    BY <2>1, <2>2, LaunchesWithKept DEF NamedAs
  <2>3. CASE pc'[u] # pc[u] \/ call'[u] # call[u] \/ val'[u] # val[u]
    BY <2>1, <2>3, OwnStep, OwnName DEF IInv
  <2> QED
    BY <2>2, <2>3
<1> QED
  BY <1>1, FunctionNames DEF NamesInv

LEMMA NamesInit == Init => NamesInv
<1> SUFFICES ASSUME Init PROVE NamesInv
  OBVIOUS
<1>1. DOMAIN tables["function"] = {}
  BY DEF Init, Kinds
<1> QED
  BY <1>1 DEF Init, NamesInv, NamedAs

(* The name a launch logs is that of the kernel it launched, however many
   registrations come between its two lookups: the entry it found stays the
   first of its key. *)
THEOREM LogNamesLaunched == Spec => []NameMatchesLaunch
<1>1. ASSUME IInv, NamesInv PROVE NameMatchesLaunch
  <2> SUFFICES ASSUME NEW t \in Threads, pc[t] = "name"
               PROVE  \E i \in DOMAIN tables["function"] :
                        /\ FirstMatch("function", call[t].host, i)
                        /\ tables["function"][i].name = val[t].name
    BY DEF NameMatchesLaunch
  <2>1. call[t].op = "launch"
    BY <1>1 DEF IInv, CallShape
  <2>2. LaunchesWith(t)
    BY <1>1, <2>1 DEF NamesInv, NamedAs
  <2> QED
    BY <1>1, <2>2 DEF LaunchesWith, NamesInv
<1> QED
  BY InitInv, StepInv, NamesInit, NamesStep, <1>1, PTL DEF Spec
=============================================================================
