---------------------------- MODULE ModuleManager ----------------------------
(***************************************************************************)
(* The module manager of machine/modmgr.c with ow_machine_run() of         *)
(* machine/invoke.c: modules are found, loaded, kept in a cache, and their *)
(* initializers run, which import other modules.  Allocations while a      *)
(* module is being made may collect garbage, so that a load takes several  *)
(* steps.                                                                  *)
(***************************************************************************)
EXTENDS Integers, FiniteSets, SequencesExt

CONSTANTS
    Names,     \* names of modules
    Kind,      \* what ow_module_manager_search() finds for each: "embedded",
               \* "dynlib", "source", "bytecode" or "none"
    Imports,   \* the modules each source imports, in order
    Broken,    \* files that may be missing, unreadable or wrong when they are
               \* loaded
    Raising,   \* sources whose initializer may end in an exception
    WithMain,  \* sources with a function main
    FlagSets,  \* the flags of a load: sets of "reload" and "nocache"
    MaxObjs,   \* bound on the module objects alive
    MaxOps,    \* bound on the host's requests
    MaxDepth   \* calls the stack has room for

ASSUME ModulesAssumption ==
    /\ Kind \in [Names -> {"embedded", "dynlib", "source", "bytecode", "none"}]
    /\ Imports \in [Names -> Seq(Names)]
    /\ FlagSets \subseteq SUBSET {"reload", "nocache"}
    /\ MaxObjs \in Nat /\ MaxOps \in Nat /\ MaxDepth \in Nat

VARIABLES
    cache,    \* modules: name to object
    objs,     \* the module objects: name, whether complete, and the global
              \* variable that holds the initializer
    temp,     \* temp_module, 0 for NULL
    load,     \* the load under way: name, flags, stage
    stack,    \* invocations of ow_machine_run(), the innermost last
    host,     \* the module on the host's stack, 0 for none
    status,   \* "ok", "exc", or "crashed" when the stack is exhausted
    done,     \* history: objects whose initializer has run to its end
    ops       \* history: requests of the host so far

vars == <<cache, objs, temp, load, stack, host, status, done, ops>>

NoLoad == [name |-> "", flags |-> {}, stage |-> "none"]
Obj == 1 .. MaxObjs
NewObj(id, name) == [k \in DOMAIN objs \cup {id} |->
    IF k = id THEN [name |-> name, complete |-> FALSE, init |-> "none"] ELSE objs[k]]

Idle == load = NoLoad /\ stack = <<>> /\ status # "crashed"
Frame(mod, phase, main) == [mod |-> mod, phase |-> phase, at |-> 1, main |-> main]

Init ==
    /\ cache = <<>> /\ objs = <<>> /\ temp = 0 /\ host = 0
    /\ load = NoLoad /\ stack = <<>> /\ status = "ok" /\ done = {} /\ ops = 0

-----------------------------------------------------------------------------
\* Loading.

BeginLoad(name, flags) == load' = [name |-> name, flags |-> flags, stage |-> "lookup"]

\* owiz_make_module() with OWIZ_MKMOD_LOAD
HostLoad(name, flags) ==
    /\ Idle
    /\ BeginLoad(name, flags)
    /\ host' = 0 /\ status' = "ok"
    /\ ops < MaxOps /\ ops' = ops + 1
    /\ UNCHANGED <<cache, objs, temp, stack, done>>

\* Mutant: the flag is read the wrong way round.
LookupInverted ==
    /\ load.stage = "lookup"
    /\ IF "reload" \in load.flags /\ load.name \in DOMAIN cache
       THEN temp' = cache[load.name] /\ load' = [load EXCEPT !.stage = "return"]
       ELSE temp' = temp /\ load' = [load EXCEPT !.stage = "search"]
    /\ UNCHANGED <<cache, objs, stack, host, status, done, ops>>

\* ow_module_manager_load(): the cache is asked first.
Lookup ==
    /\ load.stage = "lookup"
    /\ IF "reload" \notin load.flags /\ load.name \in DOMAIN cache
       THEN temp' = cache[load.name] /\ load' = [load EXCEPT !.stage = "return"]
       ELSE temp' = temp /\ load' = [load EXCEPT !.stage = "search"]
    /\ UNCHANGED <<cache, objs, stack, host, status, done, ops>>

\* Mutant: what was made of a module that fails is kept.
FailKeepsTemp == load' = [load EXCEPT !.stage = "return"] /\ temp' = temp

\* The branch of a load that failed.
Fail == load' = [load EXCEPT !.stage = "return"] /\ temp' = 0

\* _load_module() with ow_module_manager_search(): _load_module_not_found(),
\* _load_module_from_bytecode(), and a file that cannot be opened.
SearchFails ==
    /\ load.stage = "search"
    /\ \/ Kind[load.name] \in {"none", "bytecode"}
       \/ Kind[load.name] \in {"dynlib", "source"} /\ load.name \in Broken
    /\ Fail
    /\ UNCHANGED <<cache, objs, stack, host, status, done, ops>>

\* _load_module_from_embedded(), _load_module_from_dynlib() and
\* _load_module_from_source(): an empty module becomes temp_module.
MakeModule ==
    /\ load.stage = "search"
    /\ Kind[load.name] \in {"embedded", "dynlib", "source"}
    /\ \E id \in Obj \ DOMAIN objs :
        /\ \A k \in Obj \ DOMAIN objs : id <= k
        /\ objs' = NewObj(id, load.name) /\ temp' = id
    /\ load' = [load EXCEPT !.stage = "fill"]
    /\ UNCHANGED <<cache, stack, host, status, done, ops>>

\* ow_module_obj_load_native_def()
FillNative ==
    /\ load.stage = "fill" /\ Kind[load.name] # "source"
    /\ temp \in DOMAIN objs
    /\ objs' = [objs EXCEPT ![temp].complete = TRUE]
    /\ load' = [load EXCEPT !.stage = "store"]
    /\ UNCHANGED <<cache, temp, stack, host, status, done, ops>>

\* ow_compiler_compile() into the module.
CompileOk ==
    /\ load.stage = "fill" /\ Kind[load.name] = "source"
    /\ temp \in DOMAIN objs
    /\ objs' = [objs EXCEPT ![temp].complete = TRUE, ![temp].init = "func"]
    /\ load' = [load EXCEPT !.stage = "store"]
    /\ UNCHANGED <<cache, temp, stack, host, status, done, ops>>
CompileFails ==
    /\ load.stage = "fill" /\ Kind[load.name] = "source" /\ load.name \in Broken
    /\ Fail
    /\ UNCHANGED <<cache, objs, stack, host, status, done, ops>>

\* The module is cached.
Store ==
    /\ load.stage = "store"
    /\ cache' = IF "nocache" \in load.flags THEN cache
                ELSE [n \in DOMAIN cache \cup {load.name} |->
                        IF n = load.name THEN temp ELSE cache[n]]
    /\ load' = [load EXCEPT !.stage = "return"]
    /\ UNCHANGED <<objs, temp, stack, host, status, done, ops>>

-----------------------------------------------------------------------------
\* Running.

\* ow_machine_run(): the initializer, then main if it is wanted.
HasMain(mod) == objs[mod].name \in WithMain
Entered(mod, main) ==
    IF objs[mod].init = "func" THEN <<Frame(mod, "init", main)>>
    ELSE IF main /\ HasMain(mod) THEN <<Frame(mod, "main", main)>>
    ELSE <<>>

\* An exception leaves every frame.
Unwind == stack' = <<>> /\ status' = "exc"

\* Mutant: the importing function does not go on to its next instruction.
ReturnStays ==
    /\ load.stage = "return"
    /\ load' = NoLoad /\ temp' = 0
    /\ IF temp = 0 THEN Unwind
       ELSE status' = status /\ stack' = IF stack = <<>> THEN stack ELSE stack \o Entered(temp, FALSE)
    /\ host' = IF stack = <<>> THEN temp ELSE host
    /\ UNCHANGED <<cache, objs, done, ops>>

\* The load returns to the host, or to LdMod, which runs the module.
Return ==
    /\ load.stage = "return"
    /\ load' = NoLoad /\ temp' = 0
    /\ IF stack = <<>>
       THEN /\ host' = temp /\ stack' = stack
            /\ status' = IF temp = 0 THEN "exc" ELSE "ok"
       ELSE /\ host' = host
            /\ IF temp = 0 THEN Unwind
               ELSE /\ status' = status
                    /\ stack' = [stack EXCEPT ![Len(stack)].at = @ + 1] \o Entered(temp, FALSE)
    /\ UNCHANGED <<cache, objs, done, ops>>

\* owiz_invoke() with OWIZ_IVK_MODULE, and OWIZ_IVK_MODMAIN or not.
HostRun(main) ==
    /\ Idle /\ host # 0
    /\ stack' = Entered(host, main) /\ status' = "ok"
    /\ ops < MaxOps /\ ops' = ops + 1
    /\ UNCHANGED <<cache, objs, temp, load, host, done>>

Current == Last(stack)
Steps == load = NoLoad /\ stack # <<>> /\ status # "crashed" /\ Len(stack) <= MaxDepth

\* The next import of the initializer: LdMod.
ImportNext ==
    /\ Steps /\ Current.phase = "init"
    /\ Current.at <= Len(Imports[objs[Current.mod].name])
    /\ BeginLoad(Imports[objs[Current.mod].name][Current.at], {})
    /\ UNCHANGED <<cache, objs, temp, stack, host, status, done, ops>>

InitOver ==
    /\ Steps /\ Current.phase = "init"
    /\ Current.at > Len(Imports[objs[Current.mod].name])

\* Mutant: the initializer stays in the module.
InitReturnsKept ==
    /\ InitOver
    /\ stack' = Front(stack)
    /\ done' = done \cup {Current.mod}
    /\ UNCHANGED <<cache, objs, temp, load, host, status, ops>>

\* The initializer returns: only now its variable becomes nil.
InitReturns ==
    /\ InitOver
    /\ objs' = [objs EXCEPT ![Current.mod].init = "nil"]
    /\ stack' = Front(stack) \o (IF Current.main /\ HasMain(Current.mod)
                                 THEN <<Frame(Current.mod, "main", TRUE)>> ELSE <<>>)
    /\ done' = done \cup {Current.mod}
    /\ UNCHANGED <<cache, temp, load, host, status, ops>>

InitRaises ==
    /\ InitOver /\ objs[Current.mod].name \in Raising
    /\ Unwind
    /\ UNCHANGED <<cache, objs, temp, load, host, done, ops>>

MainReturns ==
    /\ Steps /\ Current.phase = "main"
    /\ stack' = Front(stack)
    /\ UNCHANGED <<cache, objs, temp, load, host, status, done, ops>>

\* Nothing checks the end of the stack.
Exhaust ==
    /\ load = NoLoad /\ Len(stack) > MaxDepth /\ status # "crashed"
    /\ status' = "crashed"
    /\ UNCHANGED <<cache, objs, temp, load, stack, host, done, ops>>

-----------------------------------------------------------------------------
\* Garbage.

\* ow_module_manager_gc_visitor(), and the call stack
Reachable ==
    {cache[n] : n \in DOMAIN cache} \cup {host, temp} \cup {stack[k].mod : k \in DOMAIN stack}

\* A collection: while a module is allocated and filled or a program runs, but
\* not between the other steps of ow_module_manager_load().
Collect ==
    /\ load.stage \in {"none", "search", "fill"} /\ status # "crashed"
    /\ DOMAIN objs \ Reachable # {}
    /\ objs' = [k \in DOMAIN objs \cap Reachable |-> objs[k]]
    /\ done' = done \cap Reachable
    /\ UNCHANGED <<cache, temp, load, stack, host, status, ops>>

Working ==
    \/ Lookup \/ SearchFails \/ MakeModule \/ FillNative \/ CompileOk \/ CompileFails
    \/ Store \/ Return \/ ImportNext \/ InitReturns \/ InitRaises \/ MainReturns \/ Exhaust

Next ==
    \/ \E name \in Names, flags \in FlagSets : HostLoad(name, flags)
    \/ \E main \in BOOLEAN : HostRun(main)
    \/ Lookup \/ SearchFails \/ MakeModule \/ FillNative \/ CompileOk \/ CompileFails
    \/ Store \/ Return \/ ImportNext \/ InitReturns \/ InitRaises \/ MainReturns \/ Exhaust
    \/ Collect

\* The machine's one thread goes on, and memory for modules is found by
\* collecting those that nobody holds.
Spec == Init /\ [][Next]_vars /\ WF_vars(Working) /\ WF_vars(Collect)

-----------------------------------------------------------------------------
\* Properties.

\* The variables are of their types; nobody but a load uses temp_module.
TypeOK ==
    /\ DOMAIN cache \subseteq Names /\ DOMAIN objs \subseteq Obj
    /\ temp \in Obj \cup {0} /\ host \in Obj \cup {0}
    /\ load.stage \in {"none", "lookup", "search", "fill", "store", "return"}
    /\ Len(stack) <= MaxDepth + 1
    /\ status \in {"ok", "exc", "crashed"} /\ ops \in 0 .. MaxOps
    /\ load = NoLoad => temp = 0

\* Whatever fails and whenever a collection takes place, the modules that can
\* be found, in the cache, on the host's stack or running, exist and are
\* complete: a load that fails leaves nothing behind, and a module in the
\* making is not collected.
ModulesWhole ==
    /\ \A m \in (Reachable \ {temp, 0}) : m \in DOMAIN objs /\ objs[m].complete
    /\ temp # 0 => temp \in DOMAIN objs
    /\ \A n \in DOMAIN cache : objs[cache[n]].name = n

\* A module imports itself, through others or directly: it is in every set
\* that has what it imports and what its elements import.
Circular(name) ==
    \A S \in SUBSET Names :
        /\ ToSet(Imports[name]) \subseteq S
        /\ \A n \in S : ToSet(Imports[n]) \subseteq S
        => name \in S

Running(mod) == {k \in DOMAIN stack : stack[k].mod = mod /\ stack[k].phase = "init"}

\* The initializer of a module object never begins again once it has run to
\* its end, and begins while it is running only if the module imports itself
\* through others.
InitialisedOnce ==
    [][\A m \in DOMAIN objs' : Cardinality(Running(m)') > Cardinality(Running(m)) =>
        /\ m \notin done
        /\ Running(m) # {} => Circular(objs[m].name)]_vars

\* A name keeps its module, whatever is loaded or fails, unless it is loaded
\* again on request.
CacheStable ==
    [][\A n \in DOMAIN cache :
        n \in DOMAIN cache' /\ (cache'[n] # cache[n] => n = load.name /\ "reload" \in load.flags)]_vars

\* Every load and every run ends, in a result, an exception or exhaustion.
Ends == (load # NoLoad \/ stack # <<>>) ~> (Idle \/ status = "crashed")
=============================================================================
