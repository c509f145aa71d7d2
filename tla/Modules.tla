------------------------------- MODULE Modules -------------------------------
(***************************************************************************)
(* Loading script modules.  CommonJSModule: require() looks in a map of    *)
(* evaluated modules, and else gets the script of the module, evaluates it *)
(* (which may require further modules) and enters it in the map.           *)
(* ES6Module: QuickJS keeps the table of modules and asks the Java side to *)
(* resolve a name and to fetch a script.  Names are those of ModuleNames.  *)
(***************************************************************************)
EXTENDS ModuleNames, FiniteSets

CONSTANTS
    Asked,      \* the names that scripts ask for
    Files,      \* FileOf the modules that getModuleScript has a script for
    Roots,      \* the names that the application starts ES6 modules with
    MaxRuns,    \* bound: evaluations of CommonJS modules
    MaxLoads    \* bound: records added to the table of ES6 modules

ASSUME ModulesAssumption ==
    /\ Asked \union Roots \subseteq ModuleName \ {Empty}
    /\ <<>> \notin Files
    /\ MaxRuns \in Nat
    /\ MaxLoads \in Nat

\* Scripts and the application write names in the way that convertModuleName is made for.
ProperNames ==
    /\ \A n \in Asked : WellFormed(n)
    /\ \A n \in Roots : Canonical(n)

VARIABLES
    context,    \* the class of the context, "closing" once close() was called
    modules,    \* CommonJSModule.modules: name -> the evaluation stored
    stack,      \* evaluations under way, innermost last
    runs,       \* evaluations started so far
    complete,   \* history: the evaluations that came to their end, with the filename set
    given,      \* the evaluation that the last require() returned, 0 if none
    table,      \* the records of ES6 modules in ctx->loaded_modules
    loads       \* records added so far

vars == <<context, modules, stack, runs, complete, given, table, loads>>

\* An evaluation: its number, the name asked for, the name converted, who asked and
\* whether an exception is pending in it.
Frames == [run : 1 .. MaxRuns, asked : Asked, name : ModuleName,
           by : {"require", "execute"}, failed : BOOLEAN]

\* A record of the table: its place in the order of the list, the name, who added it and
\* how far it is ("loaded" with all that it imports).
Records == [id : 1 .. MaxLoads, name : ModuleName, by : {"execute", "import"},
            state : {"loading", "loaded", "evaluated"}]

TypeOK ==
    /\ context \in {"CommonJS", "ES6", "closing"}
    /\ DOMAIN modules \subseteq ModuleName
    /\ modules \in [DOMAIN modules -> 1 .. MaxRuns]
    /\ stack \in Seq(Frames)
    /\ runs \in 0 .. MaxRuns
    /\ complete \subseteq [run : 1 .. MaxRuns, name : ModuleName]
    /\ given \in 0 .. MaxRuns
    /\ table \subseteq Records
    /\ loads \in 0 .. MaxLoads

Init ==
    /\ context \in {"CommonJS", "ES6"}
    /\ modules = [k \in {} |-> 0]
    /\ stack = <<>>
    /\ runs = 0
    /\ complete = {}
    /\ given = 0
    /\ table = {}
    /\ loads = 0

-----------------------------------------------------------------------------
(* CommonJS *)

es6 == <<table, loads>>

\* getModuleScript, supplied by the application, knows the module.
HasScript(name) == FileOf(name) \in Files

\* modules.get(path): the name as the script wrote it, not as converted; 0 for null.
Cached(path) == IF path \in DOMAIN modules THEN modules[path] ELSE 0

\* An exception is pending in the innermost evaluation; the script that called
\* require() goes on with null.
TopFailed == IF stack = <<>> THEN stack ELSE [stack EXCEPT ![Len(stack)].failed = TRUE]

\* A script, or the application if none is running, may ask for a module.
MayRequire == context = "CommonJS" \/ (context = "closing" /\ stack # <<>>)

\* receiver.module.filename, if require was called on an object that has a "module".
\* Only modules whose script is over have a filename.
Bases == {Empty} \union {c.name : c \in complete}

\* require(path) for a module in the map
RequireCached(base, path) ==
    /\ MayRequire
    /\ ConvertModuleName(base, path) # Failed
    /\ Cached(path) # 0
    /\ given' = Cached(path)
    /\ UNCHANGED <<context, modules, stack, runs, complete, es6>>

\* executeModuleScript converts the name once more, with no base.
Filename(name) == ConvertModuleName(Empty, name)

\* executeModule(name), called for path, gets as far as to run the script.
Starts(path, name, by) ==
    /\ name # Failed /\ HasScript(name) /\ Filename(name) # Failed
    /\ runs < MaxRuns
    /\ runs' = runs + 1
    /\ stack' = Append(stack, [run |-> runs + 1, asked |-> path, by |-> by,
                               name |-> Filename(name), failed |-> FALSE])

\* require(path) for another one: executeModule starts its script.
RequireStarts(base, path) ==
    /\ MayRequire
    /\ Cached(path) = 0
    /\ Starts(path, ConvertModuleName(base, path), "require")
    /\ UNCHANGED <<context, modules, complete, given, es6>>

\* The application calls executeModule, which does not look in the map.
ExecuteModule(name) ==
    /\ context = "CommonJS" /\ stack = <<>>
    /\ Starts(name, name, "execute")
    /\ UNCHANGED <<context, modules, complete, given, es6>>

\* One of the two conversions throws, or "'moduleName' script is null".
RequireFails(base, path) ==
    LET name == ConvertModuleName(base, path) IN
    /\ MayRequire
    /\ \/ name = Failed
       \/ Cached(path) = 0 /\ (~HasScript(name) \/ Filename(name) = Failed)
    /\ stack' = TopFailed
    /\ given' = 0
    /\ UNCHANGED <<context, modules, runs, complete, es6>>

\* The script of the innermost module throws.
ScriptThrows ==
    /\ stack # <<>> /\ ~Last(stack).failed
    /\ stack' = TopFailed
    /\ UNCHANGED <<context, modules, runs, complete, given, es6>>

\* Mutant: the module is stored as the script asked for it.
Stored_AsAsked(f) ==
    [k \in DOMAIN modules \union {f.asked} |-> IF k = f.asked THEN f.run ELSE modules[k]]

\* modules.put(moduleName_, module), when the script is over
Stored(f) ==
    [k \in DOMAIN modules \union {f.name} |-> IF k = f.name THEN f.run ELSE modules[k]]

Finish ==
    /\ stack # <<>> /\ ~Last(stack).failed
    /\ modules' = Stored(Last(stack))
    /\ complete' = complete \union {[run |-> Last(stack).run, name |-> Last(stack).name]}
    /\ given' = Last(stack).run
    /\ stack' = Front(stack)
    /\ UNCHANGED <<context, runs, es6>>

\* What an exception leaves of the stack: it goes on in the script that called require().
Unwound == IF Len(stack) = 1 THEN <<>> ELSE [Front(stack) EXCEPT ![Len(stack) - 1].failed = TRUE]

\* Mutant: the module is stored although its script has thrown.
FinishFails_Stores ==
    /\ stack # <<>> /\ Last(stack).failed
    /\ modules' = Stored(Last(stack))
    /\ stack' = Unwound
    /\ given' = 0
    /\ UNCHANGED <<context, runs, complete, es6>>

\* executeScript throws: the module is not stored, and its require() fails.
FinishFails ==
    /\ stack # <<>> /\ Last(stack).failed
    /\ stack' = Unwound
    /\ given' = 0
    /\ UNCHANGED <<context, modules, runs, complete, es6>>

\* CommonJSModule.close empties the map at once, on the thread that calls it; the
\* context is closed by an event, after the evaluations under way.
Close ==
    /\ context = "CommonJS"
    /\ context' = "closing"
    /\ modules' = [k \in {} |-> 0]
    /\ UNCHANGED <<stack, runs, complete, given, es6>>

-----------------------------------------------------------------------------
(* ES6 modules.  executeModule loads the module and all that it imports, one inside *)
(* the other, and then links and evaluates them.                                    *)

commonJS == <<context, modules, stack, runs, complete, given>>

Loading == {r \in table : r.state = "loading"}

\* The module whose imports are being resolved.
Innermost == CHOOSE r \in Loading : \A q \in Loading : q.id <= r.id

\* js_new_module_def: a record at the end of the list, whether the name is there or not.
Added(name, by) ==
    /\ loads < MaxLoads
    /\ loads' = loads + 1
    /\ table' = table \union {[id |-> loads + 1, name |-> name, by |-> by, state |-> "loading"]}

\* ES6Module.executeModule: JS_Eval makes a new module of the script.
ImportRoot(name) ==
    /\ context = "ES6" /\ Loading = {}
    /\ HasScript(name)
    /\ Added(name, "execute")
    /\ UNCHANGED commonJS

\* An import: _JSModuleNormalizeFunc, and _JSModuleLoaderFunc when there is no module of
\* the name yet.
Import(asked) ==
    /\ Loading # {}
    /\ LET name == ConvertModuleName(Innermost.name, asked) IN
       /\ name # Failed
       /\ IF \E r \in table : r.name = name
          THEN UNCHANGED es6
          ELSE HasScript(name) /\ Added(name, "import")
    /\ UNCHANGED commonJS

\* All imports of a module that is itself imported are there.
LoadEnds ==
    /\ Loading # {} /\ Innermost.by = "import"
    /\ table' = (table \ {Innermost}) \union {[Innermost EXCEPT !.state = "loaded"]}
    /\ UNCHANGED <<commonJS, loads>>

\* A script does not compile, or the module of an import is not found: the failure goes
\* through js_resolve_module up to the module that was started, each freed by JS_Eval.
LoadFails ==
    /\ Loading # {}
    /\ table' = table \ Loading
    /\ UNCHANGED <<commonJS, loads>>

Evaluated(records) == {[r EXCEPT !.state = "evaluated"] : r \in records}

Pending == {r \in table : r.state # "evaluated"}

\* The module that was started is linked and evaluated, and what it imports before it.
RootEvaluated ==
    /\ Loading # {} /\ Innermost.by = "execute"
    /\ \E S \in SUBSET Pending :
        /\ Innermost \in S
        /\ table' = (table \ S) \union Evaluated(S)
    /\ UNCHANGED <<commonJS, loads>>

\* Linking fails or a script throws: js_free_modules frees what is not evaluated.
RootFails ==
    /\ Loading # {} /\ Innermost.by = "execute"
    /\ \E S \in SUBSET Pending : table' = (table \ Pending) \union Evaluated(S)
    /\ UNCHANGED <<commonJS, loads>>

-----------------------------------------------------------------------------

Next ==
    \/ \E b \in Bases, p \in Asked :
            RequireCached(b, p) \/ RequireStarts(b, p) \/ RequireFails(b, p)
    \/ \E p \in Asked : ExecuteModule(p)
    \/ ScriptThrows
    \/ Finish
    \/ FinishFails
    \/ Close
    \/ \E n \in Roots : ImportRoot(n)
    \/ \E n \in Asked : Import(n)
    \/ LoadEnds
    \/ LoadFails
    \/ RootEvaluated
    \/ RootFails

Spec == Init /\ [][Next]_vars

-----------------------------------------------------------------------------
(* Properties *)

UnderWay == {stack[i].run : i \in DOMAIN stack}

\* require() hands out, and the map holds, only modules whose script came to its end
\* without an exception, in cycles of requires and after exceptions of the scripts within
\* too; what the map holds under a name has that filename (CommonJSModule.java:44-54).
CompleteOnly ==
    /\ given # 0 => given \in {c.run : c \in complete} \ UnderWay
    /\ \A k \in DOMAIN modules :
            modules[k] \notin UnderWay /\ [run |-> modules[k], name |-> k] \in complete

\* The filename that a module carries finds it: until close(), a script that requires a
\* module by its filename does not evaluate it again, although the map is asked under the
\* name as written and filled under the name as converted (CommonJSModule.java:27, 51).
EvaluatedOnce ==
    [][\A c \in complete : context = "CommonJS" /\ runs' # runs
          => Last(stack').asked # c.name \/ Last(stack').by = "execute"]_vars

\* A name that stays below the root means, after conversion, the file that it
\* means in the script that asks for it (Module.java:14-68).
ResolvesRight ==
    \A r \in table, n \in Asked :
        LET f == Meant(r.name, n) IN
        (f # <<>> /\ ".." \notin Range(f))
            => /\ ConvertModuleName(r.name, n) # Failed
               /\ FileOf(ConvertModuleName(r.name, n)) = f

\* An import never makes a second module of a file that has one, as long as both names are
\* relative; only executeModule does, which does not look for the name
\* (quickjs.c:27312-27352, 33614-33618).
OneModulePerFile ==
    \A r, s \in table :
        r.id < s.id /\ ~IsAbsolute(r.name) /\ ~IsAbsolute(s.name) /\ FileOf(r.name) = FileOf(s.name)
            => s.by = "execute"
=============================================================================
