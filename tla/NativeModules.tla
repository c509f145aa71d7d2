----------------------------- MODULE NativeModules -----------------------------
(***************************************************************************)
(* JSINativeModules: the JavaScript objects that stand for native modules. *)
(* getModule looks a name up in m_objects and otherwise has the script     *)
(* function __fbGenNativeModule make the object.  That function is script  *)
(* code and may ask for modules itself, the same one included, so that     *)
(* getModule is on the stack several times.                                *)
(***************************************************************************)
EXTENDS Naturals, Sequences

CONSTANTS
    Names,       \* the names that scripts ask for
    Registered,  \* those for which the registry has a configuration
    MaxRuns      \* bound: runs of __fbGenNativeModule

ASSUME NamesAssumption == Registered \subseteq Names
ASSUME RunsAssumption == MaxRuns \in Nat

VARIABLES
    delegate,    \* whether there is a delegate, and with it a registry
    genDefined,  \* whether scripts have defined __fbGenNativeModule
    gen,         \* whether m_genNativeModuleJS is set
    objects,     \* m_objects: the object of a name, 0 if there is none
    runs,        \* the runs of the function that have ended; an object is the
                 \* number of the run that made it
    frames,      \* the names of the getModule calls that wait for the function
    handed       \* the objects that getModule returned for a name since reset

nmVars == <<delegate, genDefined, gen, objects, runs, frames, handed>>

NMInit ==
    /\ delegate \in BOOLEAN
    /\ genDefined = FALSE
    /\ gen = FALSE
    /\ objects = [n \in Names |-> 0]
    /\ runs = 0
    /\ frames = <<>>
    /\ handed = [n \in Names |-> {}]

\* A script defines the function.
DefineGen ==
    /\ ~genDefined
    /\ genDefined' = TRUE
    /\ UNCHANGED <<delegate, gen, objects, runs, frames, handed>>

Hand(n, o) == handed' = [handed EXCEPT ![n] = @ \union {o}]

GetCached(n) ==
    /\ delegate
    /\ objects[n] # 0
    /\ Hand(n, objects[n])
    /\ UNCHANGED <<delegate, genDefined, gen, objects, runs, frames>>

\* m_moduleRegistry->getConfig(name) has a value.
HasConfig(n) == n \in Registered

\* createModule fetches __fbGenNativeModule before it asks for the
\* configuration; without one the function stays fetched and getModule
\* returns null.  If scripts have not defined the function, it throws and
\* nothing changes.
GetUnregistered(n) ==
    /\ delegate
    /\ objects[n] = 0
    /\ gen \/ genDefined
    /\ ~HasConfig(n)
    /\ gen' = TRUE
    /\ UNCHANGED <<delegate, genDefined, objects, runs, frames, handed>>

GetStarts(n) ==
    /\ delegate
    /\ objects[n] = 0
    /\ gen \/ genDefined
    /\ HasConfig(n)
    /\ runs + Len(frames) < MaxRuns
    /\ gen' = TRUE
    /\ frames' = Append(frames, n)
    /\ UNCHANGED <<delegate, genDefined, objects, runs, handed>>

\* Mutant: m_objects[name] = module.
Emplaced_Assigned(n, o) == [objects EXCEPT ![n] = o]

\* m_objects.emplace keeps an entry that a nested call has made meanwhile.
Emplaced(n, o) == [objects EXCEPT ![n] = IF @ = 0 THEN o ELSE @]

Returning == frames[Len(frames)]
Outer == SubSeq(frames, 1, Len(frames) - 1)

GenReturns ==
    /\ frames # <<>>
    /\ runs' = runs + 1
    /\ objects' = Emplaced(Returning, runs + 1)
    /\ Hand(Returning, objects'[Returning])
    /\ frames' = Outer
    /\ UNCHANGED <<delegate, genDefined, gen>>

GenThrows ==
    /\ frames # <<>>
    /\ runs' = runs + 1
    /\ frames' = Outer
    /\ UNCHANGED <<delegate, genDefined, gen, objects, handed>>

\* What a running script does to the native modules.
ScriptStep ==
    \/ DefineGen
    \/ \E n \in Names : GetCached(n) \/ GetUnregistered(n) \/ GetStarts(n)
    \/ GenReturns \/ GenThrows

\* reset, which the owner calls while no script runs.
Reset ==
    /\ frames = <<>>
    /\ gen' = FALSE
    /\ objects' = [n \in Names |-> 0]
    /\ handed' = [n \in Names |-> {}]
    /\ UNCHANGED <<delegate, genDefined, runs, frames>>

-----------------------------------------------------------------------------
NMTypeOK ==
    /\ delegate \in BOOLEAN /\ genDefined \in BOOLEAN /\ gen \in BOOLEAN
    /\ objects \in [Names -> 0..MaxRuns]
    /\ runs \in 0..MaxRuns
    /\ frames \in Seq(Registered)
    /\ handed \in [Names -> SUBSET (1..MaxRuns)]

\* Scripts see one object per native module, however requests nest: two
\* results of getModule for a name are the same object, although the function
\* may have made several (JSINativeModules.cpp, getModule).
OneObjectPerModule ==
    \A n \in Names : \A o, p \in handed[n] : o = p
=============================================================================
