------------------------------- MODULE Startup -------------------------------
(***************************************************************************)
(* Which readers run: config_load (config.c) copies the names of the       *)
(* "readers" array into a table of fixed size, and collect_build_enabled   *)
(* (registry.c) resolves them into the list that collect_run iterates over *)
(* every interval.  A name stands for the whole string; one too long for   *)
(* its slot is cut and stays unknown.                                      *)
(***************************************************************************)
EXTENDS Naturals, Sequences, Functions

CONSTANTS
    Registry,   \* the names of REGISTRY, in order (11 in the code)
    Unknown,    \* names that are not in REGISTRY
    MaxReaders, \* slots of cfg->readers (16)
    MaxOut,     \* slots of the enabled list (32)
    MaxNames    \* bound: names in the array of the file

Known == Range(Registry)
Name == Known \cup Unknown

ASSUME ConstantsAssumption ==
    /\ Registry \in Seq(Known) /\ IsInjective(Registry)
    /\ Known \cap Unknown = {}
    /\ MaxReaders \in Nat \ {0} /\ MaxOut \in Nat /\ MaxNames \in Nat
    /\ Len(Registry) <= MaxOut /\ MaxReaders <= MaxOut

VARIABLES
    names,   \* the names in the array of the file
    readers, \* cfg->readers[0 .. readers_count-1]
    out,     \* the enabled readers found so far, by name
    i,       \* loop index: entries already handled
    pc       \* "load", "build", "all", "run"

vars == <<names, readers, out, i, pc>>

TypeOK ==
    /\ names \in Seq(Name) /\ readers \in Seq(Name) /\ out \in Seq(Known)
    /\ Len(readers) <= MaxReaders /\ Len(out) <= MaxOut
    /\ i \in Nat
    /\ pc \in {"load", "build", "all", "run"}

Init ==
    /\ names \in UNION {[1..k -> Name] : k \in 0..MaxNames}
    /\ readers = <<>> /\ out = <<>> /\ i = 0
    /\ pc = "load"

\* Mutant: the table is one entry longer than its slots.
LoadNamePast ==
    /\ pc = "load" /\ i < Len(names) /\ Len(readers) <= MaxReaders
    /\ readers' = Append(readers, names[i + 1])
    /\ i' = i + 1
    /\ UNCHANGED <<names, out, pc>>

\* config_load takes the next name while a slot is free.
LoadName ==
    /\ pc = "load" /\ i < Len(names) /\ Len(readers) < MaxReaders
    /\ readers' = Append(readers, names[i + 1])
    /\ i' = i + 1
    /\ UNCHANGED <<names, out, pc>>

\* The array or the table is exhausted.
LoadEnd ==
    /\ pc = "load" /\ (i >= Len(names) \/ Len(readers) >= MaxReaders)
    /\ i' = 0
    /\ pc' = IF readers = <<>> THEN "all" ELSE "build"
    /\ UNCHANGED <<names, readers, out>>

\* The file cannot be opened or read: the defaults name no reader.
LoadFails ==
    /\ pc = "load" /\ i = 0
    /\ pc' = "all"
    /\ UNCHANGED <<names, readers, out, i>>

\* collect_build_enabled with no name: every registered reader, in order.
BuildAll ==
    /\ pc = "all"
    /\ \/ /\ i < Len(Registry) /\ Len(out) < MaxOut
          /\ out' = Append(out, Registry[i + 1])
          /\ i' = i + 1 /\ UNCHANGED pc
       \/ /\ i >= Len(Registry) \/ Len(out) >= MaxOut
          /\ pc' = "run" /\ UNCHANGED <<out, i>>
    /\ UNCHANGED <<names, readers>>

\* registry_find: the reader of that name, if there is one.
registry_find(name) == {r \in Known : r = name}

\* Mutant: only a repetition right after the first mention is noticed.
BuildOneAdjacent ==
    /\ pc = "build" /\ i < Len(readers)
    /\ i' = i + 1
    /\ LET found == registry_find(readers[i + 1]) IN
          \/ /\ found = {} \/ (out # <<>> /\ out[Len(out)] \in found) \/ Len(out) >= MaxOut
             /\ UNCHANGED out
          \/ /\ ~ (out # <<>> /\ out[Len(out)] \in found) /\ Len(out) < MaxOut
             /\ \E r \in found : out' = Append(out, r)
    /\ UNCHANGED <<names, readers, pc>>

\* Mutant: an unknown name ends the scan instead of being skipped.
BuildOneStop ==
    /\ pc = "build" /\ i < Len(readers)
    /\ LET found == registry_find(readers[i + 1]) IN
          \/ /\ found = {}
             /\ i' = Len(readers) /\ UNCHANGED out
          \/ /\ found # {} /\ found \cap Range(out) # {}
             /\ i' = i + 1 /\ UNCHANGED out
          \/ /\ found \cap Range(out) = {}
             /\ i' = i + 1 /\ \E r \in found : out' = Append(out, r)
    /\ UNCHANGED <<names, readers, pc>>

\* One name: skipped if unknown or already enabled, else appended if it fits.
BuildOne ==
    /\ pc = "build" /\ i < Len(readers)
    /\ i' = i + 1
    /\ LET found == registry_find(readers[i + 1]) IN
          \/ /\ found = {} \/ found \cap Range(out) # {} \/ Len(out) >= MaxOut
             /\ UNCHANGED out
          \/ /\ found \cap Range(out) = {} /\ Len(out) < MaxOut
             /\ \E r \in found : out' = Append(out, r)
    /\ UNCHANGED <<names, readers, pc>>

BuildEnd ==
    /\ pc = "build" /\ i >= Len(readers)
    /\ pc' = "run"
    /\ UNCHANGED <<names, readers, out, i>>

\* collect_run goes on with the list.
Run == pc = "run" /\ UNCHANGED vars

Next == LoadName \/ LoadEnd \/ LoadFails \/ BuildAll \/ BuildOne \/ BuildEnd \/ Run

Spec == Init /\ [][Next]_vars

-----------------------------------------------------------------------------
(* Properties.                                                             *)

\* A reader runs at most once per interval, however often the file names it:
\* a second run would write a second sample of the same second to its files.
EnabledOnce == IsInjective(out)

\* Where a name is mentioned first.
First(name) == CHOOSE k \in 1..Len(readers) :
                  readers[k] = name /\ \A j \in 1..k-1 : readers[j] # name

\* The list that runs is the known names of the file, in the order of their
\* first mention, and every registered reader, in the order of the registry,
\* when the file names none; only names beyond the last slot are left out.
EnabledExact ==
    pc = "run" =>
      IF readers = <<>>
      THEN out = Registry
      ELSE /\ Range(out) = Known \cap Range(readers)
           /\ \A a, b \in 1..Len(out) : a < b => First(out[a]) < First(out[b])
           /\ \A k \in 1..Len(names) : k <= MaxReaders => names[k] \in Range(readers)
=============================================================================
