---------------------------- MODULE StartupProofs ----------------------------
(***************************************************************************)
(* The list of enabled readers, for every registry, every file and every   *)
(* number of slots.  The inductive invariant follows the three loops: the  *)
(* table is a copy of the first names of the file, and the list is what    *)
(* the entries handled so far call for.                                    *)
(***************************************************************************)
EXTENDS Startup, TLAPS

\* Entry k is the first that mentions its name.
IsFirst(k, name) == readers[k] = name /\ \A j \in 1..k-1 : readers[j] # name

LoadInv ==
    /\ pc = "load" => /\ out = <<>>
                      /\ i = Len(readers) /\ i <= Len(names)
                      /\ \A k \in 1..i : readers[k] = names[k]
    /\ pc \in {"build", "run"} /\ readers # <<>> =>
          \A k \in 1..Len(names) : k <= MaxReaders =>
             k \in 1..Len(readers) /\ readers[k] = names[k]

AllInv ==
    /\ pc = "all" => /\ readers = <<>>
                     /\ i = Len(out) /\ i <= Len(Registry)
                     /\ \A k \in 1..i : out[k] = Registry[k]
    /\ pc = "run" /\ readers = <<>> => out = Registry

\* The list holds the known names among the first h entries, by first mention.
Built(h) ==
    /\ Len(out) <= h
    /\ \A k \in 1..h : readers[k] \in Known => \E a \in 1..Len(out) : out[a] = readers[k]
    /\ \A a \in 1..Len(out) : \E k \in 1..h : IsFirst(k, out[a])
    /\ \A a, b \in 1..Len(out) : \A k, l \in 1..h :
          a < b /\ IsFirst(k, out[a]) /\ IsFirst(l, out[b]) => k < l

BuildInv ==
    /\ pc = "build" => /\ readers # <<>> /\ i <= Len(readers)
                       /\ Built(i)
    /\ pc = "run" /\ readers # <<>> => Built(Len(readers))

IInv == TypeOK /\ LoadInv /\ AllInv /\ BuildInv

\* The invariant holds before the file is read.
LEMMA InitInv == Init => IInv
  <1> SUFFICES ASSUME Init PROVE IInv
    OBVIOUS
  <1>1. PICK k \in 0..MaxNames : names \in [1..k -> Name]
    BY DEF Init
  <1>2. names \in Seq(Name)
    BY <1>1, ConstantsAssumption, k \in Nat
  <1>3. readers \in Seq(Name) /\ out \in Seq(Known) /\ Len(readers) = 0 /\ Len(out) = 0
    BY DEF Init
  <1> QED BY <1>2, <1>3, ConstantsAssumption
      DEF Init, IInv, TypeOK, LoadInv, AllInv, BuildInv

\* The table is filled from the file.
LEMMA LoadStep == IInv /\ (LoadName \/ LoadEnd \/ LoadFails) => IInv'
  <1> SUFFICES ASSUME IInv PROVE (LoadName \/ LoadEnd \/ LoadFails) => IInv'
    OBVIOUS
  <1>t. /\ names \in Seq(Name) /\ readers \in Seq(Name) /\ out \in Seq(Known)
        /\ Len(readers) <= MaxReaders /\ Len(out) <= MaxOut /\ i \in Nat
        /\ Len(names) \in Nat /\ Len(readers) \in Nat
    BY DEF IInv, TypeOK
  <1>1. ASSUME LoadName PROVE IInv'
    <2>1. names[i + 1] \in Name
      BY <1>1, <1>t DEF LoadName
    <2>2. readers' \in Seq(Name) /\ Len(readers') = Len(readers) + 1
      BY <1>1, <1>t, <2>1 DEF LoadName
    <2>3. \A k \in 1..i+1 : readers'[k] = names[k]
      BY <1>1, <1>t, <2>1 DEF LoadName, IInv, LoadInv
    <2> QED BY <1>1, <1>t, <2>2, <2>3, ConstantsAssumption
        DEF LoadName, IInv, TypeOK, LoadInv, AllInv, BuildInv
  <1>2. ASSUME LoadEnd PROVE IInv'
    <2>1. TypeOK' /\ LoadInv' /\ AllInv'
      BY <1>2, <1>t, ConstantsAssumption DEF LoadEnd, IInv, TypeOK, LoadInv, AllInv
    <2>2. BuildInv'
      BY <1>2, <1>t DEF LoadEnd, IInv, LoadInv, BuildInv, Built
    <2> QED BY <2>1, <2>2 DEF IInv
  <1>3. ASSUME LoadFails PROVE IInv'
    BY <1>3, <1>t, ConstantsAssumption DEF LoadFails, IInv, TypeOK, LoadInv, AllInv, BuildInv
  <1> QED BY <1>1, <1>2, <1>3

\* Without a name the registry is copied.
LEMMA AllStep == IInv /\ BuildAll => IInv'
  <1> SUFFICES ASSUME IInv, BuildAll PROVE IInv'
    OBVIOUS
  <1>t. /\ out \in Seq(Known) /\ Len(out) <= MaxOut /\ i \in Nat
        /\ Registry \in Seq(Known) /\ Len(Registry) \in Nat /\ Len(out) \in Nat
        /\ readers = <<>> /\ i = Len(out) /\ i <= Len(Registry)
        /\ \A k \in 1..i : out[k] = Registry[k]
        /\ pc = "all" /\ Len(Registry) <= MaxOut /\ MaxOut \in Nat
    BY ConstantsAssumption DEF IInv, TypeOK, AllInv, BuildAll
  <1>1. CASE i < Len(Registry)
    <2>1. out' = Append(out, Registry[i + 1]) /\ i' = i + 1 /\ pc' = pc
          /\ UNCHANGED <<names, readers>>
      BY <1>1, <1>t DEF BuildAll
    <2>2. Registry[i + 1] \in Known
      BY <1>1, <1>t
    <2>3. out' \in Seq(Known) /\ Len(out') = i + 1
      BY <2>1, <2>2, <1>t
    <2>4. \A k \in 1..i+1 : out'[k] = Registry[k]
      BY <2>1, <2>2, <1>t
    <2> QED BY <1>1, <2>1, <2>3, <2>4, <1>t DEF IInv, TypeOK, LoadInv, AllInv, BuildInv
  <1>2. CASE i >= Len(Registry)
    <2>1. pc' = "run" /\ UNCHANGED <<names, readers, out, i>>
      BY <1>2, <1>t DEF BuildAll
    <2>2. out = Registry
      BY <1>2, <1>t
    <2> QED BY <2>1, <2>2, <1>t DEF IInv, TypeOK, LoadInv, AllInv, BuildInv
  <1> QED BY <1>1, <1>2, <1>t

\* One name is resolved: if it is known and new, this is its first mention.
LEMMA OneStep == IInv /\ BuildOne => IInv'
  <1> SUFFICES ASSUME IInv, BuildOne PROVE IInv'
    OBVIOUS
  <1> DEFINE r == readers[i + 1]
  <1>t. /\ readers \in Seq(Name) /\ out \in Seq(Known) /\ i \in Nat
        /\ Len(readers) \in Nat /\ Len(out) \in Nat /\ pc = "build"
        /\ i < Len(readers) /\ Len(readers) <= MaxReaders /\ MaxReaders <= MaxOut
        /\ MaxReaders \in Nat /\ MaxOut \in Nat
        /\ readers # <<>> /\ Built(i) /\ Len(out) <= i
        /\ i' = i + 1 /\ pc' = pc /\ UNCHANGED <<names, readers>>
    BY ConstantsAssumption DEF IInv, TypeOK, BuildInv, BuildOne, Built
  <1>f. registry_find(r) = IF r \in Known THEN {r} ELSE {}
    BY DEF registry_find
  <1>r. Range(out) = {out[a] : a \in 1..Len(out)}
    BY <1>t DEF Range
  <1>p. readers' = readers /\ \A k, x : IsFirst(k, x)' <=> IsFirst(k, x)
    BY <1>t DEF IsFirst
  <1>1. CASE r \notin Known \/ r \in Range(out)
    <2>1. out' = out
      BY <1>1, <1>f, <1>t DEF BuildOne
    <2>2. Built(i)'
      <3>1. \A k \in 1..i+1 : readers[k] \in Known => \E a \in 1..Len(out) : out[a] = readers[k]
        BY <1>1, <1>r, <1>t DEF Built
      <3>2. \A a \in 1..Len(out) : \A k \in 1..i+1 : IsFirst(k, out[a]) => k \in 1..i
        <4> SUFFICES ASSUME NEW a \in 1..Len(out), IsFirst(i + 1, out[a]) PROVE FALSE
          BY <1>t
        <4>1. PICK k \in 1..i : IsFirst(k, out[a])
          BY <1>t DEF Built
        <4> QED BY <4>1, <1>t DEF IsFirst
      <3>3. \A a \in 1..Len(out) : \E k \in 1..i+1 : IsFirst(k, out[a])
        BY <1>t DEF Built
      <3>4. \A a, b \in 1..Len(out) : \A k, l \in 1..i+1 :
               a < b /\ IsFirst(k, out[a]) /\ IsFirst(l, out[b]) => k < l
        BY <3>2, <1>t DEF Built
      <3>5. Len(out) <= i + 1 /\ i' = i + 1
        BY <1>t
      <3> QED BY <2>1, <3>1, <3>3, <3>4, <3>5, <1>p DEF Built
    <2> QED BY <2>1, <2>2, <1>t DEF IInv, TypeOK, LoadInv, AllInv, BuildInv
  <1>2. CASE r \in Known /\ r \notin Range(out)
    <2>1. out' = Append(out, r)
      BY <1>2, <1>f, <1>t DEF BuildOne
    <2>2. /\ out' \in Seq(Known) /\ Len(out') = Len(out) + 1
          /\ out'[Len(out) + 1] = r /\ \A a \in 1..Len(out) : out'[a] = out[a]
      BY <2>1, <1>2, <1>t
    <2>3. IsFirst(i + 1, r)
      <3>1. \A a \in 1..Len(out) : out[a] # r
        BY <1>2, <1>r
      <3>2. \A j \in 1..i : readers[j] \in Known => \E a \in 1..Len(out) : out[a] = readers[j]
        BY <1>t DEF Built
      <3>3. \A j \in 1..i : readers[j] # r
        BY <3>1, <3>2, <1>2
      <3> QED BY <3>3, <1>t, (i + 1) - 1 = i DEF IsFirst
    <2>4. \A k \in 1..i+1 : IsFirst(k, r) => k = i + 1
      BY <2>3, <1>t DEF IsFirst
    <2>5. \A a \in 1..Len(out) : \A k \in 1..i+1 : IsFirst(k, out[a]) => k \in 1..i
      <3> SUFFICES ASSUME NEW a \in 1..Len(out), IsFirst(i + 1, out[a]) PROVE FALSE
        BY <1>t
      <3> QED BY <1>2, <1>r DEF IsFirst
    <2>6. Built(i)'
      <3>1. \A k \in 1..i+1 : readers[k] \in Known => \E a \in 1..Len(out)+1 : out'[a] = readers[k]
        BY <2>2, <1>t DEF Built
      <3>2. \A a \in 1..Len(out)+1 : \E k \in 1..i+1 : IsFirst(k, out'[a])
        BY <2>2, <2>3, <1>t DEF Built
      <3>3. ASSUME NEW a \in 1..Len(out)+1, NEW b \in 1..Len(out)+1,
                   NEW k \in 1..i+1, NEW l \in 1..i+1,
                   a < b, IsFirst(k, out'[a]), IsFirst(l, out'[b])
            PROVE  k < l
        <4>1. a \in 1..Len(out) /\ k \in 1..i /\ IsFirst(k, out[a])
          BY <3>3, <2>2, <2>5, <1>t
        <4>2. CASE b = Len(out) + 1
          BY <4>1, <4>2, <3>3, <2>2, <2>4, <1>t
        <4>3. CASE b \in 1..Len(out)
          BY <4>1, <4>3, <3>3, <2>2, <2>5, <1>t DEF Built
        <4> QED BY <4>2, <4>3, <1>t
      <3>4. \A a, b \in 1..Len(out)+1 : \A k, l \in 1..i+1 :
               a < b /\ IsFirst(k, out'[a]) /\ IsFirst(l, out'[b]) => k < l
        BY <3>3
      <3>5. Len(out') = Len(out) + 1 /\ Len(out') <= i + 1 /\ i' = i + 1
        BY <2>2, <1>t
      <3> QED BY <3>1, <3>2, <3>4, <3>5, <1>p DEF Built
    <2> QED BY <2>2, <2>6, <1>t DEF IInv, TypeOK, LoadInv, AllInv, BuildInv
  <1> QED BY <1>1, <1>2

\* The list is handed to collect_run.
LEMMA EndStep == IInv /\ (BuildEnd \/ Run \/ UNCHANGED vars) => IInv'
  <1> SUFFICES ASSUME IInv, BuildEnd \/ UNCHANGED vars PROVE IInv'
    BY DEF Run
  <1>1. CASE BuildEnd
    <2>1. i = Len(readers) /\ Built(i) /\ pc' = "run" /\ UNCHANGED <<names, readers, out, i>>
      BY <1>1 DEF BuildEnd, IInv, TypeOK, BuildInv
    <2> QED BY <1>1, <2>1 DEF BuildEnd, IInv, TypeOK, LoadInv, AllInv, BuildInv, Built, IsFirst
  <1>2. CASE UNCHANGED vars
    BY <1>2 DEF vars, IInv, TypeOK, LoadInv, AllInv, BuildInv, Built, IsFirst
  <1> QED BY <1>1, <1>2

-----------------------------------------------------------------------------
(* Theorems.                                                               *)

\* IInv is an invariant.
THEOREM Invariant == Spec => []IInv
  <1>1. IInv /\ [Next]_vars => IInv'
    BY LoadStep, AllStep, OneStep, EndStep DEF Next
  <1> QED BY InitInv, <1>1, PTL DEF Spec

\* The tables of config_load and collect_run are never overrun.
THEOREM TypeCorrect == Spec => []TypeOK
  <1>1. IInv => TypeOK
    BY DEF IInv
  <1> QED BY Invariant, <1>1, PTL

\* No reader is enabled twice, whatever the file says.
THEOREM AtMostOnce == Spec => []EnabledOnce
  <1>1. IInv => EnabledOnce
    <2> SUFFICES ASSUME IInv PROVE EnabledOnce
      OBVIOUS
    <2>t. out \in Seq(Known) /\ Len(out) \in Nat /\ DOMAIN out = 1..Len(out)
      BY DEF IInv, TypeOK
    <2>1. ASSUME NEW h \in Nat, Built(h) PROVE IsInjective(out)
      <3> SUFFICES ASSUME NEW a \in 1..Len(out), NEW b \in 1..Len(out), a < b, out[a] = out[b]
                   PROVE  FALSE
        BY <2>t DEF IsInjective
      <3>1. PICK k \in 1..h : IsFirst(k, out[a])
        BY <2>1 DEF Built
      <3> QED BY <2>1, <3>1 DEF Built
    <2>2. CASE pc = "load"
      BY <2>2 DEF IInv, LoadInv, EnabledOnce, IsInjective
    <2>3. CASE pc = "all"
      BY <2>3, <2>t, ConstantsAssumption DEF IInv, AllInv, EnabledOnce, IsInjective
    <2>4. CASE pc = "build"
      BY <2>4, <2>1 DEF IInv, TypeOK, BuildInv, EnabledOnce
    <2>5. CASE pc = "run"
      <3>1. Len(readers) \in Nat
        BY DEF IInv, TypeOK
      <3> QED BY <2>5, <3>1, <2>1, ConstantsAssumption DEF IInv, AllInv, BuildInv, EnabledOnce
    <2> QED BY <2>2, <2>3, <2>4, <2>5 DEF IInv, TypeOK
  <1> QED BY Invariant, <1>1, PTL

\* The readers that run are exactly those the file asks for, in its order.
THEOREM RightList == Spec => []EnabledExact
  <1>1. IInv => EnabledExact
    <2> SUFFICES ASSUME IInv, pc = "run", readers # <<>>
                 PROVE  /\ Range(out) = Known \cap Range(readers)
                        /\ \A a, b \in 1..Len(out) : a < b => First(out[a]) < First(out[b])
                        /\ \A k \in 1..Len(names) : k <= MaxReaders => names[k] \in Range(readers)
      BY DEF IInv, AllInv, EnabledExact
    <2>t. /\ out \in Seq(Known) /\ Len(out) \in Nat /\ readers \in Seq(Name)
          /\ Len(readers) \in Nat
      BY DEF IInv, TypeOK
    <2>b. Built(Len(readers))
      BY DEF IInv, BuildInv
    <2>r. /\ Range(out) = {out[a] : a \in 1..Len(out)}
          /\ Range(readers) = {readers[k] : k \in 1..Len(readers)}
      BY <2>t DEF Range
    <2>1. Range(out) \subseteq Known \cap Range(readers)
      BY <2>t, <2>b, <2>r DEF Built, IsFirst
    <2>2. Known \cap Range(readers) \subseteq Range(out)
      BY <2>t, <2>b, <2>r DEF Built
    <2>3. \A a \in 1..Len(out) : First(out[a]) \in 1..Len(readers) /\ IsFirst(First(out[a]), out[a])
      BY <2>b DEF Built, IsFirst, First
    <2>4. \A a, b \in 1..Len(out) : a < b => First(out[a]) < First(out[b])
      BY <2>b, <2>3 DEF Built
    <2>5. \A k \in 1..Len(names) : k <= MaxReaders => names[k] \in Range(readers)
      BY <2>r DEF IInv, LoadInv
    <2> QED BY <2>1, <2>2, <2>4, <2>5
  <1> QED BY Invariant, <1>1, PTL
=============================================================================
