---------------------------- MODULE ConfigProofs ----------------------------
(***************************************************************************)
(* What the configuration promises, for any number of components, setters, *)
(* loaders, variables and entries of a file.                               *)
(*                                                                         *)
(* DataInv is what the variables and the threads look like; CopyInv is it  *)
(* that a round in progress has told; FileInv follows a load from the note *)
(* of the file's mtime to its last entry.                                  *)
(***************************************************************************)
EXTENDS Config, SequenceFacts

Entries == Seq(Names \X (Values \cup {Bad}))
PCs == {"idle", "file", "read", "apply", "notify", "assign"}

VarsOK ==
  /\ val \in Seq(Values) /\ Len(val) <= MaxVars
  /\ cbs \in Seq(Seq(Comps)) /\ Len(cbs) = Len(val)
  /\ datas \in [Names -> (1..Len(val)) \cup {NoVar}]
  /\ held \in [Comps -> (1..Len(val)) \cup {NoVar}]
  /\ copy \in [Comps -> Values]

FilesOK ==
  /\ file \in [Files -> [holds : Contents, mtime : Nat]]
  /\ modify \in [Files -> Nat]
  /\ now \in Nat
  /\ \A f \in Files : modify[f] <= file[f].mtime /\ file[f].mtime <= now

ThreadsOK ==
  /\ pc \in [Threads -> PCs]
  /\ var \in [Threads -> (1..Len(val)) \cup {NoVar}]
  /\ arg \in [Threads -> Values]
  /\ todo \in [Threads -> Seq(Comps)]
  /\ files \in [Threads -> Seq(Files)]
  /\ rest \in [Threads -> Entries]
  /\ clean \subseteq Threads

(* A component listens to the variable it holds, once, and to no other. *)
ListenersOK ==
  /\ \A x \in 1..Len(val) : IsInjective(cbs[x]) /\ \A i \in DOMAIN cbs[x] : held[cbs[x][i]] = x
  /\ \A c \in Comps : held[c] # NoVar => \E i \in DOMAIN cbs[held[c]] : cbs[held[c]][i] = c

InSet(t) == pc[t] \in {"notify", "assign"}

(* Where a thread is and what it has at hand agree; those still to be told *)
(* hold the variable.                                                      *)
PcOK ==
  \A t \in Threads :
    /\ InSet(t) => var[t] \in 1..Len(val)
    /\ pc[t] = "notify" => /\ todo[t] # <<>>
                           /\ \A i \in DOMAIN todo[t] : held[todo[t][i]] = var[t]
    /\ pc[t] = "assign" => todo[t] = <<>>
    /\ pc[t] = "idle" => files[t] = <<>>
    /\ pc[t] \in {"file", "read", "apply"} => files[t] # <<>>

DataInv == VarsOK /\ FilesOK /\ ThreadsOK /\ ListenersOK /\ PcOK

-----------------------------------------------------------------------------
(* Erasing a listener by its key (delListener) leaves the other ones. *)
Without(c) == RemoveAt(cbs[held[c]], Key(cbs[held[c]], c))

LEMMA EraseListener ==
  ASSUME VarsOK, ListenersOK, NEW c \in Comps, held[c] # NoVar
  PROVE  /\ Without(c) \in Seq(Comps)
         /\ IsInjective(Without(c))
         /\ \A i \in DOMAIN Without(c) : Without(c)[i] # c /\ held[Without(c)[i]] = held[c]
         /\ \A d \in Comps : held[d] = held[c] /\ d # c => \E i \in DOMAIN Without(c) : Without(c)[i] = d
<1> DEFINE l == Without(c)
<1>1. held[c] \in 1..Len(val) /\ cbs[held[c]] \in Seq(Comps)
  BY DEF VarsOK
<1>2. /\ IsInjective(cbs[held[c]])
      /\ \A i \in DOMAIN cbs[held[c]] : held[cbs[held[c]][i]] = held[c]
      /\ \A d \in Comps : held[d] = held[c] => \E i \in DOMAIN cbs[held[c]] : cbs[held[c]][i] = d
  BY <1>1 DEF ListenersOK
<1> DEFINE k == Key(cbs[held[c]], c)
<1>3. k \in DOMAIN cbs[held[c]] /\ cbs[held[c]][k] = c
  BY <1>2 DEF Key
<1> HIDE DEF k
<1>4. /\ l \in Seq(Comps)
      /\ IsInjective(l)
      /\ \A j \in DOMAIN l : l[j] # c /\ \E m \in DOMAIN cbs[held[c]] : l[j] = cbs[held[c]][m]
      /\ \A m \in DOMAIN cbs[held[c]] : m # k => \E j \in DOMAIN l : l[j] = cbs[held[c]][m]
  BY <1>1, <1>2, <1>3, EraseFacts DEF k, Without
<1> HIDE DEF l
<1>5. /\ l \in Seq(Comps)
      /\ IsInjective(l)
      /\ \A i \in DOMAIN l : l[i] # c /\ held[l[i]] = held[c]
      /\ \A d \in Comps : held[d] = held[c] /\ d # c => \E i \in DOMAIN l : l[i] = d
  BY <1>2, <1>3, <1>4
<1> QED
  BY <1>5 DEF l

(***************************************************************************)
(* What a step of LoadFromYaml does, with its entry named.                 *)
(***************************************************************************)
EntryEffects(t, n, v) ==
  /\ pc[t] = "apply"
  /\ rest[t] # <<>> /\ Head(rest[t]) = <<n, v>>
  /\ rest' = [rest EXCEPT ![t] = Tail(@)]
  /\ \/ /\ datas[n] # NoVar /\ v # Bad
        /\ datas[n] \in 1..Len(val) /\ v \in Values
        /\ BeginSet(t, datas[n], v)
        /\ \/ Setting(datas[n]) = {} /\ UNCHANGED <<drifted, clean>>
           \/ Setting(datas[n]) # {} /\ Drift({n})
     \/ (datas[n] = NoVar \/ v = Bad) /\ UNCHANGED <<pc, set, drifted, clean>>
  /\ UNCHANGED <<configVars, fileVars, files, forced, calls, loads, confused>>

LEMMA EntryStep ==
  ASSUME DataInv, NEW t \in Threads, LoadEntry(t)
  PROVE  \E n \in Names, v \in Values \cup {Bad} : EntryEffects(t, n, v)
<1> DEFINE e == Head(rest[t])
<1>1. rest[t] \in Seq(Names \X (Values \cup {Bad})) /\ rest[t] # <<>>
  BY DEF LoadEntry, DataInv, ThreadsOK, Entries
<1>2. e \in Names \X (Values \cup {Bad})
  BY <1>1
<1>3. PICK n \in Names, v \in Values \cup {Bad} : e = <<n, v>>
  BY <1>2
<1>4. e[1] = n /\ e[2] = v
  BY <1>3
<1>5. datas[n] \in (1..Len(val)) \cup {NoVar}
  BY DEF DataInv, VarsOK
<1>6. EntryEffects(t, n, v)
  BY <1>1, <1>3, <1>4, <1>5 DEF EntryEffects, LoadEntry
<1> QED
  BY <1>6

LEMMA VarsStep ==
  ASSUME DataInv, Next
  PROVE  VarsOK'
<1> USE ConfigAssumption DEF DataInv, VarsOK, ThreadsOK, configVars
<1>1. ASSUME NEW c \in Comps, Attach(c) PROVE VarsOK'
  BY <1>1 DEF Attach, Lookup
<1>2. ASSUME NEW c \in Comps, AttachByName(c) PROVE VarsOK'
  BY <1>2 DEF AttachByName
<1>3. ASSUME NEW c \in Comps, Detach(c) PROVE VarsOK'
  <2> DEFINE l == Without(c)
  <2>1. /\ held[c] \in 1..Len(val)
        /\ held' = [held EXCEPT ![c] = NoVar]
        /\ cbs' = [cbs EXCEPT ![held[c]] = l]
        /\ UNCHANGED <<datas, val, copy>>
    BY <1>3 DEF Detach, Without
  <2>2. l \in Seq(Comps)
    BY <1>3, EraseListener DEF Detach
  <2> HIDE DEF l
  <2> QED
    BY <2>1, <2>2
<1>4. ASSUME NEW t \in Threads, setValue(t) PROVE VarsOK'
  BY <1>4 DEF setValue
<1>5. ASSUME NEW t \in Threads, Notify(t) PROVE VarsOK'
  BY <1>5 DEF Notify, PcOK
<1>6. ASSUME NEW t \in Threads, Assign(t) PROVE VarsOK'
  BY SMTT(60), <1>6 DEF Assign, Stored, PcOK, InSet
<1>7. ASSUME NEW t \in Threads, LoadFromConfDir(t) PROVE VarsOK'
  BY <1>7 DEF LoadFromConfDir
<1>8. ASSUME NEW t \in Threads, Skip(t) PROVE VarsOK'
  BY <1>8 DEF Skip
<1>9. ASSUME NEW t \in Threads, Record(t) PROVE VarsOK'
  BY <1>9 DEF Record
<1>10. ASSUME NEW t \in Threads, Read(t) PROVE VarsOK'
  BY <1>10 DEF Read
<1>11. ASSUME NEW t \in Threads, LoadEntry(t) PROVE VarsOK'
  BY <1>11 DEF LoadEntry
<1>12. ASSUME NEW t \in Threads, LoadEnd(t) PROVE VarsOK'
  BY <1>12 DEF LoadEnd
<1>13. ASSUME NEW f \in Files, Edit(f) PROVE VarsOK'
  BY <1>13 DEF Edit
<1>14. CASE Tick
  BY <1>14 DEF Tick
<1> QED
  BY <1>1, <1>2, <1>3, <1>4, <1>5, <1>6, <1>7, <1>8, <1>9, <1>10, <1>11, <1>12, <1>13, <1>14
     DEF Next

LEMMA FilesStep ==
  ASSUME DataInv, Next
  PROVE  FilesOK'
<1> USE ConfigAssumption DEF DataInv, FilesOK, fileVars
<1>1. ASSUME NEW c \in Comps, Attach(c) PROVE FilesOK'
  BY <1>1 DEF Attach
<1>2. ASSUME NEW c \in Comps, AttachByName(c) PROVE FilesOK'
  BY <1>2 DEF AttachByName
<1>3. ASSUME NEW c \in Comps, Detach(c) PROVE FilesOK'
  BY <1>3 DEF Detach
<1>4. ASSUME NEW t \in Threads, setValue(t) PROVE FilesOK'
  BY <1>4 DEF setValue
<1>5. ASSUME NEW t \in Threads, Notify(t) PROVE FilesOK'
  BY <1>5 DEF Notify
<1>6. ASSUME NEW t \in Threads, Assign(t) PROVE FilesOK'
  BY <1>6 DEF Assign, Stored
<1>7. ASSUME NEW t \in Threads, LoadFromConfDir(t) PROVE FilesOK'
  BY <1>7 DEF LoadFromConfDir
<1>8. ASSUME NEW t \in Threads, Skip(t) PROVE FilesOK'
  BY <1>8 DEF Skip
<1>9. ASSUME NEW t \in Threads, Record(t) PROVE FilesOK'
  BY SMTT(60), <1>9 DEF Record, PcOK, ThreadsOK
<1>10. ASSUME NEW t \in Threads, Read(t) PROVE FilesOK'
  BY <1>10 DEF Read
<1>11. ASSUME NEW t \in Threads, LoadEntry(t) PROVE FilesOK'
  BY <1>11 DEF LoadEntry
<1>12. ASSUME NEW t \in Threads, LoadEnd(t) PROVE FilesOK'
  BY <1>12 DEF LoadEnd
<1>13. ASSUME NEW f \in Files, Edit(f) PROVE FilesOK'
  BY <1>13 DEF Edit
<1>14. CASE Tick
  BY <1>14 DEF Tick
<1> QED
  BY <1>1, <1>2, <1>3, <1>4, <1>5, <1>6, <1>7, <1>8, <1>9, <1>10, <1>11, <1>12, <1>13, <1>14
     DEF Next

LEMMA ThreadsStep ==
  ASSUME DataInv, Next
  PROVE  ThreadsOK'
<1> USE ConfigAssumption DEF DataInv, VarsOK, ThreadsOK, configVars, set, load, PCs, Round, history
<1>1. ASSUME NEW c \in Comps, Attach(c) PROVE ThreadsOK'
  BY <1>1 DEF Attach, Lookup, Drift
<1>2. ASSUME NEW c \in Comps, AttachByName(c) PROVE ThreadsOK'
  BY <1>2 DEF AttachByName
<1>3. ASSUME NEW c \in Comps, Detach(c) PROVE ThreadsOK'
  BY <1>3 DEF Detach
<1>4. ASSUME NEW t \in Threads, setValue(t) PROVE ThreadsOK'
  <2>1. PICK c \in Comps, v \in Values :
          held[c] # NoVar /\ BeginSet(t, held[c], v) /\ Drift({Wants[c]})
    BY <1>4 DEF setValue
  <2>2. held[c] \in 1..Len(val) /\ cbs[held[c]] \in Seq(Comps)
    BY <2>1
  <2>3. UNCHANGED <<configVars, load>>
    BY <1>4 DEF setValue
  <2> QED
    BY ZenonT(60), <2>1, <2>2, <2>3 DEF BeginSet, Drift
<1>5. ASSUME NEW t \in Threads, Notify(t) PROVE ThreadsOK'
  <2>1. todo[t] \in Seq(Comps) /\ todo[t] # <<>>
    BY <1>5 DEF Notify, PcOK
  <2>2. Tail(todo[t]) \in Seq(Comps)
    BY <2>1
  <2>3. CASE arg[t] \in Refuses[Head(todo[t])]
    <3>1. After(t) /\ Drift({Wants[Head(todo[t])]}) /\ UNCHANGED <<datas, val, cbs, held>>
      BY <1>5, <2>3 DEF Notify
    <3> QED
      BY <3>1 DEF After, Drift
  <2>4. CASE arg[t] \notin Refuses[Head(todo[t])]
    BY ZenonT(60), <1>5, <2>2, <2>4 DEF Notify
  <2> QED
    BY <2>3, <2>4
<1>6. ASSUME NEW t \in Threads, Assign(t) PROVE ThreadsOK'
  BY SMTT(60), <1>6 DEF Assign, Stored, After
<1>7. ASSUME NEW t \in Threads, LoadFromConfDir(t) PROVE ThreadsOK'
  BY <1>7 DEF LoadFromConfDir, Drift
<1>8. ASSUME NEW t \in Threads, Skip(t) PROVE ThreadsOK'
  BY SMTT(60), <1>8 DEF Skip, NextFile, PcOK
<1>9. ASSUME NEW t \in Threads, Record(t) PROVE ThreadsOK'
  BY <1>9 DEF Record
<1>10. ASSUME NEW t \in Threads, Read(t) PROVE ThreadsOK'
  <2>1. Head(files[t]) \in Files
    BY <1>10 DEF Read, PcOK
  <2>2. file[Head(files[t])].holds \in Contents
    BY <2>1 DEF FilesOK
  <2>3. (IF file[Head(files[t])].holds = Bad THEN <<>> ELSE file[Head(files[t])].holds) \in Entries
    BY SMTT(60), <2>2 DEF Entries
  <2> QED
    BY <1>10, <2>3 DEF Read
<1>11. ASSUME NEW t \in Threads, LoadEntry(t) PROVE ThreadsOK'
  <2>1. PICK n \in Names, v \in Values \cup {Bad} : EntryEffects(t, n, v)
    BY <1>11, EntryStep
  <2>2. Tail(rest[t]) \in Entries
    BY <2>1 DEF EntryEffects, Entries
  <2>3. datas[n] \in 1..Len(val) => cbs[datas[n]] \in Seq(Comps)
    OBVIOUS
  <2> QED
    BY ZenonT(60), <2>1, <2>2, <2>3 DEF EntryEffects, BeginSet, Drift
<1>12. ASSUME NEW t \in Threads, LoadEnd(t) PROVE ThreadsOK'
  BY SMTT(60), <1>12 DEF LoadEnd, NextFile, PcOK
<1>13. ASSUME NEW f \in Files, Edit(f) PROVE ThreadsOK'
  BY <1>13 DEF Edit, Drift
<1>14. CASE Tick
  BY <1>14 DEF Tick
<1> QED
  BY <1>1, <1>2, <1>3, <1>4, <1>5, <1>6, <1>7, <1>8, <1>9, <1>10, <1>11, <1>12, <1>13, <1>14
     DEF Next

LEMMA ListenersStep ==
  ASSUME DataInv, Next
  PROVE  ListenersOK'
<1> USE ConfigAssumption DEF DataInv, VarsOK, ListenersOK, configVars
<1>1. ASSUME NEW c \in Comps, Attach(c) PROVE ListenersOK'
  <2>1. /\ held[c] = NoVar /\ held' = [held EXCEPT ![c] = Len(val) + 1]
        /\ cbs' = Append(cbs, <<c>>) /\ Len(val') = Len(val) + 1
        /\ Len(val) + 1 # NoVar
    BY <1>1 DEF Attach, Lookup, Vars
  <2>2. ASSUME NEW x \in 1..Len(val')
        PROVE  IsInjective(cbs'[x]) /\ \A i \in DOMAIN cbs'[x] : held'[cbs'[x][i]] = x
    <3>1. CASE x = Len(val) + 1
      <4>1. cbs'[x] = <<c>>
        BY <2>1, <3>1
      <4> QED
        BY <2>1, <3>1, <4>1 DEF IsInjective
    <3>2. CASE x # Len(val) + 1
      <4>1. x \in 1..Len(val) /\ cbs'[x] = cbs[x]
        BY <2>1, <2>2, <3>2
      <4>2. \A i \in DOMAIN cbs[x] : cbs[x][i] \in Comps /\ cbs[x][i] # c
        BY SMTT(60), <2>1, <4>1 DEF Vars
      <4> QED
        BY SMTT(60), <2>1, <4>1, <4>2
    <3> QED
      BY <3>1, <3>2
  <2>3. ASSUME NEW d \in Comps, held'[d] # NoVar
        PROVE  \E i \in DOMAIN cbs'[held'[d]] : cbs'[held'[d]][i] = d
    <3>1. CASE d = c
      <4>1. held'[d] = Len(val) + 1 /\ cbs'[Len(val) + 1] = <<c>>
        BY <2>1, <2>2, <3>1
      <4>2. 1 \in DOMAIN <<c>> /\ <<c>>[1] = d
        BY <3>1
      <4> QED
        BY <4>1, <4>2
    <3>2. CASE d # c
      <4>1. held'[d] = held[d] /\ held[d] \in 1..Len(val)
        BY <2>1, <2>3, <3>2
      <4>2. cbs'[held[d]] = cbs[held[d]]
        BY <2>1, <4>1
      <4> QED
        BY <2>3, <4>1, <4>2
    <3> QED
      BY <3>1, <3>2
  <2> QED
    BY <2>2, <2>3
<1>2. ASSUME NEW c \in Comps, AttachByName(c) PROVE ListenersOK'
  <2> DEFINE x == datas[Wants[c]]
  <2>1. /\ held[c] = NoVar /\ x \in 1..Len(val) /\ x # NoVar
        /\ held' = [held EXCEPT ![c] = x]
        /\ cbs' = [cbs EXCEPT ![x] = Append(@, c)] /\ val' = val
    BY <1>2 DEF AttachByName
  <2> HIDE DEF x
  <2>2. \A y \in 1..Len(val) : \A i \in DOMAIN cbs[y] : cbs[y][i] \in Comps /\ cbs[y][i] # c
    BY SMTT(60), <2>1 DEF Vars
  <2>3. ASSUME NEW y \in 1..Len(val')
        PROVE  IsInjective(cbs'[y]) /\ \A i \in DOMAIN cbs'[y] : held'[cbs'[y][i]] = y
    <3>1. CASE y = x
      <4>1. cbs'[y] = Append(cbs[x], c) /\ cbs[x] \in Seq(Comps)
        BY <2>1, <3>1
      <4> QED
        <5>1. \A i \in DOMAIN cbs[x] : cbs[x][i] # c /\ cbs[x][i] \in Comps /\ held[cbs[x][i]] = x
          BY <2>1, <2>2
        <5>2. IsInjective(cbs'[y])
          <6>1. c \in Comps /\ cbs[x] \in Seq(Comps) /\ IsInjective(cbs[x])
            BY <2>1
          <6>2. IsInjective(Append(cbs[x], c))
            BY <5>1, <6>1, AppendFresh
          <6> QED
            BY <4>1, <6>2
        <5>3. \A i \in DOMAIN Append(cbs[x], c) : held'[Append(cbs[x], c)[i]] = x
          BY SMTT(60), <2>1, <4>1, <5>1
        <5> QED
          BY <3>1, <4>1, <5>2, <5>3
    <3>2. CASE y # x
      BY SMTT(60), <2>1, <2>2, <2>3, <3>2
    <3> QED
      BY <3>1, <3>2
  <2>4. ASSUME NEW d \in Comps, held'[d] # NoVar
        PROVE  \E i \in DOMAIN cbs'[held'[d]] : cbs'[held'[d]][i] = d
    <3>1. cbs[x] \in Seq(Comps) /\ cbs'[x] = Append(cbs[x], c)
      BY SMTT(60), <2>1
    <3>2. CASE d = c
      <4>1. Len(cbs[x]) + 1 \in DOMAIN cbs'[x] /\ cbs'[x][Len(cbs[x]) + 1] = c
        BY SMTT(60), <3>1
      <4>2. held'[d] = x
        BY <2>1, <3>2
      <4> QED
        BY <3>2, <4>1, <4>2
    <3>3. CASE d # c
      <4>1. held'[d] = held[d] /\ held[d] \in 1..Len(val)
        BY <2>1, <2>4, <3>3
      <4>2. PICK i \in DOMAIN cbs[held[d]] : cbs[held[d]][i] = d
        BY <2>4, <4>1
      <4>3. i \in DOMAIN cbs'[held[d]] /\ cbs'[held[d]][i] = d
        BY SMTT(60), <2>1, <3>1, <4>1, <4>2
      <4> QED
        BY <4>1, <4>3
    <3> QED
      BY <3>2, <3>3
  <2> QED
    BY <2>3, <2>4
<1>3. ASSUME NEW c \in Comps, Detach(c) PROVE ListenersOK'
  <2> DEFINE l == Without(c)
  <2>1. /\ held[c] # NoVar /\ held[c] \in 1..Len(val)
        /\ held' = [held EXCEPT ![c] = NoVar]
        /\ cbs' = [cbs EXCEPT ![held[c]] = l]
        /\ UNCHANGED <<datas, val, copy>>
    BY <1>3 DEF Detach, Without
  <2>2. /\ l \in Seq(Comps)
        /\ IsInjective(l)
        /\ \A i \in DOMAIN l : l[i] # c /\ held[l[i]] = held[c]
        /\ \A d \in Comps : held[d] = held[c] /\ d # c => \E i \in DOMAIN l : l[i] = d
    <3>1. VarsOK /\ ListenersOK
      OBVIOUS
    <3> HIDE DEF VarsOK, ListenersOK
    <3> QED
      BY <2>1, <3>1, EraseListener
  <2> HIDE DEF l
  <2>3. ASSUME NEW y \in 1..Len(val')
        PROVE  IsInjective(cbs'[y]) /\ \A i \in DOMAIN cbs'[y] : held'[cbs'[y][i]] = y
    <3>1. CASE y = held[c]
      BY SMTT(60), <2>1, <2>2, <3>1
    <3>2. CASE y # held[c]
      <4>1. cbs'[y] = cbs[y] /\ \A i \in DOMAIN cbs[y] : cbs[y][i] \in Comps /\ cbs[y][i] # c
        BY SMTT(60), <2>1, <2>3, <3>2
      <4> QED
        BY SMTT(60), <2>1, <2>3, <4>1
    <3> QED
      BY <3>1, <3>2
  <2>4. ASSUME NEW d \in Comps, held'[d] # NoVar
        PROVE  \E i \in DOMAIN cbs'[held'[d]] : cbs'[held'[d]][i] = d
    <3>1. d # c /\ held'[d] = held[d] /\ held[d] \in 1..Len(val) /\ held[d] # NoVar
      BY <2>1, <2>4
    <3>2. CASE held[d] = held[c]
      BY <2>1, <2>2, <3>1, <3>2
    <3>3. CASE held[d] # held[c]
      <4>1. cbs'[held[d]] = cbs[held[d]]
        BY <2>1, <3>1, <3>3
      <4> QED
        BY <3>1, <4>1
    <3> QED
      BY <3>2, <3>3
  <2> QED
    BY <2>3, <2>4
<1>4. ASSUME NEW t \in Threads, setValue(t) PROVE ListenersOK'
  BY <1>4 DEF setValue
<1>5. ASSUME NEW t \in Threads, Notify(t) PROVE ListenersOK'
  BY <1>5 DEF Notify
<1>6. ASSUME NEW t \in Threads, Assign(t) PROVE ListenersOK'
  <2>1. Len(val') = Len(val) /\ UNCHANGED <<cbs, held>>
    BY <1>6 DEF Assign, Stored
  <2> QED
    BY <2>1
<1>7. ASSUME NEW t \in Threads, LoadFromConfDir(t) PROVE ListenersOK'
  BY <1>7 DEF LoadFromConfDir
<1>8. ASSUME NEW t \in Threads, Skip(t) PROVE ListenersOK'
  BY <1>8 DEF Skip
<1>9. ASSUME NEW t \in Threads, Record(t) PROVE ListenersOK'
  BY <1>9 DEF Record
<1>10. ASSUME NEW t \in Threads, Read(t) PROVE ListenersOK'
  BY <1>10 DEF Read
<1>11. ASSUME NEW t \in Threads, LoadEntry(t) PROVE ListenersOK'
  BY <1>11 DEF LoadEntry
<1>12. ASSUME NEW t \in Threads, LoadEnd(t) PROVE ListenersOK'
  BY <1>12 DEF LoadEnd
<1>13. ASSUME NEW f \in Files, Edit(f) PROVE ListenersOK'
  BY <1>13 DEF Edit
<1>14. CASE Tick
  BY <1>14 DEF Tick
<1> QED
  BY <1>1, <1>2, <1>3, <1>4, <1>5, <1>6, <1>7, <1>8, <1>9, <1>10, <1>11, <1>12, <1>13, <1>14
     DEF Next

LEMMA PcStep ==
  ASSUME DataInv, Next
  PROVE  PcOK'
<1> USE ConfigAssumption DEF DataInv, VarsOK, ThreadsOK, PcOK, InSet, configVars, set, load, PCs, Round
<1>1. ASSUME NEW c \in Comps, Attach(c) PROVE PcOK'
  <2>1. /\ held[c] = NoVar /\ held' = [held EXCEPT ![c] = Len(val) + 1]
        /\ Len(val') = Len(val) + 1 /\ UNCHANGED <<pc, set, load>>
    BY <1>1 DEF Attach, Lookup
  <2>2. ASSUME NEW t \in Threads, pc[t] = "notify", NEW i \in DOMAIN todo[t]
        PROVE  held'[todo[t][i]] = var[t]
    <3>1. todo[t][i] \in Comps /\ held[todo[t][i]] # NoVar
      BY <2>2 DEF Vars
    <3> QED
      BY <2>1, <2>2, <3>1
  <2> QED
    BY <2>1, <2>2
<1>2. ASSUME NEW c \in Comps, AttachByName(c) PROVE PcOK'
  <2>1. /\ held[c] = NoVar /\ held' = [held EXCEPT ![c] = datas[Wants[c]]]
        /\ UNCHANGED <<val, pc, var, arg, todo, load>>
    BY <1>2 DEF AttachByName
  <2>2. ASSUME NEW t \in Threads, pc[t] = "notify", NEW i \in DOMAIN todo[t]
        PROVE  held'[todo[t][i]] = var[t]
    <3>1. todo[t][i] \in Comps /\ held[todo[t][i]] # NoVar
      BY <2>2 DEF Vars
    <3> QED
      BY <2>1, <2>2, <3>1
  <2> QED
    BY <2>1, <2>2
<1>3. ASSUME NEW c \in Comps, Detach(c) PROVE PcOK'
  <2>1. /\ held' = [held EXCEPT ![c] = NoVar] /\ Notifying(held[c]) = {}
        /\ UNCHANGED <<val, pc, set, load>>
    BY <1>3 DEF Detach
  <2>2. ASSUME NEW t \in Threads, pc[t] = "notify", NEW i \in DOMAIN todo[t]
        PROVE  held'[todo[t][i]] = var[t]
    <3>1. todo[t][i] \in Comps /\ todo[t][i] # c
      BY <2>1, <2>2 DEF Notifying, Setting
    <3> QED
      BY <2>1, <2>2, <3>1
  <2> QED
    BY <2>1, <2>2
<1>4. ASSUME NEW t \in Threads, setValue(t) PROVE PcOK'
  <2>1. PICK c \in Comps, v \in Values : held[c] # NoVar /\ BeginSet(t, held[c], v)
    BY <1>4 DEF setValue
  <2>2. held[c] \in 1..Len(val) /\ cbs[held[c]] \in Seq(Comps)
    BY <2>1
  <2>3. pc[t] = "idle" /\ UNCHANGED <<configVars, load>>
    BY <1>4 DEF setValue
  <2>4. CASE v = val[held[c]]
    BY <2>1, <2>3, <2>4 DEF BeginSet
  <2>5. CASE v # val[held[c]]
    <3>1. /\ pc' = [pc EXCEPT ![t] = Round(cbs[held[c]])]
          /\ var' = [var EXCEPT ![t] = held[c]]
          /\ todo' = [todo EXCEPT ![t] = cbs[held[c]]]
      BY <2>1, <2>5 DEF BeginSet
    <3>2. \A i \in DOMAIN cbs[held[c]] : held[cbs[held[c]][i]] = held[c]
      BY <2>2 DEF ListenersOK
    <3> QED
      BY ZenonT(60), <2>2, <2>3, <3>1, <3>2
  <2> QED
    BY <2>4, <2>5
<1>5. ASSUME NEW t \in Threads, Notify(t) PROVE PcOK'
  <2>1. /\ todo[t] \in Seq(Comps) /\ todo[t] # <<>> /\ pc[t] = "notify"
        /\ UNCHANGED <<val, held, load>>
    BY <1>5 DEF Notify, After
  <2>2. /\ Tail(todo[t]) \in Seq(Comps)
        /\ \A i \in DOMAIN Tail(todo[t]) : held[Tail(todo[t])[i]] = var[t]
    BY SMTT(60), <2>1
  <2>3. CASE arg[t] \in Refuses[Head(todo[t])]
    <3>1. After(t)
      BY <1>5, <2>3 DEF Notify
    <3> QED
      BY ZenonT(60), <2>1, <3>1 DEF After
  <2>4. CASE arg[t] \notin Refuses[Head(todo[t])]
    <3>1. /\ pc' = [pc EXCEPT ![t] = Round(Tail(todo[t]))]
          /\ todo' = [todo EXCEPT ![t] = Tail(@)] /\ var' = var
      BY <1>5, <2>4 DEF Notify
    <3> QED
      BY ZenonT(60), <2>1, <2>2, <3>1
  <2> QED
    BY <2>3, <2>4
<1>6. ASSUME NEW t \in Threads, Assign(t) PROVE PcOK'
  <2>1. Len(val') = Len(val) /\ held' = held /\ After(t)
    BY <1>6 DEF Assign, Stored
  <2> QED
    BY SMTT(60), <2>1 DEF After
<1>7. ASSUME NEW t \in Threads, LoadFromConfDir(t) PROVE PcOK'
  BY <1>7 DEF LoadFromConfDir
<1>8. ASSUME NEW t \in Threads, Skip(t) PROVE PcOK'
  <2>1. files[t] \in Seq(Files) /\ files[t] # <<>>
    BY <1>8 DEF Skip
  <2>2. IF Len(files[t]) = 1 THEN Tail(files[t]) = <<>> ELSE Tail(files[t]) # <<>>
    BY <2>1, TailFacts
  <2> QED
    BY <1>8, <2>2 DEF Skip, NextFile
<1>9. ASSUME NEW t \in Threads, Record(t) PROVE PcOK'
  BY <1>9 DEF Record
<1>10. ASSUME NEW t \in Threads, Read(t) PROVE PcOK'
  BY <1>10 DEF Read
<1>11. ASSUME NEW t \in Threads, LoadEntry(t) PROVE PcOK'
  <2>1. PICK n \in Names, v \in Values \cup {Bad} : EntryEffects(t, n, v)
    BY <1>11, EntryStep
  <2>2. pc[t] = "apply" /\ UNCHANGED <<configVars, files>>
    BY <2>1 DEF EntryEffects
  <2>3. CASE datas[n] \in 1..Len(val) /\ BeginSet(t, datas[n], v)
    <3>1. cbs[datas[n]] \in Seq(Comps)
      BY <2>3
    <3>2. CASE v = val[datas[n]]
      BY SMTT(60), <2>2, <2>3, <3>2 DEF BeginSet
    <3>3. CASE v # val[datas[n]]
      <4>1. /\ pc' = [pc EXCEPT ![t] = Round(cbs[datas[n]])]
            /\ var' = [var EXCEPT ![t] = datas[n]]
            /\ todo' = [todo EXCEPT ![t] = cbs[datas[n]]]
        BY <2>3, <3>3 DEF BeginSet
      <4>2. \A i \in DOMAIN cbs[datas[n]] : held[cbs[datas[n]][i]] = datas[n]
        BY <2>3 DEF ListenersOK
      <4> QED
        BY ZenonT(60), <2>2, <2>3, <3>1, <4>1, <4>2
    <3> QED
      BY <3>2, <3>3
  <2>4. CASE UNCHANGED <<pc, set>>
    BY <2>2, <2>4
  <2> QED
    BY <2>1, <2>3, <2>4 DEF EntryEffects
<1>12. ASSUME NEW t \in Threads, LoadEnd(t) PROVE PcOK'
  <2>1. files[t] \in Seq(Files) /\ files[t] # <<>>
    BY <1>12 DEF LoadEnd
  <2>2. IF Len(files[t]) = 1 THEN Tail(files[t]) = <<>> ELSE Tail(files[t]) # <<>>
    BY <2>1, TailFacts
  <2> QED
    BY <1>12, <2>2 DEF LoadEnd, NextFile
<1>13. ASSUME NEW f \in Files, Edit(f) PROVE PcOK'
  BY <1>13 DEF Edit
<1>14. CASE Tick
  BY <1>14 DEF Tick
<1> QED
  BY <1>1, <1>2, <1>3, <1>4, <1>5, <1>6, <1>7, <1>8, <1>9, <1>10, <1>11, <1>12, <1>13, <1>14
     DEF Next

LEMMA DataInit == Init => DataInv
<1> SUFFICES ASSUME Init PROVE DataInv
  OBVIOUS
<1> USE ConfigAssumption DEF Init
<1>1. VarsOK
  BY DEF VarsOK
<1>2. FilesOK
  <2>1. file \in [Files -> [holds : Contents, mtime : {1}]]
    OBVIOUS
  <2> QED
    BY <2>1 DEF FilesOK
<1>3. ThreadsOK
  BY DEF ThreadsOK, PCs, Entries
<1>4. ListenersOK
  BY DEF ListenersOK
<1>5. PcOK
  BY DEF PcOK, InSet
<1> QED
  BY <1>1, <1>2, <1>3, <1>4, <1>5 DEF DataInv

LEMMA DataNext == DataInv /\ [Next]_vars => DataInv'
<1> SUFFICES ASSUME DataInv, [Next]_vars PROVE DataInv'
  OBVIOUS
<1>1. CASE Next
  BY <1>1, VarsStep, FilesStep, ThreadsStep, ListenersStep, PcStep DEF DataInv
<1>2. CASE UNCHANGED vars
  BY <1>2 DEF vars, configVars, fileVars, set, load, history, DataInv, VarsOK, FilesOK,
              ThreadsOK, ListenersOK, PcOK, InSet
<1> QED
  BY <1>1, <1>2

THEOREM DataCorrect == Spec => []DataInv
  BY DataInit, DataNext, PTL DEF Spec

(***************************************************************************)
(* Types; a component's listener is in cbs_ of the variable it holds and   *)
(* in no other's.                                                          *)
(***************************************************************************)
THEOREM TypeCorrect == Spec => []TypeOK
<1>1. DataInv => TypeOK
  <2> SUFFICES ASSUME DataInv PROVE TypeOK
    OBVIOUS
  <2> USE ConfigAssumption DEF DataInv
  <2>1. DOMAIN val = 1..Len(val)
    BY DEF VarsOK
  <2>2. ASSUME NEW x \in 1..Len(val), NEW c \in Comps
        PROVE  c \in ToSet(cbs[x]) <=> held[c] = x
    <3>1. x # NoVar
      BY DEF VarsOK, Vars
    <3>2. (\E i \in DOMAIN cbs[x] : cbs[x][i] = c) <=> held[c] = x
      BY <2>2, <3>1 DEF ListenersOK
    <3> QED
      BY <3>2 DEF ToSet
  <2> QED
    BY <2>1, <2>2 DEF TypeOK, VarsOK, FilesOK, ThreadsOK, PCs
<1> QED
  BY <1>1, DataCorrect, PTL

-----------------------------------------------------------------------------
AloneInv ==
  /\ alone \subseteq Threads
  /\ \A t \in alone :
       /\ InSet(t)
       /\ \A u \in Setting(var[t]) : u = t
       /\ \A c \in Comps : held[c] = var[t] =>
            (\E i \in DOMAIN todo[t] : todo[t][i] = c) \/ copy[c] = arg[t]

CopyInv == AloneInv /\ ChangeIsReal /\ CopyFollows

(* Steps that no setValue takes part in. *)
LEMMA CopyFrame ==
  ASSUME CopyInv, UNCHANGED <<configVars, set, confused>>,
         \A t \in Threads : pc'[t] = pc[t] \/ (~InSet(t) /\ ~InSet(t)')
  PROVE  CopyInv'
<1> USE DEF InSet
<1>1. \A x : Setting(x)' = Setting(x)
  BY DEF Setting, set
<1>2. AloneInv'
  BY <1>1 DEF CopyInv, AloneInv, set, configVars
<1>3. ChangeIsReal'
  BY DEF CopyInv, ChangeIsReal, set, configVars
<1>4. CopyFollows'
  BY <1>1 DEF CopyInv, CopyFollows, set, configVars
<1> QED
  BY <1>2, <1>3, <1>4 DEF CopyInv

(* The first half of setValue. *)
LEMMA CopyBegin ==
  ASSUME DataInv, CopyInv, NEW t \in Threads, pc[t] \in {"idle", "apply"},
         NEW x \in 1..Len(val), NEW v \in Values, BeginSet(t, x, v),
         UNCHANGED <<configVars, confused>>
  PROVE  CopyInv'
<1>1. CASE v = val[x]
  <2>1. UNCHANGED <<pc, set>>
    BY <1>1 DEF BeginSet
  <2> QED
    BY <2>1, CopyFrame
<1>2. CASE v # val[x]
  <2>1. /\ pc' = [pc EXCEPT ![t] = Round(cbs[x])]
        /\ var' = [var EXCEPT ![t] = x]
        /\ arg' = [arg EXCEPT ![t] = v]
        /\ todo' = [todo EXCEPT ![t] = cbs[x]]
        /\ alone' = IF Setting(x) = {} THEN alone \cup {t} ELSE alone \ Setting(x)
        /\ UNCHANGED <<datas, val, cbs, held, copy, confused>>
    BY <1>2 DEF BeginSet, configVars
  <2>2. /\ Round(cbs[x]) \in {"notify", "assign"} /\ ~InSet(t)
        /\ pc \in [Threads -> PCs] /\ var \in [Threads -> (1..Len(val)) \cup {NoVar}]
        /\ arg \in [Threads -> Values] /\ todo \in [Threads -> Seq(Comps)]
    BY DEF Round, InSet, DataInv, ThreadsOK
  <2>3. \A y : Setting(y)' = IF y = x THEN Setting(y) \cup {t} ELSE Setting(y)
    BY <2>1, <2>2 DEF Setting, InSet
  <2>4. AloneInv'
    <3>1. alone \subseteq Threads /\ t \notin alone
      BY <2>2 DEF CopyInv, AloneInv
    <3>2. ASSUME NEW u \in alone', u # t
          PROVE  /\ InSet(u)'
                 /\ \A w \in Setting(var[u])' : w = u
                 /\ \A c \in Comps : held'[c] = var'[u] =>
                      (\E i \in DOMAIN todo'[u] : todo'[u][i] = c) \/ copy'[c] = arg'[u]
      <4>1. /\ u \in alone /\ u \notin Setting(x) /\ InSet(u)
            /\ \A w \in Setting(var[u]) : w = u
            /\ \A c \in Comps : held[c] = var[u] =>
                 (\E i \in DOMAIN todo[u] : todo[u][i] = c) \/ copy[c] = arg[u]
        BY <2>1, <3>1, <3>2 DEF CopyInv, AloneInv
      <4>2. var[u] # x
        BY <3>1, <4>1 DEF Setting, InSet
      <4>3. pc'[u] = pc[u] /\ var'[u] = var[u] /\ todo'[u] = todo[u] /\ arg'[u] = arg[u]
        BY <2>1, <2>2, <3>1, <3>2, <4>1
      <4> QED
        BY <2>1, <2>3, <4>1, <4>2, <4>3 DEF InSet
    <3>3. ASSUME t \in alone'
          PROVE  /\ InSet(t)'
                 /\ \A w \in Setting(var[t])' : w = t
                 /\ \A c \in Comps : held'[c] = var'[t] =>
                      (\E i \in DOMAIN todo'[t] : todo'[t][i] = c) \/ copy'[c] = arg'[t]
      <4>1. Setting(x) = {}
        BY <2>1, <3>1, <3>3
      <4>2. pc'[t] = Round(cbs[x]) /\ var'[t] = x /\ todo'[t] = cbs[x]
        BY <2>1, <2>2
      <4>3. \A c \in Comps : held[c] = x => \E i \in DOMAIN cbs[x] : cbs[x][i] = c
        <5>1. x # NoVar
          BY ConfigAssumption DEF DataInv, VarsOK, Vars
        <5> QED
          BY <5>1 DEF DataInv, ListenersOK
      <4>4. InSet(t)' /\ \A w \in Setting(var[t])' : w = t
        BY <2>2, <2>3, <4>1, <4>2 DEF InSet
      <4> QED
        BY <2>1, <4>2, <4>3, <4>4
    <3>4. alone' \subseteq Threads
      BY <2>1, <3>1
    <3> QED
      BY <3>2, <3>3, <3>4 DEF AloneInv
  <2>5. ChangeIsReal'
    <3>1. ASSUME NEW u \in Threads, pc'[u] = "notify" PROVE val'[var'[u]] # arg'[u]
      <4>1. CASE u = t
        BY <1>2, <2>1, <2>2, <4>1
      <4>2. CASE u # t
        BY <2>1, <2>2, <3>1, <4>2 DEF CopyInv, ChangeIsReal
      <4> QED
        BY <4>1, <4>2
    <3> QED
      BY <3>1 DEF ChangeIsReal
  <2>6. CopyFollows'
    BY <2>1, <2>3 DEF CopyInv, CopyFollows
  <2> QED
    BY <2>4, <2>5, <2>6 DEF CopyInv
<1> QED
  BY <1>1, <1>2

(* setValue ends: a listener threw, or the value is stored. *)
LEMMA AfterSetting ==
  ASSUME DataInv, NEW t \in Threads, After(t)
  PROVE  /\ \A y : Setting(y)' = Setting(y) \ {t}
         /\ alone' = alone \ {t}
         /\ \A u \in Threads \ {t} : /\ pc'[u] = pc[u] /\ var'[u] = var[u]
                                     /\ arg'[u] = arg[u] /\ todo'[u] = todo[u]
         /\ pc'[t] \in {"idle", "apply"}
<1>1. /\ pc \in [Threads -> PCs] /\ var \in [Threads -> (1..Len(val)) \cup {NoVar}]
      /\ arg \in [Threads -> Values] /\ todo \in [Threads -> Seq(Comps)]
  BY DEF DataInv, ThreadsOK
<1>2. /\ alone' = alone \ {t}
      /\ \A u \in Threads \ {t} : /\ pc'[u] = pc[u] /\ var'[u] = var[u]
                                  /\ arg'[u] = arg[u] /\ todo'[u] = todo[u]
      /\ pc'[t] \in {"idle", "apply"}
  BY <1>1 DEF After
<1>3. \A y : Setting(y)' = Setting(y) \ {t}
  BY <1>2 DEF Setting
<1> QED
  BY <1>2, <1>3

LEMMA CopyNext == DataInv /\ CopyInv /\ [Next]_vars => CopyInv'
<1> SUFFICES ASSUME DataInv, CopyInv, [Next]_vars PROVE CopyInv'
  OBVIOUS
<1>0. /\ pc \in [Threads -> PCs] /\ var \in [Threads -> (1..Len(val)) \cup {NoVar}]
      /\ arg \in [Threads -> Values] /\ todo \in [Threads -> Seq(Comps)]
      /\ val \in Seq(Values) /\ Len(val) <= MaxVars /\ MaxVars \in Nat
      /\ held \in [Comps -> (1..Len(val)) \cup {NoVar}] /\ copy \in [Comps -> Values]
      /\ \A t \in Threads : InSet(t) => var[t] \in 1..Len(val)
      /\ NoVar \notin 1..MaxVars
  BY ConfigAssumption DEF DataInv, VarsOK, ThreadsOK, PcOK, Vars
<1>1. ASSUME NEW c \in Comps, Attach(c) PROVE CopyInv'
  <2>1. /\ Len(val) + 1 <= MaxVars
        /\ val' = Append(val, Default)
        /\ held' = [held EXCEPT ![c] = Len(val) + 1]
        /\ copy' = [copy EXCEPT ![c] = Default]
        /\ UNCHANGED <<pc, var, arg, todo, alone, confused>>
    BY <1>0, <1>1 DEF Attach, Lookup, set
  <2>2. /\ \A x \in 1..Len(val) : val'[x] = val[x]
        /\ val'[Len(val) + 1] = Default
    BY <1>0, <2>1
  <2>3. \A y : Setting(y)' = Setting(y)
    BY <2>1 DEF Setting
  <2>4. AloneInv'
    <3>1. ASSUME NEW u \in alone'
          PROVE  /\ u \in Threads /\ InSet(u)
                 /\ \A w \in Setting(var[u]) : w = u
                 /\ \A d \in Comps : held'[d] = var[u] =>
                      (\E i \in DOMAIN todo[u] : todo[u][i] = d) \/ copy'[d] = arg[u]
      <4>1. /\ u \in Threads /\ u \in alone /\ InSet(u)
            /\ \A w \in Setting(var[u]) : w = u
            /\ \A d \in Comps : held[d] = var[u] =>
                 (\E i \in DOMAIN todo[u] : todo[u][i] = d) \/ copy[d] = arg[u]
        BY <2>1 DEF CopyInv, AloneInv
      <4>2. \A d \in Comps : held'[d] = var[u] => held[d] = var[u] /\ copy'[d] = copy[d]
        BY <1>0, <2>1, <4>1
      <4> QED
        BY <4>1, <4>2
    <3>2. UNCHANGED <<pc, var, arg, todo, alone>>
      BY <2>1
    <3> QED
      BY <2>3, <3>1, <3>2 DEF AloneInv, InSet
  <2>5. ChangeIsReal'
    BY <1>0, <2>1, <2>2 DEF CopyInv, ChangeIsReal, InSet
  <2>6. CopyFollows'
    BY <1>0, <2>1, <2>2, <2>3 DEF CopyInv, CopyFollows
  <2> QED
    BY <2>4, <2>5, <2>6 DEF CopyInv
<1>2. ASSUME NEW c \in Comps, AttachByName(c) PROVE CopyInv'
  <2> DEFINE x == datas[Wants[c]]
  <2>1. /\ held' = [held EXCEPT ![c] = x]
        /\ copy' = [copy EXCEPT ![c] = val[x]]
        /\ alone' = alone \ Setting(x)
        /\ UNCHANGED <<val, pc, var, arg, todo, confused>>
    BY <1>2 DEF AttachByName, history
  <2> HIDE DEF x
  <2>2. \A y : Setting(y)' = Setting(y)
    BY <2>1 DEF Setting
  <2>3. AloneInv'
    <3>1. ASSUME NEW u \in alone'
          PROVE  /\ u \in Threads /\ InSet(u)
                 /\ \A w \in Setting(var[u]) : w = u
                 /\ \A d \in Comps : held'[d] = var[u] =>
                      (\E i \in DOMAIN todo[u] : todo[u][i] = d) \/ copy'[d] = arg[u]
      <4>1. /\ u \in Threads /\ u \in alone /\ InSet(u)
            /\ \A w \in Setting(var[u]) : w = u
            /\ \A d \in Comps : held[d] = var[u] =>
                 (\E i \in DOMAIN todo[u] : todo[u][i] = d) \/ copy[d] = arg[u]
        BY <2>1 DEF CopyInv, AloneInv
      <4>2. \A d \in Comps : held'[d] = var[u] => held[d] = var[u] /\ copy'[d] = copy[d]
        <5>1. var[u] # x
          BY <2>1, <4>1 DEF Setting, InSet
        <5> QED
          BY <1>0, <2>1, <5>1
      <4> QED
        BY <4>1, <4>2
    <3> QED
      BY <2>1, <2>2, <3>1 DEF CopyInv, AloneInv, InSet
  <2>4. ChangeIsReal'
    BY <2>1 DEF CopyInv, ChangeIsReal
  <2>5. CopyFollows'
    BY <1>0, <2>1, <2>2 DEF CopyInv, CopyFollows
  <2> QED
    BY <2>3, <2>4, <2>5 DEF CopyInv
<1>3. ASSUME NEW c \in Comps, Detach(c) PROVE CopyInv'
  <2>1. /\ held' = [held EXCEPT ![c] = NoVar]
        /\ UNCHANGED <<val, copy, pc, var, arg, todo, alone, confused>>
    BY <1>3 DEF Detach, set
  <2>2. \A y : Setting(y)' = Setting(y)
    BY <2>1 DEF Setting
  <2>3. \A d \in Comps : held'[d] = held[d] \/ held'[d] = NoVar
    BY <1>0, <2>1
  <2>4. AloneInv'
    <3>1. ASSUME NEW u \in alone'
          PROVE  /\ u \in Threads /\ InSet(u)
                 /\ \A w \in Setting(var[u]) : w = u
                 /\ \A d \in Comps : held'[d] = var[u] =>
                      (\E i \in DOMAIN todo[u] : todo[u][i] = d) \/ copy'[d] = arg[u]
      <4>1. /\ u \in Threads /\ u \in alone /\ InSet(u)
            /\ \A w \in Setting(var[u]) : w = u
            /\ \A d \in Comps : held[d] = var[u] =>
                 (\E i \in DOMAIN todo[u] : todo[u][i] = d) \/ copy[d] = arg[u]
        BY <2>1 DEF CopyInv, AloneInv
      <4>2. \A d \in Comps : held'[d] = var[u] => held[d] = var[u] /\ copy'[d] = copy[d]
        BY <1>0, <2>1, <2>3, <4>1
      <4> QED
        BY <4>1, <4>2
    <3> QED
      BY <2>1, <2>2, <3>1 DEF CopyInv, AloneInv, InSet
  <2>5. ChangeIsReal'
    BY <2>1 DEF CopyInv, ChangeIsReal
  <2>6. CopyFollows'
    BY <1>0, <2>1, <2>2, <2>3 DEF CopyInv, CopyFollows
  <2> QED
    BY <2>4, <2>5, <2>6 DEF CopyInv
<1>4. ASSUME NEW t \in Threads, setValue(t) PROVE CopyInv'
  <2>1. PICK c \in Comps, v \in Values : held[c] # NoVar /\ BeginSet(t, held[c], v)
    BY <1>4 DEF setValue
  <2>2. held[c] \in 1..Len(val) /\ pc[t] \in {"idle", "apply"} /\ UNCHANGED <<configVars, confused>>
    BY <1>0, <1>4, <2>1 DEF setValue
  <2> QED
    BY <2>1, <2>2, CopyBegin
<1>5. ASSUME NEW t \in Threads, Notify(t) PROVE CopyInv'
  <2> DEFINE c == Head(todo[t])
  <2>1. /\ pc[t] = "notify" /\ t \in Setting(var[t]) /\ todo[t] # <<>>
        /\ c \in Comps /\ held[c] = var[t] /\ var[t] # NoVar
        /\ UNCHANGED <<val, held>>
    <3>1. pc[t] = "notify" /\ UNCHANGED <<val, held>>
      BY <1>5 DEF Notify
    <3>2. todo[t] # <<>> /\ \A i \in DOMAIN todo[t] : held[todo[t][i]] = var[t]
      BY <3>1 DEF DataInv, PcOK
    <3>3. Len(todo[t]) >= 1 /\ c = todo[t][1] /\ c \in Comps /\ 1 \in DOMAIN todo[t]
      BY <1>0, <3>2
    <3> QED
      BY <1>0, <3>1, <3>2, <3>3 DEF Setting, InSet
  <2>2. CASE arg[t] \in Refuses[c]
    <3>1. After(t) /\ confused' = confused \cup {var[t]} /\ copy' = copy
      BY <1>5, <2>2 DEF Notify
    <3>2. AloneInv'
      BY <2>1, <3>1, AfterSetting DEF CopyInv, AloneInv, InSet
    <3>3. ChangeIsReal'
      BY <2>1, <3>1, AfterSetting DEF CopyInv, ChangeIsReal
    <3>4. CopyFollows'
      <4>1. \A y : Setting(y)' = {} /\ y \notin confused' => Setting(y) = {}
        BY <3>1, AfterSetting DEF Setting
      <4> QED
        BY <2>1, <3>1, <4>1 DEF CopyInv, CopyFollows
    <3> QED
      BY <3>2, <3>3, <3>4 DEF CopyInv
  <2>3. CASE arg[t] \notin Refuses[c]
    <3>1. /\ pc' = [pc EXCEPT ![t] = Round(Tail(todo[t]))]
          /\ todo' = [todo EXCEPT ![t] = Tail(@)]
          /\ copy' = [copy EXCEPT ![c] = arg[t]]
          /\ UNCHANGED <<var, arg, alone, confused>>
      BY <1>5, <2>3 DEF Notify
    <3>2. Round(Tail(todo[t])) \in {"notify", "assign"}
      BY DEF Round
    <3>3. \A y : Setting(y)' = Setting(y)
      BY <1>0, <2>1, <3>1, <3>2 DEF Setting
    <3>4. \A i \in DOMAIN todo[t] : todo[t][i] = c \/ \E j \in DOMAIN Tail(todo[t]) : Tail(todo[t])[j] = todo[t][i]
      <4>1. /\ Len(todo[t]) >= 1 /\ c = todo[t][1]
            /\ Tail(todo[t]) \in Seq(Comps) /\ Len(Tail(todo[t])) = Len(todo[t]) - 1
            /\ \A i \in 1..(Len(todo[t]) - 1) : Tail(todo[t])[i] = todo[t][i + 1]
        BY <1>0, <2>1, TailFacts
      <4>2. ASSUME NEW i \in 1..Len(todo[t]), i # 1
            PROVE  i - 1 \in 1..(Len(todo[t]) - 1) /\ Tail(todo[t])[i - 1] = todo[t][i]
        BY <1>0, <4>1, <4>2
      <4>3. DOMAIN todo[t] = 1..Len(todo[t]) /\ DOMAIN Tail(todo[t]) = 1..(Len(todo[t]) - 1)
        BY <1>0, <4>1
      <4> QED
        BY <4>1, <4>2, <4>3
    <3>5. AloneInv'
      <4>1. ASSUME NEW u \in alone
            PROVE  /\ InSet(u)'
                   /\ \A w \in Setting(var[u]) : w = u
                   /\ \A d \in Comps : held[d] = var[u] =>
                        (\E i \in DOMAIN todo'[u] : todo'[u][i] = d) \/ copy'[d] = arg[u]
        <5>1. /\ u \in Threads /\ InSet(u)
              /\ \A w \in Setting(var[u]) : w = u
              /\ \A d \in Comps : held[d] = var[u] =>
                   (\E i \in DOMAIN todo[u] : todo[u][i] = d) \/ copy[d] = arg[u]
          BY DEF CopyInv, AloneInv
        <5>2. CASE u = t
          <6>1. todo'[u] = Tail(todo[t]) /\ pc'[u] = Round(Tail(todo[t]))
            BY <1>0, <3>1, <5>2
          <6>2. \A d \in Comps : copy'[d] = copy[d] \/ copy'[d] = arg[u]
            BY <1>0, <3>1, <5>2
          <6>3. copy'[c] = arg[u]
            BY <1>0, <2>1, <3>1, <5>2
          <6> QED
            BY <3>2, <3>4, <5>1, <5>2, <6>1, <6>2, <6>3 DEF InSet
        <5>3. CASE u # t
          <6>1. todo'[u] = todo[u] /\ pc'[u] = pc[u] /\ var[u] # var[t]
            BY <1>0, <2>1, <3>1, <5>1, <5>3
          <6>2. \A d \in Comps : held[d] = var[u] => copy'[d] = copy[d]
            BY <1>0, <2>1, <3>1, <6>1
          <6> QED
            BY <5>1, <6>1, <6>2 DEF InSet
        <5> QED
          BY <5>2, <5>3
      <4> QED
        BY SMTT(60), <2>1, <3>1, <3>3, <4>1 DEF AloneInv, CopyInv
    <3>6. ChangeIsReal'
      BY <1>0, <2>1, <3>1 DEF CopyInv, ChangeIsReal
    <3>7. CopyFollows'
      <4>1. \A d \in Comps : Setting(held[d]) = {} => copy'[d] = copy[d]
        BY <1>0, <2>1, <3>1
      <4> QED
        BY <2>1, <3>1, <3>3, <4>1 DEF CopyInv, CopyFollows
    <3> QED
      BY <3>5, <3>6, <3>7 DEF CopyInv
  <2> QED
    BY <2>2, <2>3
<1>6. ASSUME NEW t \in Threads, Assign(t) PROVE CopyInv'
  <2>1. /\ pc[t] = "assign" /\ Notifying(var[t]) = {} /\ After(t)
        /\ val' = [val EXCEPT ![var[t]] = arg[t]]
        /\ confused' = IF t \in alone THEN confused \ {var[t]} ELSE confused \cup {var[t]}
        /\ UNCHANGED <<held, copy>>
    BY <1>6 DEF Assign, Stored
  <2>2. /\ var[t] \in 1..Len(val) /\ todo[t] = <<>>
        /\ val'[var[t]] = arg[t] /\ \A x \in 1..Len(val) : x # var[t] => val'[x] = val[x]
    BY <1>0, <2>1 DEF InSet, DataInv, PcOK
  <2>3. AloneInv'
    BY <2>1, AfterSetting DEF CopyInv, AloneInv, InSet
  <2>4. ChangeIsReal'
    <3>1. ASSUME NEW u \in Threads, pc'[u] = "notify" PROVE val'[var'[u]] # arg'[u]
      <4>1. u # t /\ pc[u] = "notify" /\ var'[u] = var[u] /\ arg'[u] = arg[u]
        BY <2>1, <3>1, AfterSetting
      <4>2. var[u] # var[t] /\ var[u] \in 1..Len(val)
        BY <1>0, <2>1, <4>1 DEF Notifying, Setting, InSet
      <4> QED
        BY <2>2, <4>1, <4>2 DEF CopyInv, ChangeIsReal
    <3> QED
      BY <3>1 DEF ChangeIsReal
  <2>5. CopyFollows'
    <3>1. ASSUME NEW c \in Comps, held[c] # NoVar, Setting(held[c])' = {}, held[c] \notin confused'
          PROVE  copy[c] = val'[held[c]]
      <4>1. CASE held[c] = var[t]
        <5>1. t \in alone
          BY <2>1, <3>1, <4>1
        <5> QED
          BY <2>2, <4>1, <5>1 DEF CopyInv, AloneInv
      <4>2. CASE held[c] # var[t]
        <5>1. Setting(held[c]) = {} /\ held[c] \notin confused
          BY <2>1, <3>1, <4>2, AfterSetting DEF Setting
        <5> QED
          BY <1>0, <2>2, <3>1, <4>2, <5>1 DEF CopyInv, CopyFollows
      <4> QED
        BY <4>1, <4>2
    <3> QED
      BY <2>1, <3>1 DEF CopyFollows
  <2> QED
    BY <2>3, <2>4, <2>5 DEF CopyInv
<1>7. ASSUME NEW t \in Threads, LoadFromConfDir(t) PROVE CopyInv'
  BY <1>0, <1>7, CopyFrame DEF LoadFromConfDir, InSet
<1>8. ASSUME NEW t \in Threads, Skip(t) PROVE CopyInv'
  BY <1>0, <1>8, CopyFrame DEF Skip, NextFile, InSet, history
<1>9. ASSUME NEW t \in Threads, Record(t) PROVE CopyInv'
  BY <1>0, <1>9, CopyFrame DEF Record, InSet
<1>10. ASSUME NEW t \in Threads, Read(t) PROVE CopyInv'
  BY <1>0, <1>10, CopyFrame DEF Read, InSet, history
<1>11. ASSUME NEW t \in Threads, LoadEntry(t) PROVE CopyInv'
  <2>1. PICK n \in Names, v \in Values \cup {Bad} : EntryEffects(t, n, v)
    BY <1>11, EntryStep
  <2>2. pc[t] = "apply" /\ UNCHANGED <<configVars, confused>>
    BY <2>1 DEF EntryEffects
  <2>3. CASE datas[n] \in 1..Len(val) /\ v \in Values /\ BeginSet(t, datas[n], v)
    BY <2>2, <2>3, CopyBegin
  <2>4. CASE UNCHANGED <<pc, set>>
    BY <2>2, <2>4, CopyFrame
  <2> QED
    BY <2>1, <2>3, <2>4 DEF EntryEffects
<1>12. ASSUME NEW t \in Threads, LoadEnd(t) PROVE CopyInv'
  BY <1>0, <1>12, CopyFrame DEF LoadEnd, NextFile, InSet
<1>13. ASSUME NEW f \in Files, Edit(f) PROVE CopyInv'
  BY <1>13, CopyFrame DEF Edit
<1>14. CASE Tick
  BY <1>14, CopyFrame DEF Tick, history
<1>15. CASE UNCHANGED vars
  BY <1>15, CopyFrame DEF vars, history
<1> QED
  BY <1>1, <1>2, <1>3, <1>4, <1>5, <1>6, <1>7, <1>8, <1>9, <1>10, <1>11, <1>12, <1>13, <1>14, <1>15
     DEF Next

LEMMA CopyInit == Init => CopyInv
<1> SUFFICES ASSUME Init PROVE CopyInv
  OBVIOUS
<1>1. AloneInv
  BY DEF Init, AloneInv
<1>2. ChangeIsReal
  BY DEF Init, ChangeIsReal
<1>3. CopyFollows
  BY DEF Init, CopyFollows
<1> QED
  BY <1>1, <1>2, <1>3 DEF CopyInv

LEMMA CopyCorrect == Spec => []CopyInv
<1>1. Init => DataInv /\ CopyInv
  BY DataInit, CopyInit
<1>2. DataInv /\ CopyInv /\ [Next]_vars => (DataInv /\ CopyInv)'
  BY DataNext, CopyNext
<1> QED
  BY <1>1, <1>2, PTL DEF Spec

(***************************************************************************)
(* A listener is told of changes only: while a round goes on, the write    *)
(* lock that stores a value waits for it.                                  *)
(***************************************************************************)
THEOREM ChangeCorrect == Spec => []ChangeIsReal
  BY CopyCorrect, PTL DEF CopyInv

(***************************************************************************)
(* A component's copy is the value of the variable it holds once nobody is *)
(* setting it, whatever the numbers of setters, variables and components,  *)
(* unless setters came together, a listener came between or one threw.     *)
(***************************************************************************)
THEOREM FollowsCorrect == Spec => []CopyFollows
  BY CopyCorrect, PTL DEF CopyInv

-----------------------------------------------------------------------------
(* No two names have the same variable, and who holds it asked for its name. *)
NamesInv ==
  \A n \in Names : datas[n] # NoVar =>
    /\ \A m \in Names : datas[m] = datas[n] => m = n
    /\ \A c \in Comps : held[c] = datas[n] => Wants[c] = n

LEMMA NamesNext == DataInv /\ NamesInv /\ [Next]_vars => NamesInv'
<1> SUFFICES ASSUME DataInv, NamesInv, [Next]_vars PROVE NamesInv'
  OBVIOUS
<1> USE DEF NamesInv
<1>0. /\ Len(val) \in Nat /\ MaxVars \in Nat /\ Len(val) <= MaxVars
      /\ datas \in [Names -> (1..Len(val)) \cup {NoVar}]
      /\ held \in [Comps -> (1..Len(val)) \cup {NoVar}]
      /\ NoVar \notin 1..MaxVars /\ Wants \in [Comps -> Names]
  BY ConfigAssumption DEF DataInv, VarsOK, Vars
<1>1. ASSUME NEW c \in Comps, Attach(c) PROVE NamesInv'
  <2>1. /\ Len(val) < MaxVars
        /\ datas' = [datas EXCEPT ![Wants[c]] = Len(val) + 1]
        /\ held' = [held EXCEPT ![c] = Len(val) + 1]
    BY <1>1 DEF Attach, Lookup
  <2> DEFINE new == Len(val) + 1
  <2>2. new # NoVar /\ new \notin 1..Len(val)
    BY <1>0, <2>1
  <2> HIDE DEF new
  <2>3. /\ \A n \in Names : datas'[n] = IF n = Wants[c] THEN new ELSE datas[n]
        /\ \A d \in Comps : held'[d] = IF d = c THEN new ELSE held[d]
    BY <1>0, <2>1 DEF new
  <2>4. /\ \A n \in Names : datas[n] # new
        /\ \A d \in Comps : held[d] # new
    BY <1>0, <2>2
  <2> QED
    BY <1>0, <2>2, <2>3, <2>4
<1>2. ASSUME NEW c \in Comps, AttachByName(c) PROVE NamesInv'
  <2>1. datas' = datas /\ held' = [held EXCEPT ![c] = datas[Wants[c]]]
    BY <1>2 DEF AttachByName
  <2> QED
    BY <1>0, <2>1
<1>3. ASSUME NEW c \in Comps, Detach(c) PROVE NamesInv'
  <2>1. datas' = datas /\ held' = [held EXCEPT ![c] = NoVar]
    BY <1>3 DEF Detach
  <2> QED
    BY <1>0, <2>1
<1>4. ASSUME UNCHANGED <<datas, held>> PROVE NamesInv'
  BY SMTT(60), <1>4
<1>5. \/ \E c \in Comps : Attach(c) \/ AttachByName(c) \/ Detach(c)
      \/ UNCHANGED <<datas, held>>
  BY ZenonT(60) DEF Next, vars, configVars, setValue, Notify, Assign, Stored, LoadFromConfDir, Skip, Record,
         Read, LoadEntry, LoadEnd, Edit, Tick
<1> QED
  BY <1>1, <1>2, <1>3, <1>4, <1>5

-----------------------------------------------------------------------------
(* One file in the directory: what it says, and how far it is applied.     *)
TheFile == Dir[1]
Text == file[TheFile].holds
Fresh == modify[TheFile] = file[TheFile].mtime /\ Text # Bad
Applying(t) == pc[t] \in {"apply", "notify", "assign"}
Done(t) == Len(Text) - Len(rest[t])
Follows(n, t) == t \in clean \/ n \notin drifted

LastOf(n, i, k) ==
  /\ Text[i][1] = n /\ Text[i][2] # Bad
  /\ \A j \in (i + 1)..k : Text[j][1] # n \/ Text[j][2] = Bad

(* Its variable has the value v, or t is about to store it; nobody else is *)
(* setting it.                                                             *)
Given(t, n, v) ==
  /\ \A u \in Setting(datas[n]) : u = t
  /\ IF t \in Setting(datas[n]) THEN arg[t] = v ELSE val[datas[n]] = v

LoaderInv ==
  /\ \A t \in Loading : files[t] = Dir
  /\ \A t \in clean : Loading = {t} /\ pc[t] # "file"
  /\ \A t, u \in Loading : t # u => Names \subseteq drifted

(* What a loader has still to apply is the end of the file. *)
RestInv ==
  \A t \in Loading, n \in Names : Fresh /\ Applying(t) /\ Follows(n, t) =>
    /\ Len(rest[t]) <= Len(Text)
    /\ \A i \in 1..Len(rest[t]) : rest[t][i] = Text[Done(t) + i]

(* What it has applied is in the variables. *)
DoneInv ==
  \A t \in Loading, n \in Names :
    Fresh /\ Applying(t) /\ Follows(n, t) /\ datas[n] # NoVar =>
      \A i \in 1..Done(t) : LastOf(n, i, Done(t)) => Given(t, n, Text[i][2])

(* While nobody applies it, all of it is. *)
RestedInv ==
  Fresh /\ (\A t \in Loading : pc[t] = "file") =>
    \A n \in Names : n \notin drifted /\ datas[n] # NoVar =>
      \A i \in 1..Len(Text) : LastOf(n, i, Len(Text)) =>
        Setting(datas[n]) = {} /\ val[datas[n]] = Text[i][2]

FileInv == LoaderInv /\ RestInv /\ DoneInv /\ RestedInv

(* After these there is nothing to keep. *)
LEMMA FileVoid ==
  ASSUME (Names \subseteq drifted' /\ clean' = {}) \/ ~Fresh'
  PROVE  RestInv' /\ DoneInv' /\ RestedInv'
<1>1. CASE ~Fresh'
  BY <1>1 DEF RestInv, DoneInv, RestedInv
<1>2. CASE Names \subseteq drifted' /\ clean' = {}
  <2>1. \A n \in Names : \A t : ~Follows(n, t)'
    BY <1>2 DEF Follows
  <2> QED
    BY <1>2, <2>1 DEF RestInv, DoneInv, RestedInv
<1> QED
  BY <1>1, <1>2

(* Steps that change nothing the file has been applied to. *)
LEMMA FileFrame ==
  ASSUME FileInv, UNCHANGED <<file, modify, files, rest>>,
         clean' \subseteq clean, drifted \subseteq drifted',
         \A t \in Loading : /\ Applying(t)' => Applying(t)
                            /\ pc'[t] = "file" => pc[t] = "file",
         \A n \in Names : n \notin drifted' \/ clean' # {} =>
           /\ datas'[n] = datas[n]
           /\ datas[n] # NoVar =>
                /\ val'[datas[n]] = val[datas[n]]
                /\ \A u : u \in Setting(datas[n])' <=> u \in Setting(datas[n])
                /\ \A u \in Setting(datas[n]) : arg'[u] = arg[u]
  PROVE  RestInv' /\ DoneInv' /\ RestedInv'
<1>1. /\ Loading' = Loading /\ Text' = Text /\ Fresh' = Fresh
      /\ \A t : Done(t)' = Done(t)
      /\ \A n, i, k : LastOf(n, i, k)' <=> LastOf(n, i, k)
  BY DEF Loading, Text, Fresh, Done, LastOf
<1>2. \A n, t : Follows(n, t)' => Follows(n, t) /\ (n \notin drifted' \/ clean' # {})
  BY DEF Follows
<1>3. RestInv'
  BY <1>1, <1>2 DEF FileInv, RestInv
<1>4. DoneInv'
  <2>1. ASSUME NEW t \in Loading, NEW n \in Names, Fresh', Applying(t)', Follows(n, t)',
               datas'[n] # NoVar, NEW i \in 1..Done(t), LastOf(n, i, Done(t))
        PROVE  Given(t, n, Text[i][2])'
    <3>1. datas[n] # NoVar /\ Given(t, n, Text[i][2])
      BY <1>1, <1>2, <2>1 DEF FileInv, DoneInv
    <3>2. /\ datas'[n] = datas[n] /\ val'[datas[n]] = val[datas[n]]
          /\ \A u : u \in Setting(datas[n])' <=> u \in Setting(datas[n])
          /\ \A u \in Setting(datas[n]) : arg'[u] = arg[u]
      BY <1>2, <2>1, <3>1
    <3> QED
      BY <1>1, <3>1, <3>2 DEF Given
  <2> QED
    BY <1>1, <2>1 DEF DoneInv
<1>5. RestedInv'
  <2>1. ASSUME Fresh', \A t \in Loading : pc'[t] = "file", NEW n \in Names, n \notin drifted',
               datas'[n] # NoVar, NEW i \in 1..Len(Text), LastOf(n, i, Len(Text))
        PROVE  Setting(datas[n])' = {} /\ val'[datas'[n]] = Text[i][2]
    <3>1. /\ datas'[n] = datas[n] /\ val'[datas[n]] = val[datas[n]]
          /\ \A u : u \in Setting(datas[n])' <=> u \in Setting(datas[n])
      BY <2>1
    <3>2. Setting(datas[n]) = {} /\ val[datas[n]] = Text[i][2]
      BY <1>1, <2>1, <3>1 DEF FileInv, RestedInv
    <3> QED
      BY <3>1, <3>2
  <2> QED
    BY <1>1, <2>1 DEF RestedInv
<1> QED
  BY <1>3, <1>4, <1>5

(* Two loaders at once leave nothing to keep. *)
LEMMA OnlyLoader ==
  ASSUME LoaderInv, NEW t \in Loading, NEW u \in Loading, t # u, NEW n \in Names
  PROVE  ~Follows(n, u)
  BY DEF LoaderInv, Follows

LEMMA LoaderNext ==
  ASSUME Len(Dir) = 1, DataInv, LoaderInv, [Next]_vars
  PROVE  LoaderInv'
<1> USE DEF LoaderInv
<1>0. /\ pc \in [Threads -> PCs] /\ files \in [Threads -> Seq(Files)] /\ clean \subseteq Threads
      /\ Dir \in Seq(Files) /\ Dir # <<>>
      /\ \A t \in Threads : pc[t] = "idle" => files[t] = <<>>
      /\ \A t \in Threads : pc[t] \in {"file", "read", "apply"} => files[t] # <<>>
  BY ConfigAssumption DEF DataInv, ThreadsOK, PcOK
<1>1. Tail(Dir) = <<>>
  BY <1>0, TailFacts
<1>2. ASSUME UNCHANGED files, clean' \subseteq clean, drifted \subseteq drifted',
             \A t \in Threads : pc[t] # "file" => pc'[t] # "file"
      PROVE  LoaderInv'
  BY <1>0, <1>2 DEF Loading
<1>3. ASSUME NEW c \in Comps, Attach(c) \/ AttachByName(c) \/ Detach(c) PROVE LoaderInv'
  BY <1>2, <1>3 DEF Attach, AttachByName, Detach, Drift, load, history
<1>4. ASSUME NEW t \in Threads, setValue(t) PROVE LoaderInv'
  <2>1. UNCHANGED files /\ clean' = {} /\ drifted \subseteq drifted'
    BY <1>4 DEF setValue, load, Drift
  <2>2. pc' = pc \/ \E s \in {"notify", "assign"} : pc' = [pc EXCEPT ![t] = s]
    BY <1>4 DEF setValue, BeginSet, Round
  <2> QED
    BY <1>0, <1>2, <2>1, <2>2
<1>5. ASSUME NEW t \in Threads, Notify(t) PROVE LoaderInv'
  <2>1. UNCHANGED files /\ clean' \subseteq clean /\ drifted \subseteq drifted'
    BY <1>5 DEF Notify, After, load, Drift
  <2>2. \E s \in {"idle", "apply", "notify", "assign"} : pc' = [pc EXCEPT ![t] = s]
    BY <1>5 DEF Notify, After, Round
  <2> QED
    BY <1>0, <1>2, <2>1, <2>2
<1>6. ASSUME NEW t \in Threads, Assign(t) PROVE LoaderInv'
  <2>1. /\ UNCHANGED <<files, clean, drifted>>
        /\ \E s \in {"idle", "apply"} : pc' = [pc EXCEPT ![t] = s]
    BY <1>6 DEF Assign, Stored, After, load
  <2> QED
    BY <1>0, <1>2, <2>1
<1>7. ASSUME NEW t \in Threads, LoadFromConfDir(t) PROVE LoaderInv'
  <2>1. /\ files' = [files EXCEPT ![t] = Dir] /\ pc' = [pc EXCEPT ![t] = "file"]
        /\ t \notin Loading
        /\ IF Loading = {} THEN UNCHANGED <<drifted, clean>> ELSE Names \subseteq drifted' /\ clean' = {}
    BY <1>0, <1>7 DEF LoadFromConfDir, Drift, Loading
  <2>2. Loading' = Loading \cup {t} /\ \A u \in Loading : files'[u] = files[u]
    BY <1>0, <2>1 DEF Loading
  <2>3. CASE Loading = {}
    <3>1. clean' = {}
      BY <2>1, <2>3
    <3> QED
      BY <1>0, <2>1, <2>2, <2>3, <3>1
  <2>4. CASE Loading # {}
    BY <1>0, <2>1, <2>2, <2>4
  <2> QED
    BY <2>3, <2>4
<1>8. ASSUME NEW t \in Threads, files[t] # <<>>, NextFile(t), clean' = clean \ {t},
             t \in clean \/ drifted' = drifted
      PROVE  LoaderInv'
  <2>1. t \in Loading /\ files[t] = Dir
    BY <1>8 DEF Loading
  <2>2. files' = [files EXCEPT ![t] = <<>>] /\ pc' = [pc EXCEPT ![t] = "idle"]
    BY <1>1, <1>8, <2>1 DEF NextFile
  <2>3. Loading' = Loading \ {t} /\ \A u \in Loading' : files'[u] = files[u] /\ pc'[u] = pc[u]
    BY <1>0, <2>2 DEF Loading
  <2>4. \A u \in clean' : FALSE
    BY <1>8, <2>1
  <2>5. \A u, w \in Loading' : u # w => Names \subseteq drifted'
    BY <1>8, <2>3
  <2> QED
    BY <2>3, <2>4, <2>5
<1>9. ASSUME NEW t \in Threads, Skip(t) PROVE LoaderInv'
  <2>1. files[t] # <<>> /\ t \notin clean
    BY <1>0, <1>9 DEF Skip
  <2> QED
    BY <1>8, <1>9, <2>1 DEF Skip, history
<1>10. ASSUME NEW t \in Threads, LoadEnd(t) PROVE LoaderInv'
  BY <1>0, <1>8, <1>10 DEF LoadEnd
<1>11. ASSUME NEW t \in Threads, Record(t) PROVE LoaderInv'
  <2>1. /\ pc' = [pc EXCEPT ![t] = "read"] /\ UNCHANGED <<files, drifted>>
        /\ clean' = IF Loading = {t} THEN {t} ELSE {}
    BY <1>11 DEF Record, load
  <2>2. Loading' = Loading
    BY <2>1 DEF Loading
  <2>3. pc'[t] # "file"
    BY <1>0, <2>1
  <2>4. \A u \in clean' : Loading' = {u} /\ pc'[u] # "file"
    BY <2>1, <2>2, <2>3
  <2> QED
    BY <2>1, <2>2, <2>4
<1>12. ASSUME NEW t \in Threads, Read(t) PROVE LoaderInv'
  BY <1>0, <1>2, <1>12 DEF Read, history
<1>13. ASSUME NEW t \in Threads, LoadEntry(t) PROVE LoaderInv'
  <2>1. UNCHANGED files /\ clean' \subseteq clean /\ drifted \subseteq drifted'
    BY <1>13 DEF LoadEntry, Drift
  <2>2. pc' = pc \/ \E s \in {"notify", "assign"} : pc' = [pc EXCEPT ![t] = s]
    BY <1>13 DEF LoadEntry, BeginSet, Round
  <2> QED
    BY <1>0, <1>2, <2>1, <2>2
<1>14. ASSUME NEW f \in Files, Edit(f) PROVE LoaderInv'
  BY <1>2, <1>14 DEF Edit, load, Drift
<1>15. CASE Tick
  BY <1>2, <1>15 DEF Tick, load, history
<1>16. CASE UNCHANGED vars
  BY <1>2, <1>16 DEF vars, load, history
<1> QED
  BY <1>3, <1>4, <1>5, <1>6, <1>7, <1>9, <1>10, <1>11, <1>12, <1>13, <1>14, <1>15, <1>16 DEF Next

(***************************************************************************)
(* An entry is applied: it was the next one of the file, so that the       *)
(* entries done are the ones before it and itself.                         *)
(***************************************************************************)
LEMMA FileEntry ==
  ASSUME Len(Dir) = 1, DataInv, NamesInv, FileInv, NEW t \in Threads, LoadEntry(t)
  PROVE  RestInv' /\ DoneInv' /\ RestedInv'
<1>1. PICK n \in Names, v \in Values \cup {Bad} : EntryEffects(t, n, v)
  BY EntryStep
<1>2. /\ pc[t] = "apply" /\ rest[t] # <<>> /\ Head(rest[t]) = <<n, v>>
      /\ rest' = [rest EXCEPT ![t] = Tail(@)]
      /\ UNCHANGED <<datas, val, file, modify, files>>
  BY <1>1 DEF EntryEffects, configVars, fileVars
<1>3. /\ pc \in [Threads -> PCs] /\ rest \in [Threads -> Entries] /\ t \in Loading
      /\ var \in [Threads -> (1..Len(val)) \cup {NoVar}] /\ arg \in [Threads -> Values]
  BY <1>2 DEF DataInv, ThreadsOK, PcOK, Loading
<1>4. /\ rest'[t] = Tail(rest[t]) /\ \A u \in Threads : u # t => rest'[u] = rest[u]
      /\ Len(rest[t]) \in Nat /\ Len(rest[t]) >= 1 /\ rest[t][1] = <<n, v>>
      /\ Len(Tail(rest[t])) = Len(rest[t]) - 1
      /\ \A i \in 1..(Len(rest[t]) - 1) : Tail(rest[t])[i] = rest[t][i + 1]
  <2>1. rest[t] \in Seq(Names \X (Values \cup {Bad}))
    BY <1>3 DEF Entries
  <2> QED
    BY <1>2, <1>3, <2>1, TailFacts
<1>5. Loading' = Loading /\ Text' = Text /\ Fresh' = Fresh
  BY <1>2 DEF Loading, Text, Fresh
<1>6. clean' \subseteq clean /\ drifted \subseteq drifted'
  BY <1>1 DEF EntryEffects, Drift
<1>7. \A m \in Names : \A u \in Loading : Follows(m, u)' => Follows(m, u) /\ u = t
  BY <1>3, <1>6, OnlyLoader DEF Follows, FileInv
<1>8. pc'[t] \in {"apply", "notify", "assign"}
  BY <1>1, <1>2, <1>3 DEF EntryEffects, BeginSet, Round
<1>9. RestedInv'
  BY <1>3, <1>5, <1>8 DEF RestedInv
<1>10. ASSUME Fresh, NEW m \in Names, Follows(m, t)
       PROVE  /\ Len(Text) \in Nat /\ Done(t) \in Nat /\ Len(rest[t]) <= Len(Text)
              /\ Done(t)' = Done(t) + 1
              /\ Text[Done(t) + 1] = <<n, v>>
              /\ \A i \in 1..(Len(rest[t]) - 1) : rest'[t][i] = Text[Done(t)' + i]
  <2>1. Text \in Seq(Names \X (Values \cup {Bad}))
    <3>1. Text \in Contents
      <4>1. TheFile \in Files
        BY ConfigAssumption DEF TheFile, Files, ToSet
      <4> QED
        BY <4>1 DEF DataInv, FilesOK, Text
    <3> QED
      BY <1>10, <3>1, ConfigAssumption DEF Fresh
  <2>2. Len(rest[t]) <= Len(Text) /\ \A i \in 1..Len(rest[t]) : rest[t][i] = Text[Done(t) + i]
    BY <1>2, <1>3, <1>10 DEF FileInv, RestInv, Applying
  <2>3. Len(Text) \in Nat /\ Done(t) \in Nat
    BY <1>4, <2>1, <2>2 DEF Done
  <2>4. Done(t)' = Done(t) + 1
    <3>1. Done(t)' = Len(Text) - Len(rest'[t]) /\ Len(rest'[t]) = Len(rest[t]) - 1
      BY <1>4, <1>5 DEF Done
    <3>2. Len(Text) \in Nat /\ Len(rest[t]) \in Nat
      BY <1>4, <2>3
    <3>3. Done(t) = Len(Text) - Len(rest[t])
      BY DEF Done
    <3> HIDE DEF Done, Text
    <3> QED
      BY <3>1, <3>2, <3>3
  <2>5. Text[Done(t) + 1] = <<n, v>>
    BY <1>4, <2>2
  <2>6. ASSUME NEW i \in 1..(Len(rest[t]) - 1) PROVE rest'[t][i] = Text[Done(t)' + i]
    <3>1. rest'[t][i] = rest[t][i + 1] /\ i + 1 \in 1..Len(rest[t])
      BY <1>4
    <3>2. rest[t][i + 1] = Text[Done(t) + (i + 1)]
      BY <2>2, <3>1
    <3>3. Done(t) + (i + 1) = Done(t)' + i
      BY <2>3, <2>4
    <3> QED
      BY <3>1, <3>2, <3>3
  <2> QED
    BY <2>2, <2>3, <2>4, <2>5, <2>6
<1>11. RestInv'
  <2>1. ASSUME NEW m \in Names, Fresh, Follows(m, t)
        PROVE  /\ Len(rest'[t]) <= Len(Text)
               /\ \A i \in 1..Len(rest'[t]) : rest'[t][i] = Text[Done(t)' + i]
    <3>1. Len(rest'[t]) = Len(rest[t]) - 1
      BY <1>4
    <3>2. Len(rest[t]) <= Len(Text) /\ Len(Text) \in Nat
      BY <1>10, <2>1
    <3>3. \A i \in 1..Len(rest'[t]) : rest'[t][i] = Text[Done(t)' + i]
      BY <1>10, <2>1, <3>1
    <3> QED
      BY <1>4, <3>1, <3>2, <3>3
  <2> QED
    BY <1>5, <1>7, <2>1 DEF RestInv
<1>12. ASSUME Fresh, NEW m \in Names, Follows(m, t)', datas[m] # NoVar,
              NEW i \in 1..Done(t)', LastOf(m, i, Done(t)')
       PROVE  Given(t, m, Text[i][2])'
  <2>1. Follows(m, t)
    BY <1>3, <1>7, <1>12
  <2>2. /\ Done(t) \in Nat /\ Done(t)' = Done(t) + 1 /\ Text[Done(t) + 1] = <<n, v>>
    BY <1>10, <1>12, <2>1
  <2>3. CASE i = Done(t) + 1
    <3>1. m = n /\ v # Bad /\ Text[i][2] = v
      BY <1>12, <2>2, <2>3 DEF LastOf
    <3>2. BeginSet(t, datas[n], v) /\ Setting(datas[n]) = {}
      BY <1>1, <1>12, <3>1 DEF EntryEffects, Drift, Follows
    <3>3. CASE v = val[datas[n]]
      <4>1. UNCHANGED <<pc, var, arg>>
        BY <3>2, <3>3 DEF BeginSet, set
      <4>2. \A u : u \notin Setting(datas[n])'
        BY <1>2, <3>2, <4>1 DEF Setting
      <4>3. val'[datas'[n]] = v /\ Text'[i][2] = v
        BY <1>2, <1>5, <3>1, <3>3
      <4>4. Given(t, n, Text[i][2])'
        BY <4>2, <4>3 DEF Given
      <4> QED
        BY <3>1, <4>4
    <3>4. CASE v # val[datas[n]]
      <4>1. /\ \E s \in {"notify", "assign"} : pc' = [pc EXCEPT ![t] = s]
            /\ var' = [var EXCEPT ![t] = datas[n]]
            /\ arg' = [arg EXCEPT ![t] = v]
        BY <3>2, <3>4 DEF BeginSet, Round
      <4>2. \A u : u \in Setting(datas[n])' <=> u = t
        BY <1>2, <1>3, <3>2, <4>1 DEF Setting
      <4>3. arg'[t] = v /\ Text'[i][2] = v
        BY <1>3, <1>5, <3>1, <4>1
      <4>4. Given(t, n, Text[i][2])'
        BY <4>2, <4>3 DEF Given
      <4> QED
        BY <3>1, <4>4
    <3> QED
      BY <3>3, <3>4
  <2>4. CASE i # Done(t) + 1
    <3>1. /\ i \in 1..Done(t) /\ LastOf(m, i, Done(t)) /\ (m # n \/ v = Bad)
      BY <1>12, <2>2, <2>4 DEF LastOf
    <3>2. Given(t, m, Text[i][2])
      BY <1>2, <1>3, <1>12, <2>1, <3>1 DEF FileInv, DoneInv, Applying
    <3>3. t \notin Setting(datas[m])
      BY <1>2 DEF Setting
    <3>4. \A u : u \in Setting(datas[m])' <=> u \in Setting(datas[m])
      <4>1. CASE UNCHANGED <<pc, set>>
        BY <1>2, <4>1 DEF Setting, set
      <4>2. CASE v # Bad /\ BeginSet(t, datas[n], v)
        <5>1. datas[m] # datas[n]
          BY <1>12, <3>1, <4>2 DEF NamesInv
        <5>2. CASE v = val[datas[n]]
          BY <1>2, <4>2, <5>2 DEF BeginSet, set, Setting
        <5>3. CASE v # val[datas[n]]
          <6>1. /\ \E s \in {"notify", "assign"} : pc' = [pc EXCEPT ![t] = s]
                /\ var' = [var EXCEPT ![t] = datas[n]]
            BY <4>2, <5>3 DEF BeginSet, Round
          <6> QED
            BY <1>2, <1>3, <3>3, <5>1, <6>1 DEF Setting
        <5> QED
          BY <5>2, <5>3
      <4> QED
        BY <1>1, <4>1, <4>2 DEF EntryEffects
    <3>5. val'[datas'[m]] = Text'[i][2] /\ t \notin Setting(datas[m])'
      BY <1>2, <1>5, <3>2, <3>3, <3>4 DEF Given
    <3>6. \A u : u \notin Setting(datas[m])'
      BY <3>2, <3>3, <3>4 DEF Given
    <3> QED
      BY <3>5, <3>6 DEF Given
  <2> QED
    BY <2>3, <2>4
<1>13. DoneInv'
  <2>1. \A m, i, k : LastOf(m, i, k)' <=> LastOf(m, i, k)
    BY <1>5 DEF LastOf
  <2> QED
    BY <1>2, <1>5, <1>7, <1>12, <2>1 DEF DoneInv
<1> QED
  BY <1>9, <1>11, <1>13

(***************************************************************************)
(* A value is stored: what was about to be given to a name is given.       *)
(***************************************************************************)
LEMMA FileAssign ==
  ASSUME DataInv, FileInv, NEW t \in Threads, Assign(t)
  PROVE  RestInv' /\ DoneInv' /\ RestedInv'
<1>1. /\ pc[t] = "assign" /\ After(t)
      /\ val' = [val EXCEPT ![var[t]] = arg[t]]
      /\ UNCHANGED <<datas, file, modify, files, rest, drifted, clean>>
  BY DEF Assign, Stored, After, load, fileVars
<1>2. /\ pc \in [Threads -> PCs] /\ val \in Seq(Values) /\ var[t] \in 1..Len(val)
      /\ t \in Setting(var[t])
      /\ \A y : t \in Setting(y) => y = var[t]
  BY <1>1 DEF DataInv, VarsOK, ThreadsOK, PcOK, InSet, Setting
<1>3. /\ \A y : Setting(y)' = Setting(y) \ {t}
      /\ \A u \in Threads \ {t} : pc'[u] = pc[u] /\ arg'[u] = arg[u]
      /\ val'[var[t]] = arg[t] /\ \A y : y # var[t] => val'[y] = val[y]
      /\ pc'[t] \in {"idle", "apply"} /\ (t \in Loading => pc'[t] = "apply")
  <2>1. /\ \A y : Setting(y)' = Setting(y) \ {t}
        /\ \A u \in Threads \ {t} : pc'[u] = pc[u] /\ arg'[u] = arg[u]
        /\ pc'[t] \in {"idle", "apply"}
    BY <1>1, AfterSetting
  <2>2. t \in Loading => pc'[t] = "apply"
    BY <1>1, <1>2 DEF After, Loading
  <2>3. val'[var[t]] = arg[t] /\ \A y : y # var[t] => val'[y] = val[y]
    BY <1>1, <1>2
  <2> QED
    BY <2>1, <2>2, <2>3
<1>4. /\ Loading' = Loading /\ Text' = Text /\ Fresh' = Fresh
      /\ \A u : Done(u)' = Done(u)
      /\ \A n, i, k : LastOf(n, i, k)' <=> LastOf(n, i, k)
      /\ \A n, u : Follows(n, u)' <=> Follows(n, u)
      /\ \A u \in Loading : Applying(u)' => Applying(u)
      /\ Loading \subseteq Threads
  <2>1. \A u \in Threads : Applying(u)' => Applying(u)
    BY <1>1, <1>3 DEF Applying
  <2>2. Loading' = Loading /\ Text' = Text /\ Fresh' = Fresh /\ Loading \subseteq Threads
    BY <1>1 DEF Loading, Text, Fresh
  <2> QED
    BY <1>1, <2>1, <2>2 DEF Done, LastOf, Follows
<1>5. RestInv'
  BY <1>1, <1>4 DEF FileInv, RestInv
<1>6. ASSUME NEW u \in Loading, NEW n \in Names, NEW v, Given(u, n, v)
      PROVE  /\ \A w \in Setting(datas[n])' : w = u
             /\ IF u \in Setting(datas[n])' THEN arg'[u] = v ELSE val'[datas[n]] = v
  <2>1. CASE datas[n] = var[t]
    <3>1. u = t /\ arg[t] = v
      BY <1>2, <1>6, <2>1 DEF Given
    <3>2. Setting(datas[n])' = Setting(datas[n]) \ {t}
      BY <1>1, <1>3
    <3>3. \A w : w \notin Setting(datas[n])'
      BY <1>6, <3>1, <3>2 DEF Given
    <3> QED
      BY <1>1, <1>3, <2>1, <3>1, <3>3
  <2>2. CASE datas[n] # var[t]
    <3>1. t \notin Setting(datas[n]) /\ Setting(datas[n])' = Setting(datas[n])
      BY <1>1, <1>2, <1>3, <2>2
    <3> QED
      BY <1>3, <1>4, <1>6, <2>2, <3>1 DEF Given
  <2> QED
    BY <2>1, <2>2
<1>7. DoneInv'
  <2>1. ASSUME NEW u \in Loading, NEW n \in Names, Fresh, Applying(u)', Follows(n, u),
               datas[n] # NoVar, NEW i \in 1..Done(u), LastOf(n, i, Done(u))
        PROVE  Given(u, n, Text[i][2])'
    <3>1. Given(u, n, Text[i][2])
      BY <1>4, <2>1 DEF FileInv, DoneInv
    <3>2. /\ \A w \in Setting(datas[n])' : w = u
          /\ IF u \in Setting(datas[n])' THEN arg'[u] = Text[i][2] ELSE val'[datas[n]] = Text[i][2]
      BY <1>6, <3>1
    <3> QED
      BY <1>1, <1>4, <3>2 DEF Given
  <2> QED
    BY <1>1, <1>4, <2>1 DEF DoneInv
<1>8. RestedInv'
  <2>1. ASSUME Fresh, \A u \in Loading : pc'[u] = "file", NEW n \in Names, n \notin drifted,
               datas[n] # NoVar, NEW i \in 1..Len(Text), LastOf(n, i, Len(Text))
        PROVE  Setting(datas[n])' = {} /\ val'[datas[n]] = Text[i][2]
    <3>1. \A u \in Loading : pc[u] = "file"
      BY <1>3, <1>4, <2>1
    <3>2. Setting(datas[n]) = {} /\ val[datas[n]] = Text[i][2]
      BY <2>1, <3>1 DEF FileInv, RestedInv
    <3>3. datas[n] # var[t] /\ Setting(datas[n])' = {}
      BY <1>1, <1>2, <1>3, <3>2
    <3> QED
      BY <1>1, <1>3, <3>2, <3>3
  <2> QED
    BY <1>1, <1>4, <2>1 DEF RestedInv
<1> QED
  BY <1>5, <1>7, <1>8

(***************************************************************************)
(* The steps of the program: components that come and go, and the setters. *)
(***************************************************************************)
LEMMA FileProgram ==
  ASSUME DataInv, NamesInv, FileInv,
         \/ \E c \in Comps : Attach(c) \/ AttachByName(c) \/ Detach(c)
         \/ \E t \in Threads : setValue(t) \/ Notify(t) \/ Assign(t)
         \/ Tick \/ UNCHANGED vars
  PROVE  RestInv' /\ DoneInv' /\ RestedInv'
<1>0. /\ pc \in [Threads -> PCs] /\ var \in [Threads -> (1..Len(val)) \cup {NoVar}]
      /\ arg \in [Threads -> Values] /\ todo \in [Threads -> Seq(Comps)]
      /\ val \in Seq(Values) /\ Loading \subseteq Threads
      /\ datas \in [Names -> (1..Len(val)) \cup {NoVar}]
      /\ held \in [Comps -> (1..Len(val)) \cup {NoVar}]
      /\ \A t \in Threads : pc[t] = "idle" => t \notin Loading
      /\ Wants \in [Comps -> Names]
  BY ConfigAssumption DEF DataInv, VarsOK, ThreadsOK, PcOK, Loading
<1> DEFINE Same(n) ==
      /\ datas'[n] = datas[n]
      /\ datas[n] # NoVar =>
           /\ val'[datas[n]] = val[datas[n]]
           /\ \A u : u \in Setting(datas[n])' <=> u \in Setting(datas[n])
           /\ \A u \in Setting(datas[n]) : arg'[u] = arg[u]
<1>1. ASSUME NEW c \in Comps, Attach(c) PROVE RestInv' /\ DoneInv' /\ RestedInv'
  <2>1. /\ val' = Append(val, Default) /\ datas' = [datas EXCEPT ![Wants[c]] = Len(val) + 1]
        /\ Wants[c] \in drifted' /\ drifted \subseteq drifted' /\ clean' = {}
        /\ UNCHANGED <<pc, var, arg, file, modify, files, rest>>
    BY <1>0, <1>1 DEF Attach, Lookup, Drift, fileVars, set, load
  <2>2. \A y : Setting(y)' = Setting(y)
    BY <2>1 DEF Setting
  <2>3. \A y \in 1..Len(val) : val'[y] = val[y]
    BY <1>0, <2>1
  <2>4. ASSUME NEW n \in Names, n \notin drifted' \/ clean' # {} PROVE Same(n)
    BY <1>0, <2>1, <2>2, <2>3, <2>4
  <2> QED
    BY <2>1, <2>4, FileFrame DEF Applying
<1>2. ASSUME UNCHANGED <<datas, val, pc, var, arg, file, modify, files, rest, drifted, clean>>
      PROVE  RestInv' /\ DoneInv' /\ RestedInv'
  <2>1. \A y : Setting(y)' = Setting(y)
    BY <1>2 DEF Setting
  <2>2. \A n \in Names : Same(n)
    BY <1>2, <2>1
  <2> QED
    BY <1>2, <2>2, FileFrame DEF Applying
<1>3. ASSUME NEW t \in Threads, setValue(t) PROVE RestInv' /\ DoneInv' /\ RestedInv'
  <2>1. PICK c \in Comps, v \in Values : held[c] # NoVar /\ BeginSet(t, held[c], v) /\ Drift({Wants[c]})
    BY <1>3 DEF setValue
  <2>2. /\ pc[t] = "idle" /\ UNCHANGED <<datas, val, file, modify, files, rest>>
        /\ Wants[c] \in drifted' /\ drifted \subseteq drifted' /\ clean' = {}
    BY <1>3, <2>1 DEF setValue, configVars, fileVars, load, Drift
  <2>3. /\ \A y : y # held[c] => Setting(y)' = Setting(y)
        /\ \A u \in Threads : u # t => pc'[u] = pc[u] /\ arg'[u] = arg[u]
    <3>1. \/ UNCHANGED <<pc, var, arg>>
          \/ /\ \E s \in PCs : pc' = [pc EXCEPT ![t] = s]
             /\ var' = [var EXCEPT ![t] = held[c]] /\ arg' = [arg EXCEPT ![t] = v]
      BY <2>1 DEF BeginSet, Round, set, PCs
    <3> QED
      BY <1>0, <2>2, <3>1 DEF Setting
  <2>4. t \notin Loading /\ \A y : t \notin Setting(y)
    BY <1>0, <2>2 DEF Setting
  <2>5. ASSUME NEW n \in Names, n \notin drifted' \/ clean' # {} PROVE Same(n)
    <3>1. datas[n] # NoVar => datas[n] # held[c]
      BY <2>2, <2>5 DEF NamesInv
    <3> QED
      BY <2>2, <2>3, <2>4, <3>1 DEF Setting
  <2> QED
    BY <1>0, <2>2, <2>3, <2>4, <2>5, FileFrame DEF Applying
<1>4. ASSUME NEW t \in Threads, Notify(t) PROVE RestInv' /\ DoneInv' /\ RestedInv'
  <2> DEFINE c == Head(todo[t])
  <2>1. pc[t] = "notify" /\ UNCHANGED <<datas, val, file, modify, files, rest>>
    BY <1>4 DEF Notify, fileVars, After, load
  <2>2. c \in Comps /\ held[c] = var[t] /\ var[t] \in 1..Len(val)
    BY <1>0, <2>1, TailFacts DEF DataInv, PcOK, InSet
  <2> HIDE DEF c
  <2>3. CASE arg[t] \in Refuses[c]
    <3>1. /\ After(t) /\ Wants[c] \in drifted' /\ drifted \subseteq drifted' /\ clean' = {}
      BY <1>4, <2>3 DEF Notify, Drift, c
    <3>2. /\ \A y : Setting(y)' = Setting(y) \ {t}
          /\ \A u \in Threads \ {t} : pc'[u] = pc[u] /\ arg'[u] = arg[u]
          /\ pc'[t] \in {"idle", "apply"}
      BY <3>1, AfterSetting
    <3>3. ASSUME NEW n \in Names, n \notin drifted' \/ clean' # {} PROVE Same(n)
      <4>1. datas[n] # NoVar => datas[n] # var[t]
        BY <2>2, <3>1, <3>3 DEF NamesInv
      <4>2. datas[n] # NoVar => t \notin Setting(datas[n])
        BY <4>1 DEF Setting
      <4>3. \A u \in Setting(datas[n]) : u \in Threads
        BY DEF Setting
      <4> QED
        BY <2>1, <3>2, <4>2, <4>3
    <3>4. \A u \in Loading : /\ Applying(u)' => Applying(u)
                             /\ pc'[u] = "file" => pc[u] = "file"
      BY <1>0, <2>1, <3>2 DEF Applying
    <3> HIDE DEF Same
    <3>5. clean' \subseteq clean
      BY <3>1
    <3> USE DEF Same
    <3> QED
      BY <2>1, <3>1, <3>3, <3>4, <3>5, FileFrame
  <2>4. CASE arg[t] \notin Refuses[c]
    <3>1. /\ \E s \in {"notify", "assign"} : pc' = [pc EXCEPT ![t] = s]
          /\ UNCHANGED <<var, arg, drifted, clean>>
      BY <1>4, <2>4 DEF Notify, Round, c
    <3>2. \A y : Setting(y)' = Setting(y)
      BY <1>0, <2>1, <3>1 DEF Setting
    <3>3. \A n \in Names : Same(n)
      BY <2>1, <3>1, <3>2
    <3>4. \A u \in Loading : /\ Applying(u)' => Applying(u)
                             /\ pc'[u] = "file" => pc[u] = "file"
      BY <1>0, <2>1, <3>1 DEF Applying
    <3> QED
      BY <2>1, <3>1, <3>3, <3>4, FileFrame
  <2> QED
    BY <2>3, <2>4
<1>5. ASSUME NEW t \in Threads, Assign(t) PROVE RestInv' /\ DoneInv' /\ RestedInv'
  BY SMTT(60), <1>5, FileAssign
<1>6. ASSUME NEW c \in Comps, AttachByName(c) \/ Detach(c) PROVE RestInv' /\ DoneInv' /\ RestedInv'
  BY <1>2, <1>6 DEF AttachByName, Detach, fileVars, set, load, history
<1>7. CASE Tick \/ UNCHANGED vars
  BY <1>2, <1>7 DEF Tick, vars, configVars, fileVars, set, load, history
<1> QED
  BY <1>1, <1>3, <1>4, <1>5, <1>6, <1>7

LEMMA OneFile ==
  ASSUME Len(Dir) = 1
  PROVE  TheFile \in Files /\ \A f \in Files : f = TheFile
  BY ConfigAssumption DEF Files, ToSet, TheFile

(***************************************************************************)
(* Everything else: the loads, and the files' writer.                      *)
(***************************************************************************)
LEMMA FileNext ==
  ASSUME Len(Dir) = 1, DataInv, NamesInv, FileInv, [Next]_vars
  PROVE  RestInv' /\ DoneInv' /\ RestedInv'
<1>0. /\ pc \in [Threads -> PCs] /\ rest \in [Threads -> Entries] /\ Loading \subseteq Threads
      /\ files \in [Threads -> Seq(Files)]
      /\ \A t \in Threads : pc[t] \in {"file", "read", "apply"} => t \in Loading
      /\ \A t \in Threads : pc[t] = "idle" => t \notin Loading
      /\ \A t \in Loading : files[t] = Dir
      /\ TheFile \in Files /\ \A f \in Files : f = TheFile
  BY OneFile DEF DataInv, ThreadsOK, PcOK, Loading, FileInv, LoaderInv
<1>1. CASE \/ \E c \in Comps : Attach(c) \/ AttachByName(c) \/ Detach(c)
           \/ \E t \in Threads : setValue(t) \/ Notify(t) \/ Assign(t)
           \/ Tick \/ UNCHANGED vars
  BY <1>1, FileProgram
<1>2. ASSUME NEW t \in Threads, LoadFromConfDir(t) PROVE RestInv' /\ DoneInv' /\ RestedInv'
  <2>1. /\ pc[t] = "idle" /\ t \notin Loading
        /\ pc' = [pc EXCEPT ![t] = "file"] /\ files' = [files EXCEPT ![t] = Dir]
        /\ UNCHANGED <<datas, val, file, modify, var, rest>>
        /\ IF Loading = {} THEN UNCHANGED <<drifted, clean>> ELSE Drift(Names)
    BY <1>0, <1>2 DEF LoadFromConfDir, configVars, fileVars, set
  <2>2. CASE Loading = {}
    <3>1. /\ Loading' \subseteq {t} /\ pc'[t] = "file" /\ UNCHANGED drifted
          /\ Text' = Text /\ Fresh' = Fresh
          /\ \A n, i, k : LastOf(n, i, k)' <=> LastOf(n, i, k)
      BY <1>0, <2>1, <2>2 DEF Loading, Text, Fresh, LastOf
    <3>2. RestInv' /\ DoneInv'
      BY <3>1 DEF RestInv, DoneInv, Applying
    <3>3. \A y : Setting(y)' = Setting(y)
      BY <1>0, <2>1 DEF Setting
    <3>4. RestedInv'
      BY <2>1, <2>2, <3>1, <3>3 DEF FileInv, RestedInv
    <3> QED
      BY <3>2, <3>4
  <2>3. CASE Loading # {}
    BY <2>1, <2>3, FileVoid DEF Drift
  <2> QED
    BY <2>2, <2>3
<1>3. ASSUME NEW t \in Threads, t \in Loading, NextFile(t), UNCHANGED <<datas, val, file, modify, var, rest>>,
             clean' \subseteq clean, t \in clean \/ drifted' = drifted,
             pc[t] \in {"file", "apply"},
             (\A u \in Loading \ {t} : pc[u] = "file") =>
                 \A n \in Names : Fresh /\ n \notin drifted' /\ datas[n] # NoVar =>
                   \A i \in 1..Len(Text) : LastOf(n, i, Len(Text)) =>
                     Setting(datas[n]) = {} /\ val[datas[n]] = Text[i][2]
      PROVE  RestInv' /\ DoneInv' /\ RestedInv'
  <2>1. pc' = [pc EXCEPT ![t] = "idle"] /\ files' = [files EXCEPT ![t] = Tail(Dir)]
    BY <1>0, <1>3 DEF NextFile
  <2>2. Tail(Dir) = <<>>
    BY ConfigAssumption, TailFacts
  <2>3. Loading' = Loading \ {t} /\ \A u \in Loading' : pc'[u] = pc[u]
    BY <1>0, <2>1, <2>2 DEF Loading
  <2>4. \A y : Setting(y)' = Setting(y)
    BY <1>0, <1>3, <2>1 DEF Setting
  <2>5. Text' = Text /\ Fresh' = Fresh /\ \A n, i, k : LastOf(n, i, k)' <=> LastOf(n, i, k)
    BY <1>3 DEF Text, Fresh, LastOf
  <2>6. \A u \in Loading', n \in Names : ~Follows(n, u)'
    <3>1. ASSUME NEW u \in Loading', NEW n \in Names PROVE ~Follows(n, u)'
      <4>1. u \in Loading /\ u # t
        BY <2>3
      <4>2. ~Follows(n, u) /\ t \notin clean
        BY <1>3, <4>1, OnlyLoader DEF FileInv, LoaderInv
      <4> QED
        BY <1>3, <4>2 DEF Follows
    <3> QED
      BY <3>1
  <2>7. RestInv' /\ DoneInv'
    BY <2>6 DEF RestInv, DoneInv
  <2>8. RestedInv'
    <3>1. ASSUME Fresh, \A u \in Loading' : pc'[u] = "file", NEW n \in Names, n \notin drifted',
                 datas[n] # NoVar, NEW i \in 1..Len(Text), LastOf(n, i, Len(Text))
          PROVE  Setting(datas[n])' = {} /\ val'[datas'[n]] = Text[i][2]
      <4>1. Setting(datas[n]) = {} /\ val[datas[n]] = Text[i][2]
        BY <1>3, <2>3, <3>1
      <4> QED
        BY <1>3, <2>4, <4>1
    <3> QED
      BY <1>3, <2>5, <3>1 DEF RestedInv
  <2> QED
    BY <2>7, <2>8
<1>4. ASSUME NEW t \in Threads, Skip(t) PROVE RestInv' /\ DoneInv' /\ RestedInv'
  <2>1. /\ pc[t] = "file" /\ NextFile(t) /\ t \in Loading
        /\ UNCHANGED <<datas, val, file, modify, var, rest, drifted, clean>>
    BY <1>0, <1>4 DEF Skip, configVars, fileVars, set, history
  <2>2. (\A u \in Loading \ {t} : pc[u] = "file") => \A u \in Loading : pc[u] = "file"
    BY <2>1
  <2> QED
    BY <1>3, <2>1, <2>2 DEF FileInv, RestedInv
<1>5. ASSUME NEW t \in Threads, Record(t) PROVE RestInv' /\ DoneInv' /\ RestedInv'
  <2>1. /\ pc' = [pc EXCEPT ![t] = "read"] /\ t \in Loading
        /\ UNCHANGED <<files, drifted>> /\ clean' = IF Loading = {t} THEN {t} ELSE {}
    BY <1>0, <1>5 DEF Record, load
  <2>2. Loading' = Loading /\ ~Applying(t)' /\ pc'[t] # "file"
    BY <1>0, <2>1 DEF Loading, Applying
  <2>3. \A u \in Loading', n \in Names : u # t => ~Follows(n, u)'
    BY <2>1, <2>2 DEF FileInv, LoaderInv, Follows
  <2> QED
    BY <2>1, <2>2, <2>3 DEF RestInv, DoneInv, RestedInv
<1>6. ASSUME NEW t \in Threads, Read(t) PROVE RestInv' /\ DoneInv' /\ RestedInv'
  <2>1. /\ pc' = [pc EXCEPT ![t] = "apply"] /\ t \in Loading
        /\ rest' = [rest EXCEPT ![t] = IF Text = Bad THEN <<>> ELSE Text]
        /\ UNCHANGED <<files, file, drifted, clean>>
    <3>1. Head(files[t]) = TheFile
      BY <1>0, <1>6 DEF Read, TheFile
    <3> QED
      BY <1>0, <1>6, <3>1 DEF Read, Text, history, fileVars
  <2>2. Loading' = Loading /\ Text' = Text /\ pc'[t] # "file"
    BY <1>0, <2>1 DEF Loading, Text
  <2>3. \A u \in Loading', n \in Names : u # t => ~Follows(n, u)'
    BY <2>1, <2>2, OnlyLoader DEF FileInv, Follows
  <2>4. Fresh' => rest'[t] = Text
    BY <1>0, <2>1, <2>2 DEF Fresh
  <2>5. Fresh' => Len(Text) \in Nat
    <3>1. Text \in Contents
      BY <1>0 DEF Text, DataInv, FilesOK
    <3> QED
      BY <2>2, <3>1, ConfigAssumption DEF Fresh
  <2>6. Fresh' => Done(t)' = 0
    BY <2>2, <2>4, <2>5 DEF Done
  <2>7. RestInv'
    <3>1. ASSUME Fresh'
          PROVE  /\ Len(rest'[t]) <= Len(Text)
                 /\ \A i \in 1..Len(rest'[t]) : rest'[t][i] = Text[Done(t)' + i]
      BY <2>4, <2>5, <2>6, <3>1
    <3> QED
      BY <2>2, <2>3, <3>1 DEF RestInv
  <2>8. DoneInv'
    BY <2>2, <2>3, <2>6 DEF DoneInv
  <2> QED
    BY <2>2, <2>1, <2>7, <2>8 DEF RestedInv
<1>7. ASSUME NEW t \in Threads, LoadEntry(t) PROVE RestInv' /\ DoneInv' /\ RestedInv'
  BY <1>7, FileEntry
<1>8. ASSUME NEW t \in Threads, LoadEnd(t) PROVE RestInv' /\ DoneInv' /\ RestedInv'
  <2>1. /\ pc[t] = "apply" /\ rest[t] = <<>> /\ NextFile(t) /\ t \in Loading
        /\ UNCHANGED <<datas, val, file, modify, var, rest>>
        /\ clean' \subseteq clean /\ (t \in clean \/ drifted' = drifted)
    BY <1>0, <1>8 DEF LoadEnd, configVars, fileVars, set
  <2>2. ASSUME NEW n \in Names, Fresh, n \notin drifted', datas[n] # NoVar,
               NEW i \in 1..Len(Text), LastOf(n, i, Len(Text))
        PROVE  Setting(datas[n]) = {} /\ val[datas[n]] = Text[i][2]
    <3>1. Text \in Contents
      BY <1>0 DEF Text, DataInv, FilesOK
    <3>2. Len(Text) \in Nat
      BY <2>2, <3>1, ConfigAssumption DEF Fresh
    <3>3. Done(t) = Len(Text)
      BY <2>1, <3>2 DEF Done
    <3>4. Follows(n, t) /\ Applying(t)
      BY <2>1, <2>2 DEF Follows, Applying
    <3>5. Given(t, n, Text[i][2])
      BY <2>1, <2>2, <3>3, <3>4 DEF FileInv, DoneInv
    <3>6. t \notin Setting(datas[n])
      BY <2>1 DEF Setting
    <3> QED
      BY <3>5, <3>6 DEF Given
  <2> QED
    BY <1>3, <2>1, <2>2
<1>9. ASSUME NEW f \in Files, Edit(f) PROVE RestInv' /\ DoneInv' /\ RestedInv'
  <2>1. f = TheFile
    BY <1>0
  <2>2. CASE file[f].mtime = now
    BY <1>9, <2>2, FileVoid DEF Edit, Drift
  <2>3. CASE file[f].mtime # now
    <3>1. PICK c \in Contents : file' = [file EXCEPT ![f] = [holds |-> c, mtime |-> now]]
      BY <1>9 DEF Edit
    <3>2. file'[f].mtime = now /\ modify' = modify
      BY <1>9, <3>1 DEF Edit, DataInv, FilesOK
    <3>3. modify[f] \in Nat /\ file[f].mtime \in Nat /\ now \in Nat
          /\ modify[f] <= file[f].mtime /\ file[f].mtime <= now
      BY DEF DataInv, FilesOK
    <3>4. modify'[TheFile] # file'[TheFile].mtime
      BY <2>1, <2>3, <3>2, <3>3
    <3> QED
      BY <3>4, FileVoid DEF Fresh
  <2> QED
    BY <2>2, <2>3
<1> QED
  BY <1>1, <1>2, <1>4, <1>5, <1>6, <1>7, <1>8, <1>9 DEF Next

LEMMA FileInit == Init => NamesInv /\ FileInv
<1> SUFFICES ASSUME Init PROVE NamesInv /\ FileInv
  OBVIOUS
<1>1. NamesInv
  BY DEF Init, NamesInv
<1>2. Loading = {} /\ drifted = Names /\ clean = {}
  BY DEF Init, Loading
<1> QED
  BY <1>1, <1>2 DEF FileInv, LoaderInv, RestInv, DoneInv, RestedInv

(***************************************************************************)
(* What holds between loads is what the property says of the only file.    *)
(***************************************************************************)
LEMMA FileFollows ==
  ASSUME DataInv, Len(Dir) = 1 => FileInv
  PROVE  ConfigFollowsFile
<1>1. SUFFICES ASSUME Len(Dir) = 1, Quiet, NEW f \in Files, modify[f] = file[f].mtime,
                      file[f].holds # Bad, NEW n \in Names \ drifted,
                      NEW i \in DOMAIN file[f].holds, datas[n] # NoVar,
                      LastFor(n, file[f].holds, i)
               PROVE  val[datas[n]] = file[f].holds[i][2]
  BY DEF ConfigFollowsFile
<1>2. f = TheFile /\ TheFile \in Files
  BY <1>1, OneFile
<1>3. Fresh /\ file[f].holds = Text
  BY <1>1, <1>2 DEF Fresh, Text
<1>4. Loading = {}
  BY <1>1 DEF Quiet, Loading, DataInv, PcOK
<1>5. Text \in Contents
  BY <1>2 DEF Text, DataInv, FilesOK
<1>6. i \in 1..Len(Text)
  BY <1>1, <1>3, <1>5, ConfigAssumption DEF Fresh
<1>7. LastOf(n, i, Len(Text))
  BY <1>1, <1>3 DEF LastOf, LastFor
<1> QED
  BY <1>1, <1>3, <1>4, <1>6, <1>7 DEF FileInv, RestedInv

(***************************************************************************)
(* A file that the next LoadFromConfDir passes over has been applied, for  *)
(* every number of names, setters, loaders and entries: mtime is noted     *)
(* before the file is read, and an Edit after that makes it differ.        *)
(***************************************************************************)
THEOREM FileCorrect == Spec => []ConfigFollowsFile
<1> DEFINE OneFileInv == Len(Dir) = 1 => FileInv
<1>1. Init => DataInv /\ NamesInv /\ OneFileInv
  BY DataInit, FileInit
<1>2. DataInv /\ NamesInv /\ OneFileInv /\ [Next]_vars => (DataInv /\ NamesInv /\ OneFileInv)'
  <2> SUFFICES ASSUME DataInv, NamesInv, OneFileInv, [Next]_vars
               PROVE  DataInv' /\ NamesInv' /\ OneFileInv'
    OBVIOUS
  <2>1. ASSUME Len(Dir) = 1 PROVE FileInv'
    <3>1. LoaderInv'
      BY <2>1, LoaderNext DEF FileInv
    <3>2. RestInv' /\ DoneInv' /\ RestedInv'
      BY <2>1, FileNext
    <3> QED
      BY <3>1, <3>2 DEF FileInv
  <2> QED
    BY <2>1, DataNext, NamesNext
<1>3. DataInv /\ OneFileInv => ConfigFollowsFile
  BY FileFollows
<1> HIDE DEF OneFileInv
<1> QED
  BY <1>1, <1>2, <1>3, PTL DEF Spec
=============================================================================
