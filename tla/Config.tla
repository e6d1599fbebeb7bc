------------------------------- MODULE Config -------------------------------
(***************************************************************************)
(* Configuration variables (base/Config.h, base/Config.cc): the registry   *)
(* of names, the variables with the listeners that copy their values, and  *)
(* the loading of the files of a directory.                                *)
(*                                                                         *)
(* setValue compares and tells the listeners under the variable's read     *)
(* lock and stores the value under its write lock afterwards, so that two  *)
(* setters can be between the two at once.  A listener is modelled as what *)
(* it is for in the code: a component's copy of the value (hook.cc's       *)
(* s_connect_timeout), which it may refuse with an exception.              *)
(***************************************************************************)
EXTENDS Naturals, Sequences, FiniteSets, SequencesExt

CONSTANTS
  Names,      \* of variables
  Values,
  Default,    \* the default value given to Lookup
  Comps,      \* components that look a name up and listen
  Wants,      \* the name each one looks up
  Refuses,    \* the values its listener throws at
  Threads,
  Dir,        \* the files of the directory, as ListAllFile lists them
  Contents,   \* what a file may hold: a sequence of names and values
  Bad,        \* what cannot be converted or parsed
  NoVar,
  MaxVars,    \* bound: how many ConfigVars are made
  MaxTime,    \* bound: seconds, the resolution of st_mtime
  MaxCalls,   \* bound: calls of setValue and delListener by the program
  MaxLoads    \* bound: calls of LoadFromConfDir

Files == ToSet(Dir)
Vars == 1..MaxVars

ASSUME ConfigAssumption ==
  /\ Default \in Values
  /\ Wants \in [Comps -> Names]
  /\ Refuses \in [Comps -> SUBSET Values]
  /\ Bad \notin Values
  /\ NoVar \notin Vars
  /\ Dir \in Seq(Files) \ {<<>>}
  /\ \A c \in Contents : c = Bad \/ c \in Seq(Names \X (Values \cup {Bad}))
  /\ {MaxVars, MaxTime, MaxCalls, MaxLoads} \subseteq Nat

VARIABLES
  datas,     \* GetDatas()
  val,       \* val_ of each variable, in the order they are made
  cbs,       \* cbs_ of each variable
  held,      \* the variable each component has
  copy,      \* the value each component has copied
  file,      \* contents and mtime of the files
  modify,    \* s_file2modifytime
  now,       \* the clock
  pc,        \* where each thread is
  var,       \* of its setValue: the variable,
  arg,       \*   the value
  todo,      \*   and the listeners still to be told
  files,     \* of its LoadFromConfDir: the files that are left
  rest,      \*   and the entries of the one it reads
  forced,    \* the threads that load with force
  alone,     \* setters that no other setter or new listener has come between
  calls,
  loads,
  confused,  \* variables whose last setValue was not alone, or refused
  drifted,   \* names whose variable was set or made after the last load
  clean      \* loaders that nothing has come between

configVars == <<datas, val, cbs, held, copy>>
fileVars == <<file, modify, now>>
set == <<var, arg, todo, alone>>
load == <<files, rest, forced>>
history == <<calls, loads, confused, drifted, clean>>
vars == <<configVars, fileVars, pc, set, load, history>>

Init ==
  /\ datas = [n \in Names |-> NoVar]
  /\ val = <<>>
  /\ cbs = <<>>
  /\ held = [c \in Comps |-> NoVar]
  /\ copy = [c \in Comps |-> Default]
  /\ file \in [Files -> [holds : Contents, mtime : {1}]]
  /\ modify = [f \in Files |-> 0]
  /\ now = 1
  /\ pc = [t \in Threads |-> "idle"]
  /\ var = [t \in Threads |-> NoVar]
  /\ arg = [t \in Threads |-> Default]
  /\ todo = [t \in Threads |-> <<>>]
  /\ files = [t \in Threads |-> <<>>]
  /\ rest = [t \in Threads |-> <<>>]
  /\ forced = {}
  /\ alone = {}
  /\ calls = 0
  /\ loads = 0
  /\ confused = {}
  /\ drifted = Names
  /\ clean = {}

Setting(x) == {t \in Threads : pc[t] \in {"notify", "assign"} /\ var[t] = x}
Notifying(x) == {t \in Setting(x) : pc[t] = "notify"}
Loading == {t \in Threads : files[t] # <<>>}
Quiet == \A t \in Threads : pc[t] = "idle"

(* The names of ns do not follow the files any more. *)
Drift(ns) == drifted' = drifted \cup ns /\ clean' = {}

-----------------------------------------------------------------------------
(* Lookup *)

(***************************************************************************)
(* Lookup(name, default): a new variable, which takes the place of one     *)
(* that is there with the same type; whoever holds that one keeps it.      *)
(***************************************************************************)
Lookup(n) ==
  /\ Len(val) < MaxVars
  /\ val' = Append(val, Default)
  /\ datas' = [datas EXCEPT ![n] = Len(val) + 1]

(* A component comes up (hook.cc): Lookup, value, addListener. *)
Attach(c) ==
  /\ held[c] = NoVar
  /\ Lookup(Wants[c])
  /\ held' = [held EXCEPT ![c] = Len(val) + 1]
  /\ copy' = [copy EXCEPT ![c] = Default]
  /\ cbs' = Append(cbs, <<c>>)
  /\ Drift({Wants[c]})
  /\ UNCHANGED <<fileVars, pc, set, load, calls, loads, confused>>

(***************************************************************************)
(* One that looks the name up without a default: addListener waits for the *)
(* rounds in progress.  A setter that has told everybody and not stored    *)
(* its value yet will not tell the new one.                                *)
(***************************************************************************)
AttachByName(c) ==
  LET x == datas[Wants[c]]
  IN /\ held[c] = NoVar
     /\ x # NoVar
     /\ Notifying(x) = {}
     /\ held' = [held EXCEPT ![c] = x]
     /\ copy' = [copy EXCEPT ![c] = val[x]]
     /\ cbs' = [cbs EXCEPT ![x] = Append(@, c)]
     /\ alone' = alone \ Setting(x)
     /\ UNCHANGED <<datas, val, fileVars, pc, var, arg, todo, load, history>>

(* Mutant: the listener stays. *)
Detach_keeps_listener(c) ==
  /\ held[c] # NoVar
  /\ calls < MaxCalls
  /\ calls' = calls + 1
  /\ held' = [held EXCEPT ![c] = NoVar]
  /\ UNCHANGED <<datas, val, cbs, copy, fileVars, pc, set, load, loads, confused, drifted, clean>>

(* What addListener returned: where c is in cbs_. *)
Key(cs, c) == CHOOSE i \in DOMAIN cs : cs[i] = c

(* delListener *)
Detach(c) ==
  LET x == held[c]
  IN /\ x # NoVar
     /\ Notifying(x) = {}
     /\ calls < MaxCalls
     /\ calls' = calls + 1
     /\ held' = [held EXCEPT ![c] = NoVar]
     /\ cbs' = [cbs EXCEPT ![x] = RemoveAt(@, Key(@, c))]
     /\ UNCHANGED <<datas, val, copy, fileVars, pc, set, load, loads, confused, drifted, clean>>

-----------------------------------------------------------------------------
(* setValue *)

(* A setValue is over: its caller or the next entry of the file goes on. *)
After(t) ==
  /\ pc' = [pc EXCEPT ![t] = IF files[t] = <<>> THEN "idle" ELSE "apply"]
  /\ var' = [var EXCEPT ![t] = NoVar]
  /\ arg' = [arg EXCEPT ![t] = Default]
  /\ todo' = [todo EXCEPT ![t] = <<>>]
  /\ alone' = alone \ {t}
  /\ UNCHANGED load

(* The listeners still to be told, and then the value is to be stored. *)
Round(cs) == IF cs = <<>> THEN "assign" ELSE "notify"

(* v == val_ is looked at, and the listeners' round begins. *)
BeginSet(t, x, v) ==
  IF v = val[x] THEN UNCHANGED <<pc, set>>
  ELSE /\ pc' = [pc EXCEPT ![t] = Round(cbs[x])]
       /\ var' = [var EXCEPT ![t] = x]
       /\ arg' = [arg EXCEPT ![t] = v]
       /\ todo' = [todo EXCEPT ![t] = cbs[x]]
       /\ alone' = IF Setting(x) = {} THEN alone \cup {t} ELSE alone \ Setting(x)

(* The program sets a variable that a component holds. *)
setValue(t) ==
  /\ pc[t] = "idle"
  /\ calls < MaxCalls
  /\ calls' = calls + 1
  /\ \E c \in Comps, v \in Values :
       /\ held[c] # NoVar
       /\ BeginSet(t, held[c], v)
       /\ Drift({Wants[c]})
  /\ UNCHANGED <<configVars, fileVars, load, loads, confused>>

(* Mutant: an exception is swallowed and the round goes on. *)
Notify_goes_on(t) ==
  LET c == Head(todo[t])
  IN /\ pc[t] = "notify"
     /\ pc' = [pc EXCEPT ![t] = Round(Tail(todo[t]))]
     /\ todo' = [todo EXCEPT ![t] = Tail(@)]
     /\ copy' = IF arg[t] \in Refuses[c] THEN copy ELSE [copy EXCEPT ![c] = arg[t]]
     /\ UNCHANGED <<datas, val, cbs, held, fileVars, var, arg, alone, load, history>>

(* One listener is called: it copies the value, or throws. *)
Notify(t) ==
  LET c == Head(todo[t])
  IN /\ pc[t] = "notify"
     /\ IF arg[t] \in Refuses[c]
        THEN /\ After(t)
             /\ confused' = confused \cup {var[t]}
             /\ Drift({Wants[c]})
             /\ UNCHANGED copy
        ELSE /\ pc' = [pc EXCEPT ![t] = Round(Tail(todo[t]))]
             /\ todo' = [todo EXCEPT ![t] = Tail(@)]
             /\ copy' = [copy EXCEPT ![c] = arg[t]]
             /\ UNCHANGED <<var, arg, alone, load, confused, drifted, clean>>
     /\ UNCHANGED <<datas, val, cbs, held, fileVars, calls, loads>>

Stored(t) ==
  /\ val' = [val EXCEPT ![var[t]] = arg[t]]
  /\ After(t)
  /\ confused' = IF t \in alone THEN confused \ {var[t]} ELSE confused \cup {var[t]}
  /\ UNCHANGED <<datas, cbs, held, copy, fileVars, calls, loads, drifted, clean>>

(* Mutant: the write lock is not taken. *)
Assign_unlocked(t) ==
  /\ pc[t] = "assign"
  /\ Stored(t)

(* val_ = v once every reader has left, those that notify too. *)
Assign(t) ==
  /\ pc[t] = "assign"
  /\ Notifying(var[t]) = {}
  /\ Stored(t)

-----------------------------------------------------------------------------
(* LoadFromConfDir *)

LoadFromConfDir(t) ==
  /\ pc[t] = "idle"
  /\ loads < MaxLoads
  /\ loads' = loads + 1
  /\ pc' = [pc EXCEPT ![t] = "file"]
  /\ files' = [files EXCEPT ![t] = Dir]
  /\ forced' \in {forced, forced \cup {t}}
  /\ IF Loading = {} THEN UNCHANGED <<drifted, clean>> ELSE Drift(Names)
  /\ UNCHANGED <<configVars, fileVars, set, rest, calls, confused>>

NextFile(t) ==
  /\ pc' = [pc EXCEPT ![t] = IF Len(files[t]) = 1 THEN "idle" ELSE "file"]
  /\ files' = [files EXCEPT ![t] = Tail(@)]
  /\ forced' = IF Len(files[t]) = 1 THEN forced \ {t} ELSE forced

(* A file is passed over if its mtime is the one remembered, ... *)
Skip(t) ==
  LET f == Head(files[t])
  IN /\ pc[t] = "file"
     /\ t \notin forced /\ modify[f] = file[f].mtime
     /\ NextFile(t)
     /\ UNCHANGED <<configVars, fileVars, set, rest, history>>

(* ... which is noted before the file is read. *)
Record(t) ==
  LET f == Head(files[t])
  IN /\ pc[t] = "file"
     /\ t \in forced \/ modify[f] # file[f].mtime
     /\ modify' = [modify EXCEPT ![f] = file[f].mtime]
     /\ pc' = [pc EXCEPT ![t] = "read"]
     /\ clean' = IF Loading = {t} THEN {t} ELSE {}
     /\ UNCHANGED <<configVars, file, now, set, load, calls, loads, confused, drifted>>

(* LoadFile and ListAllMember; nothing is taken from a file with an error. *)
Read(t) ==
  LET f == Head(files[t])
  IN /\ pc[t] = "read"
     /\ pc' = [pc EXCEPT ![t] = "apply"]
     /\ rest' = [rest EXCEPT ![t] = IF file[f].holds = Bad THEN <<>> ELSE file[f].holds]
     /\ UNCHANGED <<configVars, fileVars, set, files, forced, history>>

(* One entry: fromString of the variable of that name, if there is one; a  *)
(* value that cannot be converted is passed over, and so is an exception.  *)
LoadEntry(t) ==
  LET n == Head(rest[t])[1]
      v == Head(rest[t])[2]
  IN /\ pc[t] = "apply"
     /\ rest[t] # <<>>
     /\ rest' = [rest EXCEPT ![t] = Tail(@)]
     /\ IF datas[n] # NoVar /\ v # Bad
        THEN /\ BeginSet(t, datas[n], v)
             /\ IF Setting(datas[n]) = {} THEN UNCHANGED <<drifted, clean>> ELSE Drift({n})
        ELSE UNCHANGED <<pc, set, drifted, clean>>
     /\ UNCHANGED <<configVars, fileVars, files, forced, calls, loads, confused>>

(* Mutant: the time is noted once the file has been applied. *)
LoadEnd_records(t) ==
  LET f == Head(files[t])
  IN /\ pc[t] = "apply"
     /\ rest[t] = <<>>
     /\ NextFile(t)
     /\ modify' = [modify EXCEPT ![f] = file[f].mtime]
     /\ drifted' = IF t \in clean /\ Len(Dir) = 1 THEN {} ELSE drifted
     /\ clean' = clean \ {t}
     /\ UNCHANGED <<configVars, file, now, set, rest, calls, loads, confused>>

(* With one file in the directory, its names follow it from here. *)
LoadEnd(t) ==
  /\ pc[t] = "apply"
  /\ rest[t] = <<>>
  /\ NextFile(t)
  /\ drifted' = IF t \in clean /\ Len(Dir) = 1 THEN {} ELSE drifted
  /\ clean' = clean \ {t}
  /\ UNCHANGED <<configVars, fileVars, set, rest, calls, loads, confused>>

-----------------------------------------------------------------------------
(* The files are written by somebody else. *)

Edit(f) ==
  /\ \E c \in Contents :
       /\ c # file[f].holds
       /\ file' = [file EXCEPT ![f] = [holds |-> c, mtime |-> now]]
  /\ IF file[f].mtime = now THEN Drift(Names) ELSE UNCHANGED <<drifted, clean>>
  /\ UNCHANGED <<configVars, modify, now, pc, set, load, calls, loads, confused>>

Tick ==
  /\ now < MaxTime
  /\ now' = now + 1
  /\ UNCHANGED <<configVars, file, modify, pc, set, load, history>>

Next ==
  \/ \E c \in Comps : Attach(c) \/ AttachByName(c) \/ Detach(c)
  \/ \E t \in Threads :
       \/ setValue(t) \/ Notify(t) \/ Assign(t)
       \/ LoadFromConfDir(t) \/ Skip(t) \/ Record(t) \/ Read(t) \/ LoadEntry(t) \/ LoadEnd(t)
  \/ \E f \in Files : Edit(f)
  \/ Tick

Spec == Init /\ [][Next]_vars

-----------------------------------------------------------------------------
(* Properties *)

(***************************************************************************)
(* Types; and a component's listener is in cbs_ of the variable it holds   *)
(* and in no other's, so that it is told once and by the right one.        *)
(***************************************************************************)
TypeOK ==
  /\ val \in Seq(Values) /\ Len(val) <= MaxVars
  /\ datas \in [Names -> (DOMAIN val) \cup {NoVar}]
  /\ held \in [Comps -> (DOMAIN val) \cup {NoVar}]
  /\ copy \in [Comps -> Values]
  /\ \A x \in DOMAIN val : \A c \in Comps : c \in ToSet(cbs[x]) <=> held[c] = x
  /\ \A f \in Files : modify[f] <= file[f].mtime /\ file[f].mtime <= now
  /\ pc \in [Threads -> {"idle", "file", "read", "apply", "notify", "assign"}]

(***************************************************************************)
(* A listener is told of changes only: while the round of v goes on, the   *)
(* variable does not become v behind its back, although another setter of  *)
(* v may already have told its own round.                                  *)
(***************************************************************************)
ChangeIsReal ==
  \A t \in Threads : pc[t] = "notify" => val[var[t]] # arg[t]

(***************************************************************************)
(* A component's copy is the value of the variable it holds once nobody    *)
(* is setting it, unless the last setters came together (each may tell     *)
(* the listeners before the other and store after it), a listener was      *)
(* added between the two halves of setValue, or one threw (those before it *)
(* keep a value that is never stored).                                     *)
(***************************************************************************)
CopyFollows ==
  \A c \in Comps :
    held[c] # NoVar /\ Setting(held[c]) = {} /\ held[c] \notin confused
      => copy[c] = val[held[c]]

(* The file's last word about n that can be converted is its i-th entry.   *)
LastFor(n, es, i) ==
  /\ es[i][1] = n /\ es[i][2] # Bad
  /\ \A j \in (i + 1)..Len(es) : es[j][1] # n \/ es[j][2] = Bad

(***************************************************************************)
(* A file that the next LoadFromConfDir passes over has been applied: each *)
(* of its names has the file's value.  It need not if the variable was set *)
(* by the program or made later, a listener threw, two loads overlapped or *)
(* the file was written twice in a second.                                 *)
(***************************************************************************)
ConfigFollowsFile ==
  \A f \in Files :
    Quiet /\ Len(Dir) = 1 /\ modify[f] = file[f].mtime /\ file[f].holds # Bad =>
      \A n \in Names \ drifted : \A i \in DOMAIN file[f].holds :
        datas[n] # NoVar /\ LastFor(n, file[f].holds, i)
          => val[datas[n]] = file[f].holds[i][2]
=============================================================================
