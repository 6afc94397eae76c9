------------------------- MODULE ModuleManagerProofs -------------------------
(***************************************************************************)
(* Proofs about module ModuleManager, for any modules, imports and bounds, *)
(* and any files that fail.                                                *)
(***************************************************************************)
EXTENDS ModuleManager, FiniteSetTheorems, WellFoundedInduction, SequenceTheorems, TLAPS

-----------------------------------------------------------------------------
(* Numbers and sequences.  Induction over the natural numbers is stated with
   sets: the library's theorems take an operator, which the provers cannot
   instantiate, but a set of numbers is a value like any other. *)

\* "Less than" as a set of pairs.
LEMMA LessPairs == OpToRel(<, Nat) = {p \in Nat \X Nat : p[1] < p[2]}
  BY Zenon DEF OpToRel

\* A set of natural numbers that is not empty has a least element.
LEMMA LeastElement ==
  ASSUME NEW S \in SUBSET Nat, S # {}
  PROVE  \E x \in S : \A y \in S : x <= y
<1>1. \E x \in S : \A y \in S : ~ (<<y, x>> \in OpToRel(<, Nat))
  BY WFMin, NatLessThanWellFounded, Zenon
<1>2. PICK x \in S : \A y \in S : ~ (<<y, x>> \in {p \in Nat \X Nat : p[1] < p[2]})
  BY <1>1, LessPairs, Zenon
<1>3. ASSUME NEW y \in S PROVE x <= y
  <2>1. <<y, x>> \in Nat \X Nat /\ ~ (<<y, x>> \in {p \in Nat \X Nat : p[1] < p[2]})
    BY <1>2
  <2>2. ~ (y < x)
    BY <2>1
  <2>. QED BY <2>2
<1>. QED BY <1>3

\* A set with 0 and, for each of its elements, the next number has them all.
LEMMA SetInduction ==
  ASSUME NEW S, 0 \in S, \A n \in Nat : n \in S => n + 1 \in S
  PROVE  Nat \subseteq S
<1> SUFFICES ASSUME Nat \ S # {} PROVE FALSE
  OBVIOUS
<1>1. PICK x \in Nat \ S : \A y \in Nat \ S : x <= y
  BY LeastElement
<1>2. x # 0 /\ x - 1 \in Nat
  OBVIOUS
<1>3. x - 1 \in S
  BY <1>1, <1>2
<1>. QED BY <1>2, <1>3

\* Sequences of at most one element.
LEMMA ShortSequences ==
  ASSUME NEW S
  PROVE  /\ <<>> \in Seq(S) /\ Len(<<>>) = 0 /\ DOMAIN <<>> = {}
         /\ \A x \in S : /\ <<x>> \in Seq(S) /\ Len(<<x>>) = 1
                         /\ DOMAIN <<x>> = {1} /\ <<x>>[1] = x
  OBVIOUS

\* The first elements of a sequence.
LEMMA PrefixIs ==
  ASSUME NEW S, NEW s \in Seq(S), NEW n \in Nat, n <= Len(s)
  PROVE  /\ SubSeq(s, 1, n) \in Seq(S)
         /\ Len(SubSeq(s, 1, n)) = n
         /\ \A i \in 1 .. n : SubSeq(s, 1, n)[i] = s[i]
<1>1. \A i \in 1 .. n : s[i] \in S
  OBVIOUS
<1>2. Len(SubSeq(s, 1, n)) = IF 1 <= n THEN n - 1 + 1 ELSE 0
  BY <1>1, SubSeqProperties
<1>3. SubSeq(s, 1, n) \in Seq(S)
  BY <1>1, SubSeqProperties
<1>4. \A i \in 1 .. n - 1 + 1 : SubSeq(s, 1, n)[i] = s[1 + i - 1]
  BY <1>1, SubSeqProperties
<1>. QED BY <1>2, <1>3, <1>4

\* All but the last.
LEMMA FrontIs ==
  ASSUME NEW S, NEW s \in Seq(S), s # <<>>
  PROVE  /\ Front(s) \in Seq(S)
         /\ Len(Front(s)) = Len(s) - 1
         /\ \A i \in 1 .. Len(s) - 1 : Front(s)[i] = s[i]
<1>1. Len(s) \in Nat \ {0}
  BY EmptySeq
<1>2. Len(s) - 1 \in Nat /\ Len(s) - 1 <= Len(s)
  BY <1>1
<1>. QED BY <1>2, PrefixIs DEF Front

-----------------------------------------------------------------------------
\* The inductive invariant.

Stages == {"lookup", "search", "fill", "store", "return"}
Frames == [mod : Obj, phase : {"init", "main"}, at : Nat \ {0}, main : BOOLEAN]
Modules == [name : Names, complete : BOOLEAN, init : {"none", "func", "nil"}]
Loads == [name : Names, flags : SUBSET {"reload", "nocache"}, stage : Stages]

Types ==
    /\ DOMAIN cache \subseteq Names /\ cache \in [DOMAIN cache -> Obj]
    /\ DOMAIN objs \subseteq Obj /\ objs \in [DOMAIN objs -> Modules]
    /\ temp \in Obj \cup {0} /\ host \in Obj \cup {0}
    /\ load \in Loads \cup {NoLoad}
    /\ stack \in Seq(Frames)
    /\ status \in {"ok", "exc", "crashed"} /\ ops \in 0 .. MaxOps

\* A load under way leaves room for the frame it may end with.
Depth ==
    /\ Len(stack) <= MaxDepth + 1
    /\ load # NoLoad => Len(stack) <= MaxDepth

Whole(m) == m \in DOMAIN objs /\ objs[m].complete

\* What can be found is whole.
HoldersWhole ==
    /\ \A n \in DOMAIN cache : Whole(cache[n]) /\ objs[cache[n]].name = n
    /\ host # 0 => Whole(host)
    /\ \A k \in DOMAIN stack : Whole(stack[k].mod)

\* The module being loaded, stage by stage.  A name is loaded though it is in
\* the cache only on request.
LoadStages ==
    /\ load.stage \in {"none", "lookup", "search"} => temp = 0
    /\ load.stage = "fill" =>
        temp \in DOMAIN objs /\ objs[temp].name = load.name /\ temp \notin done
    /\ load.stage = "store" => Whole(temp) /\ objs[temp].name = load.name
    /\ load.stage = "return" /\ temp # 0 => Whole(temp) /\ objs[temp].name = load.name
    /\ load.stage \in {"search", "fill", "store"} /\ load.name \in DOMAIN cache =>
        "reload" \in load.flags

\* The initializer that has run is gone.
DoneNil == done \subseteq DOMAIN objs /\ \A m \in done : objs[m].init = "nil"

NameAt(k) == objs[stack[k].mod].name

\* Every call but the innermost is an initializer, and each imported the next;
\* the innermost imports the module being loaded.
ImportChain ==
    /\ \A k \in 1 .. Len(stack) - 1 :
        stack[k].phase = "init" /\ NameAt(k + 1) \in ToSet(Imports[NameAt(k)])
    /\ load # NoLoad /\ stack # <<>> =>
        Current.phase = "init" /\ load.name \in ToSet(Imports[NameAt(Len(stack))])

ManagerInv == Types /\ Depth /\ HoldersWhole /\ LoadStages /\ DoneNil /\ ImportChain

-----------------------------------------------------------------------------
\* Lemmas.

LEMMA ObjNat == Obj \subseteq Nat /\ 0 \notin Obj
  BY ModulesAssumption DEF Obj

LEMMA LoadingIs ==
  ASSUME Types
  PROVE  /\ load.stage = "none" => load = NoLoad
         /\ load.stage # "none" => load \in Loads /\ load # NoLoad
         /\ load = NoLoad => load.stage = "none"
         /\ load \in Loads => load # NoLoad
<1>1. NoLoad.stage = "none"
  BY DEF NoLoad
<1>2. \A l \in Loads : l.stage # "none"
  BY DEF Loads, Stages
<1>3. load \in Loads \/ load = NoLoad
  BY DEF Types
<1>. QED BY <1>1, <1>2, <1>3

\* The innermost frame, one step on.
Bump(s) == [s EXCEPT ![Len(s)].at = @ + 1]

LEMMA BumpIs ==
  ASSUME NEW s \in Seq(Frames), s # <<>>
  PROVE  /\ Bump(s) \in Seq(Frames) /\ Len(Bump(s)) = Len(s)
         /\ \A k \in 1 .. Len(s) : Bump(s)[k].mod = s[k].mod /\ Bump(s)[k].phase = s[k].phase
<1> DEFINE f == [s[Len(s)] EXCEPT !.at = s[Len(s)].at + 1]
<1>1. Len(s) \in Nat /\ Len(s) \in DOMAIN s /\ s[Len(s)] \in Frames
  OBVIOUS
<1>2. Bump(s) = [s EXCEPT ![Len(s)] = f]
  BY DEF Bump
<1>3. f \in Frames /\ f.mod = s[Len(s)].mod /\ f.phase = s[Len(s)].phase
  <2>1. s[Len(s)].at + 1 \in Nat \ {0}
    BY <1>1 DEF Frames
  <2> DEFINE g == s[Len(s)]
             n == s[Len(s)].at + 1
  <2>2. g \in Frames /\ n \in Nat \ {0}
    BY <1>1, <2>1
  <2> HIDE DEF g, n
  <2>3. /\ [g EXCEPT !.at = n] \in Frames
        /\ [g EXCEPT !.at = n].mod = g.mod /\ [g EXCEPT !.at = n].phase = g.phase
    BY <2>2 DEF Frames
  <2>. QED BY <2>3 DEF g, n
<1> HIDE DEF f
<1>. QED BY <1>1, <1>2, <1>3

\* With more frames over it.
LEMMA Bumped ==
  ASSUME NEW s \in Seq(Frames), s # <<>>, NEW e \in Seq(Frames)
  PROVE  /\ Bump(s) \o e \in Seq(Frames) /\ Len(Bump(s) \o e) = Len(s) + Len(e)
         /\ \A k \in 1 .. Len(s) : /\ (Bump(s) \o e)[k].mod = s[k].mod
                                   /\ (Bump(s) \o e)[k].phase = s[k].phase
         /\ \A k \in 1 .. Len(e) : (Bump(s) \o e)[Len(s) + k] = e[k]
<1>1. Bump(s) \in Seq(Frames) /\ Len(Bump(s)) = Len(s)
  BY BumpIs
<1>2. Bump(s) \o e \in Seq(Frames) /\ Len(Bump(s) \o e) = Len(s) + Len(e)
  BY <1>1
<1>3. \A k \in 1 .. Len(s) : (Bump(s) \o e)[k] = Bump(s)[k]
  BY <1>1
<1>4. \A k \in 1 .. Len(e) : (Bump(s) \o e)[Len(s) + k] = e[k]
  BY <1>1
<1>. QED BY <1>2, <1>3, <1>4, BumpIs

\* The innermost frame replaced by others.
LEMMA Popped ==
  ASSUME NEW s \in Seq(Frames), s # <<>>, NEW e \in Seq(Frames)
  PROVE  /\ Front(s) \o e \in Seq(Frames) /\ Len(Front(s) \o e) = Len(s) - 1 + Len(e)
         /\ \A k \in 1 .. Len(s) - 1 : (Front(s) \o e)[k] = s[k]
         /\ \A k \in 1 .. Len(e) : (Front(s) \o e)[Len(s) - 1 + k] = e[k]
<1> DEFINE u == Front(s)
<1>1. Len(s) \in Nat /\ Len(s) >= 1
  OBVIOUS
<1>2. u \in Seq(Frames) /\ Len(u) = Len(s) - 1 /\ \A k \in 1 .. Len(s) - 1 : u[k] = s[k]
  BY FrontIs
<1> HIDE DEF u
<1>3. u \o e \in Seq(Frames) /\ Len(u \o e) = Len(s) - 1 + Len(e)
  BY <1>1, <1>2, ConcatProperties
<1>4. \A k \in 1 .. Len(s) - 1 : (u \o e)[k] = u[k]
  BY <1>1, <1>2
<1>5. \A k \in 1 .. Len(e) : (u \o e)[Len(s) - 1 + k] = e[k]
  BY <1>1, <1>2
<1>. QED BY <1>2, <1>3, <1>4, <1>5 DEF u

\* A run enters the initializer of a module that has one, or main, or nothing.
LEMMA EnteredIs ==
  ASSUME NEW m \in Obj, NEW main \in BOOLEAN
  PROVE  /\ Entered(m, main) \in Seq(Frames)
         /\ Len(Entered(m, main)) = 0 \/ Len(Entered(m, main)) = 1
         /\ \A k \in DOMAIN Entered(m, main) :
              /\ k = 1 /\ Entered(m, main)[k].mod = m
              /\ Entered(m, main)[k].phase = "init" => objs[m].init = "func"
<1>1. \A p \in {"init", "main"} : Frame(m, p, main) \in Frames
        /\ Frame(m, p, main).mod = m /\ Frame(m, p, main).phase = p
  BY DEF Frame, Frames
<1>2. CASE objs[m].init = "func"
  <2>1. Entered(m, main) = <<Frame(m, "init", main)>>
    BY <1>2 DEF Entered
  <2>. QED BY <1>1, <1>2, <2>1, ShortSequences
<1>3. CASE objs[m].init # "func" /\ main /\ HasMain(m)
  <2>1. Entered(m, main) = <<Frame(m, "main", main)>>
    BY <1>3 DEF Entered
  <2>2. /\ Frame(m, "main", main) \in Frames /\ Frame(m, "main", main).mod = m
        /\ Frame(m, "main", main).phase # "init"
    BY <1>1
  <2>3. Entered(m, main) \in Seq(Frames) /\ Len(Entered(m, main)) = 1
        /\ DOMAIN Entered(m, main) = {1} /\ Entered(m, main)[1] = Frame(m, "main", main)
    BY <2>1, <2>2, ShortSequences
  <2>. QED BY <2>2, <2>3
<1>4. CASE objs[m].init # "func" /\ ~ (main /\ HasMain(m))
  <2>1. Entered(m, main) = <<>>
    BY <1>4 DEF Entered
  <2>. QED BY <2>1, ShortSequences
<1>. QED BY <1>2, <1>3, <1>4

\* Modules that can be found stay whole where a step leaves them whole and
\* takes none of the references.
LEMMA HoldersKept ==
  ASSUME HoldersWhole, Types, UNCHANGED <<cache, host, stack>>,
         \A m \in DOMAIN objs : m \in Reachable /\ Whole(m) =>
            Whole(m)' /\ objs'[m].name = objs[m].name
  PROVE  HoldersWhole' /\ \A k \in DOMAIN stack : NameAt(k)' = NameAt(k)
<1>1. ASSUME NEW n \in DOMAIN cache
      PROVE  Whole(cache[n])' /\ objs'[cache[n]].name = n
  <2>1. cache[n] \in Reachable
    BY DEF Reachable
  <2>. QED BY <2>1 DEF HoldersWhole, Whole
<1>2. host # 0 => Whole(host)'
  <2>1. host \in Reachable
    BY DEF Reachable
  <2>. QED BY <2>1 DEF HoldersWhole, Whole
<1>3. ASSUME NEW k \in DOMAIN stack
      PROVE  Whole(stack[k].mod)' /\ objs'[stack[k].mod].name = objs[stack[k].mod].name
  <2>1. stack[k].mod \in Reachable
    BY DEF Reachable
  <2>. QED BY <2>1 DEF HoldersWhole, Whole
<1>4. HoldersWhole'
  BY <1>1, <1>2, <1>3 DEF HoldersWhole, Whole
<1>5. ASSUME NEW k \in DOMAIN stack PROVE NameAt(k)' = NameAt(k)
  BY <1>3 DEF NameAt
<1>. QED BY <1>4, <1>5

-----------------------------------------------------------------------------
\* The initial states and the steps, one lemma each.

LEMMA InitManager == Init => ManagerInv
<1> SUFFICES ASSUME Init PROVE ManagerInv
  OBVIOUS
<1>1. Types /\ Depth
  BY ModulesAssumption DEF Init, Types, Depth
<1>2. HoldersWhole /\ DoneNil /\ ImportChain
  BY DEF Init, HoldersWhole, DoneNil, ImportChain
<1>3. LoadStages
  BY DEF Init, LoadStages, NoLoad
<1>. QED BY <1>1, <1>2, <1>3 DEF ManagerInv

LEMMA HostLoadStep ==
  ASSUME ManagerInv, NEW name \in Names, NEW flags \in FlagSets, HostLoad(name, flags)
  PROVE  ManagerInv'
<1>1. /\ load = NoLoad /\ stack = <<>>
      /\ load' = [name |-> name, flags |-> flags, stage |-> "lookup"]
      /\ host' = 0 /\ status' = "ok" /\ ops < MaxOps /\ ops' = ops + 1
      /\ UNCHANGED <<cache, objs, temp, stack, done>>
  BY DEF HostLoad, Idle, BeginLoad
<1>2. load' \in Loads
  BY <1>1, ModulesAssumption DEF Loads, Stages
<1>3. temp = 0
  BY <1>1 DEF ManagerInv, LoadStages, NoLoad
<1>4. Types'
  BY <1>1, <1>2, ModulesAssumption DEF ManagerInv, Types
<1>5. Depth'
  BY <1>1, ModulesAssumption DEF Depth
<1>6. HoldersWhole'
  BY <1>1 DEF ManagerInv, HoldersWhole, Whole
<1>7. LoadStages'
  BY <1>1, <1>3 DEF LoadStages
<1>8. DoneNil' /\ ImportChain'
  BY <1>1 DEF ManagerInv, DoneNil, ImportChain
<1>. QED BY <1>4, <1>5, <1>6, <1>7, <1>8 DEF ManagerInv

\* The stage of a load changes, and nothing that anybody holds.
LEMMA StageStep ==
  ASSUME ManagerInv, load \in Loads, NEW st \in Stages, load' = [load EXCEPT !.stage = st],
         UNCHANGED <<cache, objs, stack, host, status, done, ops>>,
         temp' \in Obj \cup {0}
  PROVE  /\ Types' /\ Depth' /\ HoldersWhole' /\ DoneNil' /\ ImportChain'
         /\ load'.stage = st /\ load'.name = load.name /\ load'.flags = load.flags
<1>1. load' \in Loads /\ load'.stage = st /\ load'.name = load.name /\ load'.flags = load.flags
  BY DEF Loads
<1>2. load # NoLoad
  BY LoadingIs DEF ManagerInv
<1>3. Types'
  BY <1>1 DEF ManagerInv, Types
<1>4. Depth' /\ HoldersWhole' /\ DoneNil'
  BY <1>2 DEF ManagerInv, Depth, HoldersWhole, Whole, DoneNil
<1>5. ImportChain'
  BY <1>1, <1>2 DEF ManagerInv, ImportChain, NameAt, Current
<1>. QED BY <1>1, <1>3, <1>4, <1>5

LEMMA LookupStep ==
  ASSUME ManagerInv, Lookup
  PROVE  ManagerInv'
<1>1. /\ load.stage = "lookup"
      /\ UNCHANGED <<cache, objs, stack, host, status, done, ops>>
  BY DEF Lookup
<1>2. load \in Loads
  BY <1>1, LoadingIs DEF ManagerInv
<1>3. CASE "reload" \notin load.flags /\ load.name \in DOMAIN cache
  <2>1. temp' = cache[load.name] /\ load' = [load EXCEPT !.stage = "return"]
    BY <1>3 DEF Lookup
  <2>2. temp' \in Obj \cup {0}
    BY <1>3, <2>1 DEF ManagerInv, Types
  <2>3. /\ Types' /\ Depth' /\ HoldersWhole' /\ DoneNil' /\ ImportChain'
        /\ load'.stage = "return" /\ load'.name = load.name
    BY <1>1, <1>2, <2>1, <2>2, StageStep DEF Stages
  <2>4. Whole(temp') /\ objs[temp'].name = load.name
    BY <1>3, <2>1 DEF ManagerInv, HoldersWhole
  <2>5. LoadStages'
    BY <1>1, <2>3, <2>4 DEF LoadStages, Whole
  <2>. QED BY <2>3, <2>5 DEF ManagerInv
<1>4. CASE ~ ("reload" \notin load.flags /\ load.name \in DOMAIN cache)
  <2>1. temp' = temp /\ load' = [load EXCEPT !.stage = "search"]
    BY <1>4 DEF Lookup
  <2>2. temp = 0
    BY <1>1 DEF ManagerInv, LoadStages
  <2>3. /\ Types' /\ Depth' /\ HoldersWhole' /\ DoneNil' /\ ImportChain'
        /\ load'.stage = "search" /\ load'.name = load.name /\ load'.flags = load.flags
    BY <1>1, <1>2, <2>1, <2>2, StageStep DEF Stages
  <2>4. LoadStages'
    BY <1>1, <1>4, <2>1, <2>2, <2>3 DEF LoadStages
  <2>. QED BY <2>3, <2>4 DEF ManagerInv
<1>. QED BY <1>3, <1>4

\* A load that fails gives no module.
LEMMA FailStep ==
  ASSUME ManagerInv, load.stage \in Stages, Fail,
         UNCHANGED <<cache, objs, stack, host, status, done, ops>>
  PROVE  ManagerInv'
<1>1. load \in Loads
  BY LoadingIs DEF ManagerInv, Stages
<1>2. load' = [load EXCEPT !.stage = "return"] /\ temp' = 0
  BY DEF Fail
<1>3. /\ Types' /\ Depth' /\ HoldersWhole' /\ DoneNil' /\ ImportChain'
      /\ load'.stage = "return"
  BY <1>1, <1>2, StageStep DEF Stages
<1>4. LoadStages'
  BY <1>2, <1>3 DEF LoadStages
<1>. QED BY <1>3, <1>4 DEF ManagerInv

LEMMA MakeModuleStep ==
  ASSUME ManagerInv, MakeModule
  PROVE  ManagerInv'
<1>1. /\ load.stage = "search"
      /\ load' = [load EXCEPT !.stage = "fill"]
      /\ UNCHANGED <<cache, stack, host, status, done, ops>>
  BY DEF MakeModule
<1>2. PICK id \in Obj \ DOMAIN objs : objs' = NewObj(id, load.name) /\ temp' = id
  BY DEF MakeModule
<1>3. load \in Loads /\ load.name \in Names /\ load # NoLoad
  BY <1>1, LoadingIs DEF ManagerInv, Loads
<1>4. /\ load' \in Loads /\ load'.stage = "fill"
      /\ load'.name = load.name /\ load'.flags = load.flags
  BY <1>1, <1>3 DEF Loads, Stages
<1>5. /\ DOMAIN objs' = DOMAIN objs \cup {id}
      /\ objs'[id] = [name |-> load.name, complete |-> FALSE, init |-> "none"]
      /\ \A m \in DOMAIN objs : objs'[m] = objs[m]
  BY <1>2 DEF NewObj
<1>6. objs' = [m \in DOMAIN objs' |-> objs'[m]]
  BY <1>2 DEF NewObj
<1>7. Types'
  <2>1. \A m \in DOMAIN objs' : objs'[m] \in Modules
    <3>1. objs'[id] \in Modules
      BY <1>3, <1>5 DEF Modules
    <3>2. \A m \in DOMAIN objs : objs[m] \in Modules
      BY DEF ManagerInv, Types
    <3>. QED BY <1>5, <3>1, <3>2
  <2>2. objs' \in [DOMAIN objs' -> Modules]
    BY <1>6, <2>1
  <2>. QED BY <1>1, <1>2, <1>4, <1>5, <2>2 DEF ManagerInv, Types
<1>8. Depth'
  BY <1>1, <1>3 DEF ManagerInv, Depth
<1>9. HoldersWhole' /\ \A k \in DOMAIN stack : NameAt(k)' = NameAt(k)
  BY <1>1, <1>5, HoldersKept DEF ManagerInv, Whole
<1>10. LoadStages'
  <2>1. id \notin done
    BY <1>2 DEF ManagerInv, DoneNil
  <2>. QED BY <1>1, <1>2, <1>4, <1>5, <2>1 DEF ManagerInv, LoadStages
<1>11. DoneNil'
  BY <1>1, <1>5 DEF ManagerInv, DoneNil
<1>12. ImportChain'
  BY SMTT(40), <1>1, <1>3, <1>4, <1>9 DEF ManagerInv, ImportChain, Current, Types
<1>. QED BY <1>7, <1>8, <1>9, <1>10, <1>11, <1>12 DEF ManagerInv

\* A module in the making is made complete; so far nothing else holds it, and
\* it has the name that is loaded.
LEMMA FillStep ==
  ASSUME ManagerInv, load.stage = "fill", temp \in DOMAIN objs,
         NEW i \in {"none", "func", "nil"},
         objs' = [objs EXCEPT ![temp] = [@ EXCEPT !.complete = TRUE, !.init = i]],
         load' = [load EXCEPT !.stage = "store"],
         UNCHANGED <<cache, temp, stack, host, status, done, ops>>
  PROVE  ManagerInv'
<1>1. load \in Loads /\ load # NoLoad
  BY LoadingIs DEF ManagerInv
<1>2. /\ load' \in Loads /\ load'.stage = "store"
      /\ load'.name = load.name /\ load'.flags = load.flags
  BY <1>1 DEF Loads, Stages
<1>3. objs \in [DOMAIN objs -> Modules]
  BY DEF ManagerInv, Types
<1>4. [objs[temp] EXCEPT !.complete = TRUE, !.init = i] \in Modules
  BY <1>3 DEF Modules
<1>5. objs' \in [DOMAIN objs -> Modules]
  BY <1>3, <1>4
<1>6. objs'[temp].complete /\ objs'[temp].name = objs[temp].name
  BY <1>3 DEF Modules
<1>7. \A m \in DOMAIN objs \ {temp} : objs'[m] = objs[m]
  BY <1>3
<1>8. DOMAIN objs' = DOMAIN objs
  BY <1>5
<1>9. Types'
  BY <1>2, <1>5, <1>8 DEF ManagerInv, Types
<1>10. Depth'
  BY <1>1 DEF ManagerInv, Depth
<1>11. HoldersWhole' /\ \A k \in DOMAIN stack : NameAt(k)' = NameAt(k)
  BY <1>6, <1>7, <1>8, HoldersKept DEF ManagerInv, Whole
<1>12. LoadStages'
  BY <1>2, <1>6, <1>8 DEF ManagerInv, LoadStages, Whole
<1>13. DoneNil'
  BY <1>7, <1>8 DEF ManagerInv, DoneNil, LoadStages
<1>14. ImportChain'
  BY <1>1, <1>2, <1>11 DEF ManagerInv, ImportChain, Current, Types
<1>. QED BY <1>9, <1>10, <1>11, <1>12, <1>13, <1>14 DEF ManagerInv

LEMMA FillNativeStep ==
  ASSUME ManagerInv, FillNative
  PROVE  ManagerInv'
<1>1. /\ load.stage = "fill" /\ temp \in DOMAIN objs
      /\ objs' = [objs EXCEPT ![temp].complete = TRUE]
      /\ load' = [load EXCEPT !.stage = "store"]
      /\ UNCHANGED <<cache, temp, stack, host, status, done, ops>>
  BY DEF FillNative
<1>2. objs[temp] \in Modules
  BY <1>1 DEF ManagerInv, Types
<1>3. objs[temp].init \in {"none", "func", "nil"}
  BY <1>2 DEF Modules
<1>4. [objs[temp] EXCEPT !.complete = TRUE]
        = [objs[temp] EXCEPT !.complete = TRUE, !.init = objs[temp].init]
  BY <1>2 DEF Modules
<1>5. objs' = [objs EXCEPT ![temp] = [@ EXCEPT !.complete = TRUE, !.init = objs[temp].init]]
  BY <1>1, <1>4
<1>. QED BY <1>1, <1>3, <1>5, FillStep

LEMMA CompileOkStep ==
  ASSUME ManagerInv, CompileOk
  PROVE  ManagerInv'
<1>1. /\ load.stage = "fill" /\ temp \in DOMAIN objs
      /\ objs' = [objs EXCEPT ![temp].complete = TRUE, ![temp].init = "func"]
      /\ load' = [load EXCEPT !.stage = "store"]
      /\ UNCHANGED <<cache, temp, stack, host, status, done, ops>>
  BY DEF CompileOk
<1>2. objs' = [objs EXCEPT ![temp] = [@ EXCEPT !.complete = TRUE, !.init = "func"]]
  BY <1>1
<1>. QED BY <1>1, <1>2, FillStep

LEMMA StoreStep ==
  ASSUME ManagerInv, Store
  PROVE  ManagerInv'
<1>1. /\ load.stage = "store"
      /\ load' = [load EXCEPT !.stage = "return"]
      /\ UNCHANGED <<objs, temp, stack, host, status, done, ops>>
  BY DEF Store
<1>2. load \in Loads /\ load # NoLoad /\ load.name \in Names
  BY <1>1, LoadingIs DEF ManagerInv, Loads
<1>3. load' \in Loads /\ load'.stage = "return" /\ load'.name = load.name
  BY <1>1, <1>2 DEF Loads, Stages
<1>4. Whole(temp) /\ objs[temp].name = load.name /\ temp \in Obj
  BY <1>1 DEF ManagerInv, LoadStages, Whole, Types
<1>5. /\ DOMAIN cache' \subseteq Names /\ cache' \in [DOMAIN cache' -> Obj]
      /\ \A n \in DOMAIN cache' :
            \/ n \in DOMAIN cache /\ cache'[n] = cache[n]
            \/ n = load.name /\ cache'[n] = temp
  <2>1. CASE "nocache" \in load.flags
    BY <2>1 DEF Store, ManagerInv, Types
  <2>2. CASE "nocache" \notin load.flags
    <3>1. cache' = [n \in DOMAIN cache \cup {load.name} |->
                        IF n = load.name THEN temp ELSE cache[n]]
      BY <2>2 DEF Store
    <3>. QED BY <1>2, <1>4, <3>1 DEF ManagerInv, Types
  <2>. QED BY <2>1, <2>2
<1>6. Types'
  BY <1>1, <1>3, <1>5 DEF ManagerInv, Types
<1>7. Depth'
  BY <1>1, <1>2 DEF ManagerInv, Depth
<1>8. HoldersWhole'
  BY <1>1, <1>4, <1>5 DEF ManagerInv, HoldersWhole, Whole
<1>9. LoadStages'
  BY <1>1, <1>3, <1>4 DEF LoadStages, Whole
<1>10. DoneNil'
  BY <1>1 DEF ManagerInv, DoneNil
<1>11. ImportChain'
  BY <1>1, <1>2, <1>3 DEF ManagerInv, ImportChain, Current, NameAt
<1>. QED BY <1>6, <1>7, <1>8, <1>9, <1>10, <1>11 DEF ManagerInv

\* A load is over.
LEMMA LoadOver ==
  ASSUME load' = NoLoad, temp' = 0
  PROVE  LoadStages'
<1>1. load'.stage = "none"
  BY DEF NoLoad
<1>. QED BY <1>1 DEF LoadStages

LEMMA ReturnStep ==
  ASSUME ManagerInv, Return
  PROVE  ManagerInv'
<1>1. /\ load.stage = "return" /\ load' = NoLoad /\ temp' = 0
      /\ UNCHANGED <<cache, objs, done, ops>>
  BY DEF Return
<1>2. load # NoLoad
  BY <1>1, LoadingIs DEF ManagerInv
<1>3. LoadStages' /\ DoneNil'
  BY <1>1, LoadOver DEF ManagerInv, DoneNil
<1>4. temp # 0 => Whole(temp) /\ objs[temp].name = load.name /\ temp \in Obj
  BY <1>1 DEF ManagerInv, LoadStages, Types
<1>5. CASE stack = <<>>
  <2>1. host' = temp /\ stack' = stack /\ status' \in {"ok", "exc"}
    BY <1>5 DEF Return
  <2>2. Types' /\ Depth' /\ ImportChain'
    BY <1>1, <1>5, <2>1 DEF ManagerInv, Types, Depth, ImportChain
  <2>3. HoldersWhole'
    BY <1>1, <1>4, <2>1 DEF ManagerInv, HoldersWhole, Whole
  <2>. QED BY <1>3, <2>2, <2>3 DEF ManagerInv
<1>6. CASE stack # <<>> /\ temp = 0
  <2>1. host' = host /\ stack' = <<>> /\ status' = "exc"
    BY <1>6 DEF Return, Unwind
  <2>2. Types' /\ Depth' /\ ImportChain'
    BY <1>1, <2>1, ModulesAssumption DEF ManagerInv, Types, Depth, ImportChain
  <2>3. HoldersWhole'
    BY <1>1, <2>1 DEF ManagerInv, HoldersWhole, Whole
  <2>. QED BY <1>3, <2>2, <2>3 DEF ManagerInv
<1>7. CASE stack # <<>> /\ temp # 0
  <2>1. /\ host' = host /\ status' = status
        /\ stack' = [stack EXCEPT ![Len(stack)].at = @ + 1] \o Entered(temp, FALSE)
    BY <1>7 DEF Return
  <2>2. PICK n \in Nat \ {0} : n = Len(stack)
    BY <1>7, EmptySeq DEF ManagerInv, Types
  <2>3. PICK e \in Seq(Frames) : e = Entered(temp, FALSE)
    BY <1>4, <1>7, EnteredIs
  <2>4. (Len(e) = 0 \/ Len(e) = 1) /\ \A k \in 1 .. Len(e) : e[k].mod = temp
    <3>1. \A k \in DOMAIN e : e[k].mod = temp
      BY <1>4, <1>7, <2>3, EnteredIs
    <3>2. Len(e) = 0 \/ Len(e) = 1
      BY <1>4, <1>7, <2>3, EnteredIs
    <3>. QED BY <3>1, <3>2
  <2>5. /\ stack' \in Seq(Frames) /\ Len(stack') = n + Len(e)
        /\ \A k \in 1 .. n : stack'[k].mod = stack[k].mod /\ stack'[k].phase = stack[k].phase
        /\ \A k \in 1 .. Len(e) : stack'[n + k] = e[k]
    <3>1. stack \in Seq(Frames) /\ stack # <<>>
      BY <1>7 DEF ManagerInv, Types
    <3>2. stack' = Bump(stack) \o e
      BY <2>1, <2>3 DEF Bump
    <3> DEFINE t == Bump(stack) \o e
    <3>3. /\ t \in Seq(Frames) /\ Len(t) = Len(stack) + Len(e)
          /\ \A k \in 1 .. Len(stack) : t[k].mod = stack[k].mod /\ t[k].phase = stack[k].phase
          /\ \A k \in 1 .. Len(e) : t[Len(stack) + k] = e[k]
      BY <3>1, Bumped
    <3>. QED BY <2>2, <3>2, <3>3, Zenon
  <2>6. Types'
    BY <1>1, <2>1, <2>5 DEF ManagerInv, Types
  <2>7. Depth'
    <3>1. n <= MaxDepth
      BY <1>2, <2>2 DEF ManagerInv, Depth
    <3>2. Len(stack') <= MaxDepth + 1
      BY SMTT(40), <2>2, <2>4, <2>5, <3>1, ModulesAssumption
    <3>. QED BY <1>1, <3>2 DEF Depth
  <2>8. DOMAIN stack' = 1 .. n + Len(e) /\ DOMAIN stack = 1 .. n
    <3>1. stack \in Seq(Frames)
      BY DEF ManagerInv, Types
    <3>. QED BY <2>2, <2>5, <3>1
  <2>9. \A k \in DOMAIN stack' : \/ k \in 1 .. n /\ stack'[k].mod = stack[k].mod
                                 \/ k = n + 1 /\ stack'[k].mod = temp
    <3>1. ASSUME NEW k \in DOMAIN stack', k > n
          PROVE  k = n + 1 /\ Len(e) = 1
      BY <2>4, <2>8, <3>1
    <3>2. ASSUME Len(e) = 1
          PROVE  stack'[n + 1] = e[1] /\ e[1].mod = temp
      BY <2>4, <2>5, <3>2
    <3>3. \A k \in DOMAIN stack' : k \in 1 .. n \/ k > n
      BY <2>8
    <3>. QED BY <2>5, <3>1, <3>2, <3>3
  <2>10. HoldersWhole'
    <3>1. \A k \in 1 .. n : Whole(stack[k].mod)
      BY <2>8 DEF ManagerInv, HoldersWhole
    <3>2. Whole(temp)
      BY <1>4, <1>7
    <3>3. \A k \in DOMAIN stack' : Whole(stack'[k].mod)
      BY <2>9, <3>1, <3>2
    <3>. QED BY <1>1, <2>1, <3>3 DEF ManagerInv, HoldersWhole, Whole
  <2>11. ImportChain'
    <3>1. \A k \in 1 .. n : NameAt(k)' = NameAt(k)
      BY <1>1, <2>5 DEF NameAt
    <3>2. Len(e) = 1 => NameAt(n + 1)' = load.name
      <4>1. Len(e) = 1 => n + 1 \in DOMAIN stack' /\ ~ (n + 1 \in 1 .. n)
        BY <2>2, <2>8
      <4>. QED BY <1>1, <1>4, <1>7, <2>9, <4>1 DEF NameAt
    <3>3. ASSUME NEW k \in 1 .. Len(stack') - 1
          PROVE  stack'[k].phase = "init" /\ NameAt(k + 1)' \in ToSet(Imports[NameAt(k)'])
      <4>1. k \in 1 .. n /\ (k = n => Len(e) = 1)
        BY <2>2, <2>4, <2>5
      <4>2. CASE k = n
        <5>1. stack[n].phase = "init" /\ load.name \in ToSet(Imports[NameAt(n)])
          BY <1>2, <1>7, <2>2 DEF ManagerInv, ImportChain, Current, Last
        <5>. QED BY <2>5, <3>1, <3>2, <4>1, <4>2, <5>1
      <4>3. CASE k # n
        <5>1. k \in 1 .. Len(stack) - 1 /\ k + 1 \in 1 .. n
          BY <2>2, <4>1, <4>3
        <5>. QED BY <2>5, <3>1, <4>1, <5>1 DEF ManagerInv, ImportChain
      <4>. QED BY <4>2, <4>3
    <3>. QED BY <1>1, <3>3 DEF ImportChain, NameAt
  <2>. QED BY <1>3, <2>6, <2>7, <2>10, <2>11 DEF ManagerInv
<1>. QED BY <1>5, <1>6, <1>7

LEMMA HostRunStep ==
  ASSUME ManagerInv, NEW main \in BOOLEAN, HostRun(main)
  PROVE  ManagerInv'
<1>1. /\ load = NoLoad /\ stack = <<>> /\ host # 0
      /\ stack' = Entered(host, main) /\ status' = "ok"
      /\ ops < MaxOps /\ ops' = ops + 1
      /\ UNCHANGED <<cache, objs, temp, load, host, done>>
  BY DEF HostRun, Idle
<1>2. host \in Obj /\ Whole(host)
  BY <1>1 DEF ManagerInv, Types, HoldersWhole
<1>4. /\ stack' \in Seq(Frames) /\ (Len(stack') = 0 \/ Len(stack') = 1)
      /\ \A k \in DOMAIN stack' : stack'[k].mod = host
  BY <1>1, <1>2, EnteredIs
<1>5. Types'
  BY <1>1, <1>4, ModulesAssumption DEF ManagerInv, Types
<1>6. Depth'
  BY <1>1, <1>4, ModulesAssumption DEF Depth
<1>7. HoldersWhole'
  BY <1>1, <1>2, <1>4 DEF ManagerInv, HoldersWhole, Whole
<1>8. LoadStages' /\ DoneNil'
  BY <1>1 DEF ManagerInv, LoadStages, DoneNil, Whole
<1>9. ImportChain'
  BY <1>1, <1>4 DEF ImportChain
<1>. QED BY <1>5, <1>6, <1>7, <1>8, <1>9 DEF ManagerInv

LEMMA ImportNextStep ==
  ASSUME ManagerInv, ImportNext
  PROVE  ManagerInv'
<1> DEFINE n == Len(stack)
<1>1. /\ load = NoLoad /\ stack # <<>> /\ Len(stack) <= MaxDepth
      /\ Current.phase = "init"
      /\ Current.at <= Len(Imports[objs[Current.mod].name])
      /\ load' = [name |-> Imports[objs[Current.mod].name][Current.at], flags |-> {},
                  stage |-> "lookup"]
      /\ UNCHANGED <<cache, objs, temp, stack, host, status, done, ops>>
  BY DEF ImportNext, Steps, BeginLoad
<1>2. n \in Nat \ {0} /\ stack[n] \in Frames /\ Current = stack[n] /\ n \in DOMAIN stack
  BY <1>1, EmptySeq DEF ManagerInv, Types, Current, Last
<1>3. Whole(Current.mod) /\ NameAt(n) = objs[Current.mod].name /\ NameAt(n) \in Names
  BY <1>2 DEF ManagerInv, Types, HoldersWhole, Whole, Modules, NameAt
<1>4. Imports[NameAt(n)] \in Seq(Names) /\ Current.at \in Nat \ {0}
  BY <1>2, <1>3, ModulesAssumption DEF Frames
<1>5. Current.at \in DOMAIN Imports[NameAt(n)]
  BY <1>1, <1>3, <1>4
<1>6. /\ load'.name = Imports[NameAt(n)][Current.at] /\ load'.stage = "lookup"
      /\ load'.flags = {}
  BY <1>1, <1>3
<1>7. load'.name \in Names /\ load'.name \in ToSet(Imports[NameAt(n)])
  BY <1>4, <1>5, <1>6 DEF ToSet
<1>8. load' \in Loads
  BY <1>1, <1>6, <1>7 DEF Loads, Stages
<1>9. temp = 0
  BY <1>1, LoadingIs DEF ManagerInv, LoadStages
<1>10. Types' /\ Depth'
  BY <1>1, <1>8 DEF ManagerInv, Types, Depth
<1>11. HoldersWhole' /\ DoneNil'
  BY <1>1 DEF ManagerInv, HoldersWhole, Whole, DoneNil
<1>12. LoadStages'
  BY <1>1, <1>6, <1>9 DEF LoadStages
<1>13. ImportChain'
  BY <1>1, <1>7 DEF ManagerInv, ImportChain, NameAt, Current
<1>. QED BY <1>10, <1>11, <1>12, <1>13 DEF ManagerInv

\* The innermost call is over, or goes on to main.
LEMMA PopStep ==
  ASSUME ManagerInv, load = NoLoad, stack # <<>>,
         NEW e \in Seq(Frames), Len(e) = 0 \/ Len(e) = 1,
         \A k \in DOMAIN e : e[k].mod = Current.mod,
         stack' = Front(stack) \o e,
         UNCHANGED <<cache, temp, load, host, status, ops>>,
         DOMAIN objs' = DOMAIN objs, objs' \in [DOMAIN objs -> Modules],
         \A m \in DOMAIN objs : objs'[m].name = objs[m].name
                                /\ (objs[m].complete => objs'[m].complete)
  PROVE  Types' /\ Depth' /\ HoldersWhole' /\ LoadStages' /\ ImportChain'
<1>0. PICK n \in Nat \ {0} : n = Len(stack)
  BY EmptySeq DEF ManagerInv, Types
<1>1. stack \in Seq(Frames) /\ Current = stack[n] /\ n \in DOMAIN stack /\ DOMAIN stack = 1 .. n
  BY <1>0 DEF ManagerInv, Types, Current, Last
<1>2. /\ stack' \in Seq(Frames) /\ Len(stack') = n - 1 + Len(e)
      /\ \A k \in 1 .. n - 1 : stack'[k] = stack[k]
      /\ \A k \in 1 .. Len(e) : stack'[n - 1 + k] = e[k]
  <2> DEFINE t == Front(stack) \o e
  <2>1. /\ t \in Seq(Frames) /\ Len(t) = Len(stack) - 1 + Len(e)
        /\ \A k \in 1 .. Len(stack) - 1 : t[k] = stack[k]
        /\ \A k \in 1 .. Len(e) : t[Len(stack) - 1 + k] = e[k]
    BY Popped, <1>1
  <2>. QED BY <1>0, <2>1, Zenon
<1>3. Len(stack') <= n /\ DOMAIN stack' = 1 .. Len(stack') /\ Len(stack') \in Nat
  <2>1. Len(stack') = n - 1 + Len(e) /\ stack' \in Seq(Frames)
    BY <1>0, <1>2
  <2>2. Len(stack') <= n
    BY <2>1
  <2>3. DOMAIN stack' = 1 .. Len(stack') /\ Len(stack') \in Nat
    BY <2>1
  <2>. QED BY <2>2, <2>3
<1>4. \A k \in DOMAIN stack' : stack'[k].mod = stack[k].mod
  <2>1. \A k \in DOMAIN stack' : k \in 1 .. n - 1 \/ k = n
    BY <1>0, <1>1, <1>3
  <2>2. n \in DOMAIN stack' => 1 \in DOMAIN e /\ stack'[n] = e[1]
    <3>1. n \in DOMAIN stack' => Len(e) = 1 /\ n - 1 + 1 = n
      BY <1>0, <1>1, <1>2, <1>3
    <3>2. Len(e) = 1 => 1 \in 1 .. Len(e) /\ 1 \in DOMAIN e
      OBVIOUS
    <3>. QED BY <1>2, <3>1, <3>2
  <2>. QED BY SMTT(40), <1>1, <1>2, <2>1, <2>2
<1>5. \A k \in DOMAIN stack' : k \in DOMAIN stack
  BY <1>0, <1>1, <1>3
<1>6. Types'
  BY <1>2 DEF ManagerInv, Types
<1>7. Depth'
  BY <1>0, <1>1, <1>3, ModulesAssumption DEF ManagerInv, Depth
<1>8. HoldersWhole'
  BY <1>4, <1>5 DEF ManagerInv, HoldersWhole, Whole
<1>9. LoadStages'
  <2>1. load.stage = "none"
    BY DEF NoLoad
  <2>. QED BY <2>1 DEF ManagerInv, LoadStages
<1>10. ImportChain'
  <2>1. \A k \in DOMAIN stack' : NameAt(k)' = NameAt(k)
    BY <1>4, <1>5 DEF ManagerInv, HoldersWhole, Whole, NameAt
  <2>2. \A k \in 1 .. Len(stack') - 1 :
           k \in DOMAIN stack' /\ k + 1 \in DOMAIN stack' /\ k \in 1 .. n - 1
    BY <1>0, <1>1, <1>3
  <2>3. \A k \in 1 .. n - 1 :
           stack[k].phase = "init" /\ NameAt(k + 1) \in ToSet(Imports[NameAt(k)])
    BY <1>0 DEF ManagerInv, ImportChain
  <2>4. \A k \in 1 .. Len(stack') - 1 :
           stack'[k].phase = "init" /\ NameAt(k + 1)' \in ToSet(Imports[NameAt(k)'])
    BY <1>2, <2>1, <2>2, <2>3
  <2>. QED BY <2>4 DEF ImportChain, NameAt
<1>. QED BY <1>6, <1>7, <1>8, <1>9, <1>10

LEMMA InitReturnsStep ==
  ASSUME ManagerInv, InitReturns
  PROVE  ManagerInv'
<1> DEFINE m == Current.mod
           e == IF Current.main /\ HasMain(m) THEN <<Frame(m, "main", TRUE)>> ELSE <<>>
<1>1. /\ load = NoLoad /\ stack # <<>>
      /\ objs' = [objs EXCEPT ![m].init = "nil"]
      /\ stack' = Front(stack) \o e
      /\ done' = done \cup {m}
      /\ UNCHANGED <<cache, temp, load, host, status, ops>>
  BY DEF InitReturns, InitOver, Steps
<1>2. m \in DOMAIN objs /\ m \in Obj
  <2>1. Len(stack) \in DOMAIN stack /\ Current = stack[Len(stack)]
    BY <1>1, EmptySeq DEF ManagerInv, Types, Current, Last
  <2>. QED BY <2>1 DEF ManagerInv, HoldersWhole, Whole, Types
<1> HIDE DEF m
<1>3. objs \in [DOMAIN objs -> Modules]
  BY DEF ManagerInv, Types
<1>4. /\ DOMAIN objs' = DOMAIN objs
      /\ objs'[m] = [objs[m] EXCEPT !.init = "nil"]
      /\ \A x \in DOMAIN objs \ {m} : objs'[x] = objs[x]
  BY <1>1, <1>2, <1>3
<1>5. /\ objs'[m] \in Modules /\ objs'[m].name = objs[m].name
      /\ objs'[m].complete = objs[m].complete /\ objs'[m].init = "nil"
  BY <1>2, <1>3, <1>4 DEF Modules
<1>6. objs' \in [DOMAIN objs -> Modules]
  BY <1>1, <1>3, <1>5
<1>7. e \in Seq(Frames) /\ (Len(e) = 0 \/ Len(e) = 1) /\ \A k \in DOMAIN e : e[k].mod = m
  <2>1. Frame(m, "main", TRUE) \in Frames /\ Frame(m, "main", TRUE).mod = m
    BY <1>2 DEF Frame, Frames
  <2>2. CASE Current.main /\ HasMain(m)
    <3>1. e = <<Frame(m, "main", TRUE)>>
      BY <2>2
    <3> HIDE DEF e
    <3>. QED BY <2>1, <3>1, ShortSequences
  <2>3. CASE ~ (Current.main /\ HasMain(m))
    <3>1. e = <<>>
      BY <2>3
    <3>. QED BY <3>1, ShortSequences
  <2>. QED BY <2>2, <2>3
<1> HIDE DEF e
<1>8. \A x \in DOMAIN objs : objs'[x].name = objs[x].name
                             /\ (objs[x].complete => objs'[x].complete)
  BY <1>4, <1>5
<1>9. Types' /\ Depth' /\ HoldersWhole' /\ LoadStages' /\ ImportChain'
  BY <1>1, <1>4, <1>6, <1>7, <1>8, PopStep DEF m
<1>10. DoneNil'
  BY <1>1, <1>2, <1>4, <1>5 DEF ManagerInv, DoneNil
<1>. QED BY <1>9, <1>10 DEF ManagerInv

LEMMA InitRaisesStep ==
  ASSUME ManagerInv, InitRaises
  PROVE  ManagerInv'
<1>1. /\ load = NoLoad /\ stack' = <<>> /\ status' = "exc"
      /\ UNCHANGED <<cache, objs, temp, load, host, done, ops>>
  BY DEF InitRaises, InitOver, Steps, Unwind
<1>2. Types' /\ Depth' /\ ImportChain'
  BY <1>1, ModulesAssumption DEF ManagerInv, Types, Depth, ImportChain
<1>3. HoldersWhole' /\ LoadStages' /\ DoneNil'
  BY <1>1 DEF ManagerInv, HoldersWhole, LoadStages, DoneNil, Whole
<1>. QED BY <1>2, <1>3 DEF ManagerInv

LEMMA MainReturnsStep ==
  ASSUME ManagerInv, MainReturns
  PROVE  ManagerInv'
<1>1. /\ load = NoLoad /\ stack # <<>> /\ stack' = Front(stack)
      /\ UNCHANGED <<cache, objs, temp, load, host, status, done, ops>>
  BY DEF MainReturns, Steps
<1>2. stack' = Front(stack) \o <<>>
  BY <1>1, FrontIs, ConcatEmptySeq DEF ManagerInv, Types
<1>3. <<>> \in Seq(Frames) /\ Len(<<>>) = 0 /\ DOMAIN <<>> = {}
  BY EmptySeq
<1>4. objs \in [DOMAIN objs -> Modules]
  BY DEF ManagerInv, Types
<1>5. Types' /\ Depth' /\ HoldersWhole' /\ LoadStages' /\ ImportChain'
  BY <1>1, <1>2, <1>3, <1>4, PopStep
<1>6. DoneNil'
  BY <1>1 DEF ManagerInv, DoneNil
<1>. QED BY <1>5, <1>6 DEF ManagerInv

LEMMA ExhaustStep ==
  ASSUME ManagerInv, Exhaust
  PROVE  ManagerInv'
<1>1. /\ status' = "crashed"
      /\ UNCHANGED <<cache, objs, temp, load, stack, host, done, ops>>
  BY DEF Exhaust
<1>2. Types' /\ Depth' /\ ImportChain'
  BY <1>1 DEF ManagerInv, Types, Depth, ImportChain, NameAt, Current
<1>3. HoldersWhole' /\ LoadStages' /\ DoneNil'
  BY <1>1 DEF ManagerInv, HoldersWhole, LoadStages, DoneNil, Whole
<1>. QED BY <1>2, <1>3 DEF ManagerInv

LEMMA CollectStep ==
  ASSUME ManagerInv, Collect
  PROVE  ManagerInv'
<1>1. /\ load.stage \in {"none", "search", "fill"}
      /\ objs' = [m \in DOMAIN objs \cap Reachable |-> objs[m]]
      /\ done' = done \cap Reachable
      /\ UNCHANGED <<cache, temp, load, stack, host, status, ops>>
  BY DEF Collect
<1>2. /\ DOMAIN objs' = DOMAIN objs \cap Reachable
      /\ \A m \in DOMAIN objs' : objs'[m] = objs[m]
  BY <1>1
<1>3. Types'
  BY <1>1, <1>2 DEF ManagerInv, Types
<1>4. Depth'
  BY <1>1 DEF ManagerInv, Depth
<1>5. HoldersWhole' /\ \A k \in DOMAIN stack : NameAt(k)' = NameAt(k)
  BY <1>1, <1>2, HoldersKept DEF ManagerInv, Whole
<1>6. LoadStages'
  <2>1. temp \in Reachable
    BY DEF Reachable
  <2>. QED BY <1>1, <1>2, <2>1 DEF ManagerInv, LoadStages
<1>7. DoneNil'
  BY <1>1, <1>2 DEF ManagerInv, DoneNil
<1>8. ImportChain'
  <2>1. Len(stack) \in Nat /\ DOMAIN stack = 1 .. Len(stack)
    BY DEF ManagerInv, Types
  <2>2. \A k \in 1 .. Len(stack) - 1 : k \in DOMAIN stack /\ k + 1 \in DOMAIN stack
    BY <2>1
  <2>3. stack # <<>> => Len(stack) \in DOMAIN stack
    BY EmptySeq DEF ManagerInv, Types
  <2>. QED BY <1>1, <1>5, <2>2, <2>3 DEF ManagerInv, ImportChain, Current
<1>. QED BY <1>3, <1>4, <1>5, <1>6, <1>7, <1>8 DEF ManagerInv

LEMMA StutterStep ==
  ASSUME ManagerInv, UNCHANGED vars
  PROVE  ManagerInv'
<1>1. UNCHANGED <<cache, objs, temp, load, stack, host, status, done, ops>>
  BY DEF vars
<1>. QED BY <1>1 DEF ManagerInv, Types, Depth, HoldersWhole, LoadStages, DoneNil,
                     ImportChain, Whole, NameAt, Current

LEMMA ManagerNext == ManagerInv /\ [Next]_vars => ManagerInv'
<1> SUFFICES ASSUME ManagerInv, [Next]_vars PROVE ManagerInv'
  OBVIOUS
<1>1. SearchFails \/ CompileFails => ManagerInv'
  BY FailStep DEF SearchFails, CompileFails, Stages
<1>. QED BY <1>1, HostLoadStep, LookupStep, MakeModuleStep, FillNativeStep, CompileOkStep,
            StoreStep, ReturnStep, HostRunStep, ImportNextStep, InitReturnsStep,
            InitRaisesStep, MainReturnsStep, ExhaustStep, CollectStep, StutterStep DEF Next

\* ManagerInv holds in every state.
LEMMA ManagerAlways == Spec => []ManagerInv
  BY InitManager, ManagerNext, PTL DEF Spec

-----------------------------------------------------------------------------
\* How initializers begin.

LEMMA RunningFinite ==
  ASSUME Types, NEW m
  PROVE  IsFiniteSet(Running(m)) /\ Cardinality(Running(m)) \in Nat
<1>1. Len(stack) \in Nat /\ DOMAIN stack = 1 .. Len(stack)
  BY DEF Types
<1>2. IsFiniteSet(1 .. Len(stack))
  BY <1>1, FS_Interval
<1>3. Running(m) \subseteq 1 .. Len(stack)
  BY <1>1 DEF Running
<1>. QED BY <1>2, <1>3, FS_Subset, FS_CardinalityType

\* A step that enters no initializer of m does not add to those that run.
LEMMA NoneBegins ==
  ASSUME ManagerInv, NEW m, Running(m)' \subseteq Running(m)
  PROVE  ~ (Cardinality(Running(m)') > Cardinality(Running(m)))
<1>1. IsFiniteSet(Running(m)) /\ Cardinality(Running(m)) \in Nat
  BY RunningFinite DEF ManagerInv
<1>2. IsFiniteSet(Running(m)') /\ Cardinality(Running(m)') <= Cardinality(Running(m))
  BY <1>1, FS_Subset
<1>3. Cardinality(Running(m)') \in Nat
  BY <1>2, FS_CardinalityType
<1>. QED BY <1>1, <1>2, <1>3

\* A module that is loaded while it runs imports itself: each call over it
\* imported the next.
LEMMA CircularLoad ==
  ASSUME ManagerInv, load # NoLoad, NEW k \in DOMAIN stack, NameAt(k) = load.name
  PROVE  Circular(load.name)
<1>1. PICK n \in Nat \ {0} : n = Len(stack) /\ DOMAIN stack = 1 .. n
  BY EmptySeq DEF ManagerInv, Types
<1>2. /\ \A j \in 1 .. n - 1 : NameAt(j + 1) \in ToSet(Imports[NameAt(j)])
      /\ load.name \in ToSet(Imports[NameAt(n)])
  <2>1. stack # <<>>
    BY <1>1
  <2>. QED BY <1>1, <2>1 DEF ManagerInv, ImportChain
<1> SUFFICES ASSUME NEW S \in SUBSET Names,
                    ToSet(Imports[load.name]) \subseteq S,
                    \A x \in S : ToSet(Imports[x]) \subseteq S
             PROVE  load.name \in S
  BY DEF Circular
<1> DEFINE T == {i \in Nat : k + 1 + i <= n => NameAt(k + 1 + i) \in S}
<1>3. k \in 1 .. n
  BY <1>1
<1>4. 0 \in T
  BY <1>2, <1>3
<1>5. ASSUME NEW i \in Nat, i \in T PROVE i + 1 \in T
  <2> SUFFICES ASSUME k + 1 + (i + 1) <= n PROVE NameAt(k + 1 + (i + 1)) \in S
    OBVIOUS
  <2>1. k + 1 + i \in 1 .. n - 1 /\ (k + 1 + i) + 1 = k + 1 + (i + 1)
    BY <1>3
  <2>2. NameAt(k + 1 + i) \in S
    BY <1>5, <2>1
  <2>. QED BY <1>2, <2>1, <2>2
<1>6. Nat \subseteq T
  BY <1>4, <1>5, SetInduction
<1> HIDE DEF T
<1>7. CASE k = n
  BY <1>2, <1>7
<1>8. CASE k # n
  <2>1. n - (k + 1) \in Nat /\ k + 1 + (n - (k + 1)) = n
    BY <1>3, <1>8
  <2>2. n - (k + 1) \in T
    BY <1>6, <2>1
  <2>3. NameAt(n) \in S
    BY <2>1, <2>2 DEF T
  <2>. QED BY <1>2, <2>3
<1>. QED BY <1>7, <1>8

\* A step of the load leaves a load as a module that begins.
LEMMA ReturnBegins ==
  ASSUME ManagerInv, Return, NEW m \in DOMAIN objs',
         Cardinality(Running(m)') > Cardinality(Running(m))
  PROVE  m \notin done /\ (Running(m) # {} => Circular(objs[m].name))
<1>1. load.stage = "return" /\ load # NoLoad /\ UNCHANGED objs
  BY LoadingIs DEF Return, ManagerInv
<1>2. ~ (Running(m)' \subseteq Running(m))
  BY NoneBegins
<1>3. stack # <<>> /\ temp # 0
  <2>1. stack' = <<>> => Running(m)' = {}
    BY DEF Running
  <2>2. stack' = stack => Running(m)' = Running(m)
    BY DEF Running
  <2>. QED BY <1>2, <2>1, <2>2 DEF Return, Unwind
<1>4. temp \in Obj /\ objs[temp].name = load.name
  BY <1>1, <1>3 DEF ManagerInv, LoadStages, Types
<1>5. PICK e \in Seq(Frames) : e = Entered(temp, FALSE)
  BY <1>4, EnteredIs
<1>6. \A k \in DOMAIN e : /\ e[k].mod = temp
                          /\ e[k].phase = "init" => objs[temp].init = "func"
  BY <1>4, <1>5, EnteredIs
<1>7. PICK n \in Nat \ {0} : n = Len(stack) /\ DOMAIN stack = 1 .. n /\ stack \in Seq(Frames)
  BY <1>3, EmptySeq DEF ManagerInv, Types
<1>8. stack' = Bump(stack) \o e
  BY <1>3, <1>5 DEF Return, Bump
<1>9. /\ stack' \in Seq(Frames) /\ Len(stack') = n + Len(e)
      /\ \A k \in 1 .. n : stack'[k].mod = stack[k].mod /\ stack'[k].phase = stack[k].phase
      /\ \A k \in 1 .. Len(e) : stack'[n + k] = e[k]
  <2>1. /\ stack' \in Seq(Frames) /\ Len(stack') = Len(stack) + Len(e)
        /\ \A k \in 1 .. Len(stack) : stack'[k].mod = stack[k].mod /\ stack'[k].phase = stack[k].phase
        /\ \A k \in 1 .. Len(e) : stack'[Len(stack) + k] = e[k]
    BY <1>3, <1>7, <1>8, Bumped, Zenon
  <2>. QED BY <1>7, <2>1
<1>10. PICK j \in DOMAIN stack' : stack'[j].mod = m /\ stack'[j].phase = "init"
                                   /\ j \notin Running(m)
  BY <1>2 DEF Running
<1>11. ~ (j \in 1 .. n)
  BY <1>7, <1>9, <1>10 DEF Running
<1>12. j - n \in 1 .. Len(e) /\ n + (j - n) = j
  <2>1. j \in 1 .. n + Len(e) /\ Len(e) \in Nat
    BY <1>9
  <2>. QED BY <1>11, <2>1
<1>13. m = temp /\ objs[temp].init = "func"
  BY <1>6, <1>9, <1>10, <1>12
<1>14. m \notin done
  BY <1>13 DEF ManagerInv, DoneNil
<1>15. ASSUME Running(m) # {} PROVE Circular(objs[m].name)
  <2>1. PICK k \in DOMAIN stack : stack[k].mod = m
    BY <1>15 DEF Running
  <2>2. NameAt(k) = load.name
    BY <1>4, <1>13, <2>1 DEF NameAt
  <2>. QED BY <1>1, <1>4, <1>13, <2>2, CircularLoad
<1>. QED BY <1>14, <1>15

LEMMA HostRunBegins ==
  ASSUME ManagerInv, NEW main \in BOOLEAN, HostRun(main), NEW m \in DOMAIN objs',
         Cardinality(Running(m)') > Cardinality(Running(m))
  PROVE  m \notin done /\ (Running(m) # {} => Circular(objs[m].name))
<1>1. stack = <<>> /\ host # 0 /\ stack' = Entered(host, main) /\ UNCHANGED objs
  BY DEF HostRun, Idle
<1>2. Running(m) = {}
  BY <1>1, ShortSequences DEF Running
<1>3. ~ (Running(m)' \subseteq Running(m))
  BY NoneBegins
<1>4. PICK j \in DOMAIN stack' : stack'[j].mod = m /\ stack'[j].phase = "init"
  BY <1>3 DEF Running
<1>5. host \in Obj
  BY <1>1 DEF ManagerInv, Types
<1>6. m = host /\ objs[host].init = "func"
  BY <1>1, <1>4, <1>5, EnteredIs
<1>. QED BY <1>2, <1>6 DEF ManagerInv, DoneNil

\* The other steps enter nothing.
LEMMA OthersBegin ==
  ASSUME ManagerInv, NEW m,
         \/ UNCHANGED stack
         \/ stack' = <<>>
         \/ stack # <<>> /\ stack' = Front(stack)
         \/ InitReturns
  PROVE  Running(m)' \subseteq Running(m)
<1>1. CASE UNCHANGED stack
  BY <1>1 DEF Running
<1>2. CASE stack' = <<>>
  BY <1>2, ShortSequences DEF Running
<1>3. CASE stack # <<>> /\ stack' = Front(stack)
  <2>1. stack \in Seq(Frames)
    BY DEF ManagerInv, Types
  <2>2. PICK n \in Nat : n = Len(stack) - 1
    BY <1>3, <2>1, EmptySeq
  <2>3. DOMAIN stack' = 1 .. n /\ DOMAIN stack = 1 .. n + 1
        /\ \A k \in 1 .. n : stack'[k] = stack[k]
    BY <1>3, <2>1, <2>2, FrontIs
  <2>. QED BY <2>2, <2>3 DEF Running
<1>4. CASE InitReturns
  <2> DEFINE x == Current.mod
             e == IF Current.main /\ HasMain(x) THEN <<Frame(x, "main", TRUE)>> ELSE <<>>
  <2>1. stack # <<>> /\ stack' = Front(stack) \o e /\ stack \in Seq(Frames)
    BY <1>4 DEF InitReturns, InitOver, Steps, ManagerInv, Types
  <2> HIDE DEF x, e
  <2>2. PICK n \in Nat : n = Len(stack) - 1
    <3>1. Len(stack) \in Nat \ {0}
      BY <2>1, EmptySeq
    <3>2. Len(stack) - 1 \in Nat
      BY <3>1
    <3>. QED BY <3>2
  <2>3. x \in Obj
    <3>1. Len(stack) \in DOMAIN stack /\ Current = stack[Len(stack)]
      BY <2>1, EmptySeq DEF Current, Last
    <3>2. stack[Len(stack)] \in Frames
      BY <2>1, <3>1
    <3>. QED BY <3>1, <3>2 DEF Frames, x
  <2>4. e \in Seq(Frames) /\ \A k \in DOMAIN e : e[k].phase = "main"
    <3>1. Frame(x, "main", TRUE) \in Frames /\ Frame(x, "main", TRUE).phase = "main"
      BY <2>3 DEF Frame, Frames
    <3>2. CASE Current.main /\ HasMain(x)
      <4>1. e = <<Frame(x, "main", TRUE)>>
        BY <3>2 DEF e
      <4>. QED BY <3>1, <4>1, ShortSequences
    <3>3. CASE ~ (Current.main /\ HasMain(x))
      <4>1. e = <<>>
        BY <3>3 DEF e
      <4>. QED BY <4>1, ShortSequences
    <3>. QED BY <3>2, <3>3
  <2>5. PICK f \in Seq(Frames) : f = e /\ \A k \in DOMAIN f : f[k].phase = "main"
    BY <2>4
  <2>6. /\ stack' \in Seq(Frames) /\ Len(stack') = n + Len(f)
        /\ \A k \in 1 .. n : stack'[k] = stack[k]
        /\ \A k \in 1 .. Len(f) : stack'[n + k] = f[k]
    <3>1. stack' = Front(stack) \o f /\ n = Len(stack) - 1
      BY <2>1, <2>2, <2>5
    <3> DEFINE t == Front(stack) \o f
    <3>2. /\ t \in Seq(Frames) /\ Len(t) = Len(stack) - 1 + Len(f)
          /\ \A k \in 1 .. Len(stack) - 1 : t[k] = stack[k]
          /\ \A k \in 1 .. Len(f) : t[Len(stack) - 1 + k] = f[k]
      BY <2>1, Popped
    <3>. QED BY <3>1, <3>2, Zenon
  <2>7. ASSUME NEW j \in Running(m)' PROVE j \in Running(m)
    <3>1. j \in DOMAIN stack' /\ stack'[j].mod = m /\ stack'[j].phase = "init"
      BY <2>7 DEF Running
    <3>2. Len(f) \in Nat /\ DOMAIN f = 1 .. Len(f) /\ j \in 1 .. n + Len(f)
      BY <2>6, <3>1
    <3>3. CASE j \in 1 .. n
      <4>1. j \in DOMAIN stack
        BY <2>1, <2>2, <3>3
      <4>. QED BY <2>6, <3>1, <3>3, <4>1 DEF Running
    <3>4. CASE ~ (j \in 1 .. n)
      <4>1. j - n \in 1 .. Len(f) /\ n + (j - n) = j
        BY <3>2, <3>4
      <4>2. stack'[j] = f[j - n] /\ f[j - n].phase = "main"
        BY <2>5, <2>6, <3>2, <4>1
      <4>. QED BY <3>1, <4>2
    <3>. QED BY <3>3, <3>4
  <2>. QED BY <2>7
<1>. QED BY <1>1, <1>2, <1>3, <1>4

-----------------------------------------------------------------------------
\* The theorems.

\* The variables have their types; temp_module is used by a load only, and the
\* stack stays in its bound.
THEOREM ManagerTypes == Spec => []TypeOK
<1>1. ManagerInv => TypeOK
  <2> SUFFICES ASSUME ManagerInv PROVE TypeOK
    OBVIOUS
  <2>1. load.stage \in {"none", "lookup", "search", "fill", "store", "return"}
    BY LoadingIs DEF ManagerInv, Loads, Stages
  <2>2. load = NoLoad => temp = 0
    BY LoadingIs DEF ManagerInv, LoadStages
  <2>. QED BY <2>1, <2>2 DEF ManagerInv, Types, Depth, TypeOK
<1>. QED BY ManagerAlways, <1>1, PTL

\* What the cache, the host and the running calls refer to exists and is
\* complete, under the name it was loaded for, whatever fails on the way.
THEOREM WholeModules == Spec => []ModulesWhole
<1>1. ManagerInv => ModulesWhole
  <2> SUFFICES ASSUME ManagerInv PROVE ModulesWhole
    OBVIOUS
  <2>1. \A m \in (Reachable \ {temp, 0}) : m \in DOMAIN objs /\ objs[m].complete
    BY DEF Reachable, ManagerInv, HoldersWhole, Whole
  <2>2. load.stage \in {"none", "lookup", "search", "fill", "store", "return"}
    BY LoadingIs DEF ManagerInv, Loads, Stages
  <2>3. temp # 0 => temp \in DOMAIN objs
    BY <2>2 DEF ManagerInv, LoadStages, Whole
  <2>. QED BY <2>1, <2>3 DEF ModulesWhole, ManagerInv, HoldersWhole
<1>. QED BY ManagerAlways, <1>1, PTL

\* A cached name changes its module only in the load that asks for it again.
THEOREM StableCache == Spec => CacheStable
<1>1. ManagerInv /\ [Next]_vars =>
        [\A n \in DOMAIN cache :
            n \in DOMAIN cache' /\ (cache'[n] # cache[n] => n = load.name /\ "reload" \in load.flags)]_vars
  <2> SUFFICES ASSUME ManagerInv, Next, NEW n \in DOMAIN cache
               PROVE  n \in DOMAIN cache'
                      /\ (cache'[n] # cache[n] => n = load.name /\ "reload" \in load.flags)
    OBVIOUS
  <2>1. CASE Store
    <3>1. load.name \in DOMAIN cache => "reload" \in load.flags
      BY <2>1 DEF Store, ManagerInv, LoadStages
    <3>. QED BY <2>1, <3>1 DEF Store
  <2>2. CASE UNCHANGED cache
    BY <2>2
  <2>3. Store \/ UNCHANGED cache
    BY DEF Next, HostLoad, HostRun, Lookup, SearchFails, MakeModule, FillNative, CompileOk,
           CompileFails, Return, ImportNext, InitReturns, InitRaises, MainReturns, Exhaust,
           Collect
  <2>. QED BY <2>1, <2>2, <2>3
<1>. QED BY ManagerAlways, <1>1, PTL DEF Spec, CacheStable

\* An initializer begins only if its module object has not run it to its end,
\* and while it runs only in a circle of imports.
THEOREM OneInitialisation == Spec => InitialisedOnce
<1>1. ManagerInv /\ [Next]_vars =>
        [\A m \in DOMAIN objs' : Cardinality(Running(m)') > Cardinality(Running(m)) =>
            /\ m \notin done
            /\ Running(m) # {} => Circular(objs[m].name)]_vars
  <2> SUFFICES ASSUME ManagerInv, Next, NEW m \in DOMAIN objs',
                      Cardinality(Running(m)') > Cardinality(Running(m))
               PROVE  m \notin done /\ (Running(m) # {} => Circular(objs[m].name))
    OBVIOUS
  <2>1. CASE Return
    BY <2>1, ReturnBegins
  <2>2. ASSUME NEW main \in BOOLEAN, HostRun(main)
        PROVE  m \notin done /\ (Running(m) # {} => Circular(objs[m].name))
    BY <2>2, HostRunBegins
  <2>3. CASE \/ UNCHANGED stack
             \/ stack' = <<>>
             \/ stack # <<>> /\ stack' = Front(stack)
             \/ InitReturns
    BY <2>3, OthersBegin, NoneBegins
  <2>4. \/ Return
        \/ \E main \in BOOLEAN : HostRun(main)
        \/ UNCHANGED stack \/ stack' = <<>>
        \/ stack # <<>> /\ stack' = Front(stack)
        \/ InitReturns
    BY DEF Next, HostLoad, Lookup, SearchFails, MakeModule, FillNative, CompileOk,
           CompileFails, Store, ImportNext, InitRaises, Unwind, MainReturns, Steps, Exhaust,
           Collect
  <2>. QED BY <2>1, <2>2, <2>3, <2>4
<1>. QED BY ManagerAlways, <1>1, PTL DEF Spec, InitialisedOnce
=============================================================================
