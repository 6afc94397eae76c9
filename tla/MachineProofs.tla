---------------------------- MODULE MachineProofs ----------------------------
(***************************************************************************)
(* Proofs about Machine: whatever the code of the functions and whatever   *)
(* the host does, the invocations of invoke_impl() nest as their frames    *)
(* do, and one that ends leaves the registers and frames as they were; the *)
(* stack of a function that is as bytecode.md documents it has the depth   *)
(* its instructions expect, and no such function, native function or       *)
(* exception writes into the stack of its callers.                         *)
(***************************************************************************)
EXTENDS Machine, SequenceTheorems, TLAPS

\* Sequences of anything.
IsSeq(s) == \E S : s \in Seq(S)

\* The values of the variables.
Regs == [sp : Int, fp : Int]
Ip == [code : Seq(Instruction), at : Int]
Frame == [noret : BOOLEAN, argl : Int, pfp : Int, pip : Ip \cup {NULL}]
Waits == {"start", "run", "native", "import"}
Fields == {"sp", "fp", "ip", "fn", "wait", "argc", "got", "base", "depth"}

\* An invocation.  fn, argc and got are left open.
IsRecord(a) == a = [f \in Fields |-> a[f]]
IsActivation(a) ==
  /\ IsRecord(a)
  /\ a.sp \in Int /\ a.fp \in Int /\ a.wait \in Waits /\ a.base \in Regs /\ a.depth \in Nat

\* Documented code is at an instruction that can be reached with this depth.
Reached(ip, d) ==
  Documented(ip.code) => ip.at \in DOMAIN ip.code /\ d \in Depths(ip.code)[ip.at]

\* Where the stack of the caller ends after the call of frame f.
After(f) == IF f.noret THEN f.argl - 2 ELSE f.argl - 1

\* The frames of invocation a end at t: the first one was entered from C and has
\* the registers from before the invocation, the others return to an instruction
\* of the frame below them.
Based(a, t, frs) ==
  /\ a.depth < t
  /\ frs[a.depth + 1].pip = NULL
  /\ frs[a.depth + 1].argl = a.base.sp + 2 /\ frs[a.depth + 1].pfp = a.base.fp
  /\ \A j \in a.depth + 2 .. t :
        /\ frs[j].pip # NULL
        /\ Reached(frs[j].pip, After(frs[j]) - frs[j].pfp + 1)
        /\ frs[j - 1].argl <= frs[j].pfp

\* What a is doing in its last frame f.
Waiting(a, f) ==
  /\ a.wait = "run" => a.ip \in Ip /\ f.argl <= a.fp /\ Reached(a.ip, a.sp - a.fp + 1)
  /\ a.wait = "import" => /\ a.ip \in Ip /\ f.argl <= a.fp /\ Reached(a.ip, a.sp - a.fp)
                          /\ Documented(a.ip.code) => a.ip.code[a.ip.at].op = "LdMod"
  /\ a.wait = "native" => a.ip = f.pip /\ a.sp >= f.argl - 1

\* An invocation that starts has no frame.
Good(a, t, frs) ==
  IF a.wait = "start" THEN t = a.depth /\ a.argc = 0 /\ a.base = [sp |-> a.sp - 1, fp |-> a.fp]
  ELSE Based(a, t, frs) /\ Waiting(a, frs[t])

\* The frames and committed registers of the k-th invocation end where those of
\* the next one begin.
TopOf(k) == IF k = Len(acts) THEN Len(frames) ELSE acts[k + 1].depth
Committed(k) == IF k = Len(acts) THEN regs.sp ELSE acts[k + 1].base.sp

InvocationOK(k) ==
  /\ IsActivation(acts[k])
  /\ Good(acts[k], TopOf(k), frames)
  /\ k < Len(acts) => acts[k].wait \in {"native", "import"}
  /\ acts[k].wait = "native" => Committed(k) = acts[k].sp

\* The inductive invariant.
MInv ==
  /\ regs \in Regs /\ frames \in Seq(Frame)
  /\ IsSeq(acts)
  /\ IF acts = <<>> THEN frames = <<>> ELSE acts[1].depth = 0
  /\ \A k \in 1 .. Len(acts) :
        InvocationOK(k) /\ \A j \in 1 .. k : acts[j].depth <= acts[k].depth

\* What a step does to the frames, the invocations and the registers.
KeptFrames ==
  /\ frames' \in Seq(Frame) /\ Top.depth <= Len(frames')
  /\ \A j \in 1 .. Top.depth : frames'[j] = frames[j]

\* The current invocation becomes a,
Becomes(a) ==
  /\ IsActivation(a) /\ a.depth = Top.depth /\ a.base = Top.base
  /\ Good(a, Len(frames'), frames') /\ KeptFrames

\* and stays the current one,
Stays ==
  /\ regs' \in Regs
  /\ \E a : Becomes(a) /\ SetTop(a) /\ (a.wait = "native" => regs'.sp = a.sp)

\* or begins another one.
Nested(a, sp, fp) ==
  /\ sp \in Int /\ fp \in Int /\ regs' = [sp |-> sp, fp |-> fp]
  /\ a.wait \in {"native", "import"} /\ (a.wait = "native" => a.sp = sp - 1)
  /\ acts' = Append([acts EXCEPT ![Len(acts)] = a], Activation(sp, fp, 0))
Nests == frames' = frames /\ \E a : Becomes(a) /\ \E sp, fp : Nested(a, sp, fp)

\* It ends; its caller gets something.
Handed ==
  IF Front(acts) = <<>> THEN acts' = <<>>
  ELSE \E g : acts' = [Front(acts) EXCEPT ![Len(Front(acts))] =
                          [Front(acts)[Len(Front(acts))] EXCEPT !.got = g]]
Ends == frames' = SubSeq(frames, 1, Top.depth) /\ regs' = Top.base /\ Handed

\* The story ends.
Halts == UNCHANGED <<regs, frames, acts>>

\* A sequence with another last element.
LastSet(s, e, t) == t = [s EXCEPT ![Len(s)] = e]

\* Only the last element differs.
LEMMA SetLastIs ==
  ASSUME NEW s, NEW e, NEW t, LastSet(s, e, t), IsSeq(s), s # <<>>
  PROVE  /\ IsSeq(t) /\ Len(t) = Len(s) /\ DOMAIN t = 1 .. Len(s) /\ t # <<>>
         /\ t[Len(s)] = e /\ \A k \in 1 .. Len(s) - 1 : t[k] = s[k]
<1>1. PICK S : s \in Seq(S)
  BY DEF IsSeq
<1>2. Len(s) \in Nat \ {0} /\ DOMAIN s = 1 .. Len(s)
  BY <1>1, EmptySeq
<1>3. [s EXCEPT ![Len(s)] = e] \in Seq(S \cup {e}) /\ Len([s EXCEPT ![Len(s)] = e]) = Len(s)
  BY <1>1, <1>2
<1> DEFINE n == Len(s)
           u == [s EXCEPT ![n] = e]
<1>4. n \in Nat \ {0} /\ DOMAIN s = 1 .. n
  BY <1>2
<1>5. n \in 1 .. n /\ \A k \in 1 .. n - 1 : k \in 1 .. n /\ k # n
  <2> HIDE DEF n
  <2>. QED BY <1>4
<1>6. u[n] = e /\ \A k \in 1 .. n - 1 : u[k] = s[k]
  <2> HIDE DEF n
  <2>. QED BY <1>5, <1>4
<1>7. t = u
  BY DEF LastSet
<1>8. t \in Seq(S \cup {e}) /\ Len(t) = n
  BY <1>3, <1>7
<1> HIDE DEF u, n
<1>9. DOMAIN t = 1 .. n /\ t # <<>> /\ IsSeq(t)
  BY <1>4, <1>8 DEF IsSeq
<1>. QED BY <1>6, <1>7, <1>8, <1>9 DEF n

\* A sequence with one more element.
LastAdded(s, e, t) == t = Append(s, e)

\* The others stay where they are.
LEMMA AppendIs ==
  ASSUME NEW s, IsSeq(s), NEW e, NEW t, LastAdded(s, e, t)
  PROVE  /\ IsSeq(t) /\ Len(t) = Len(s) + 1 /\ DOMAIN t = 1 .. Len(s) + 1 /\ t # <<>>
         /\ t[Len(s) + 1] = e /\ \A k \in 1 .. Len(s) : t[k] = s[k]
<1>1. PICK S : s \in Seq(S)
  BY DEF IsSeq
<1>2. t \in Seq(S \cup {e}) /\ Len(t) = Len(s) + 1 /\ DOMAIN t = 1 .. Len(s) + 1
  BY <1>1 DEF LastAdded
<1>3. t[Len(s) + 1] = e /\ \A k \in 1 .. Len(s) : t[k] = s[k]
  BY <1>1 DEF LastAdded
<1>. QED BY <1>2, <1>3 DEF IsSeq

\* The first elements.
LEMMA PrefixIs ==
  ASSUME NEW S, NEW s \in Seq(S), NEW n \in Nat, n <= Len(s)
  PROVE  /\ SubSeq(s, 1, n) \in Seq(S) /\ Len(SubSeq(s, 1, n)) = n
         /\ \A k \in 1 .. n : SubSeq(s, 1, n)[k] = s[k]
<1>1. \A k \in 1 .. n : s[k] \in S
  OBVIOUS
<1>2. Len(SubSeq(s, 1, n)) = IF 1 <= n THEN n - 1 + 1 ELSE 0
  BY <1>1, SubSeqProperties
<1>3. SubSeq(s, 1, n) \in Seq(S)
  BY <1>1, SubSeqProperties
<1>4. \A k \in 1 .. n - 1 + 1 : SubSeq(s, 1, n)[k] = s[1 + k - 1]
  BY <1>1, SubSeqProperties
<1>. QED BY <1>2, <1>3, <1>4

\* All elements but the last.
LEMMA FrontIs ==
  ASSUME NEW s, IsSeq(s), s # <<>>
  PROVE  /\ IsSeq(Front(s)) /\ Len(Front(s)) = Len(s) - 1 /\ Len(s) - 1 \in Nat
         /\ DOMAIN Front(s) = 1 .. Len(s) - 1
         /\ \A k \in 1 .. Len(s) - 1 : Front(s)[k] = s[k]
<1>1. PICK S : s \in Seq(S)
  BY DEF IsSeq
<1>2. Len(s) \in Nat \ {0} /\ Len(s) - 1 \in Nat /\ Len(s) - 1 <= Len(s)
  BY <1>1, EmptySeq
<1>3. SubSeq(s, 1, Len(s) - 1) \in Seq(S) /\ Len(SubSeq(s, 1, Len(s) - 1)) = Len(s) - 1
  BY <1>1, <1>2, PrefixIs
<1>4. \A k \in 1 .. Len(s) - 1 : SubSeq(s, 1, Len(s) - 1)[k] = s[k]
  BY <1>1, <1>2, PrefixIs
<1>5. Front(s) = SubSeq(s, 1, Len(s) - 1)
  BY DEF Front
<1>6. Front(s) \in Seq(S) /\ Len(Front(s)) = Len(s) - 1
     /\ \A k \in 1 .. Len(s) - 1 : Front(s)[k] = s[k]
  BY <1>3, <1>4, <1>5
<1>7. DOMAIN Front(s) = 1 .. Len(s) - 1
  BY <1>2, <1>6
<1>. QED BY <1>2, <1>6, <1>7 DEF IsSeq

\* A record with one field set.
LEMMA SetField ==
  ASSUME NEW a, IsRecord(a), NEW f \in Fields, NEW x
  PROVE  LET b == [a EXCEPT ![f] = x]
         IN IsRecord(b) /\ b[f] = x /\ \A g \in Fields : g # f => b[g] = a[g]
  BY DEF IsRecord

\* Moved().
MovedTo(b, a, sp, ip) == b = [a EXCEPT !.sp = sp, !.ip = ip]

\* The invocation goes on in the same frame.
LEMMA SetSpIp ==
  ASSUME NEW a, IsActivation(a), NEW sp \in Int, NEW ip, NEW b, MovedTo(b, a, sp, ip)
  PROVE  /\ IsActivation(b) /\ b.sp = sp /\ b.fp = a.fp /\ b.ip = ip /\ b.wait = a.wait
         /\ b.argc = a.argc /\ b.base = a.base /\ b.depth = a.depth
<1> DEFINE b1 == [a EXCEPT !.sp = sp]
<1>1. IsRecord(b1) /\ b1["sp"] = sp /\ \A g \in Fields : g # "sp" => b1[g] = a[g]
  BY SetField DEF Fields, IsActivation
<1> HIDE DEF b1
<1> DEFINE b2 == [b1 EXCEPT !.ip = ip]
<1>2. IsRecord(b2) /\ b2["ip"] = ip /\ \A g \in Fields : g # "ip" => b2[g] = b1[g]
  BY SetField, <1>1 DEF Fields, IsActivation
<1>3. b = b2
  BY DEF b1, MovedTo
<1> HIDE DEF b2
<1>. QED BY <1>1, <1>2, <1>3 DEF IsActivation, Fields

\* A function is entered.
Entering(b, a, fp, fn, wait, ip) ==
  b = [a EXCEPT !.fp = fp, !.fn = fn, !.wait = wait, !.ip = ip]

\* It has the frame pointer and the code of the callee.
LEMMA SetCall ==
  ASSUME NEW a, IsActivation(a), NEW fp \in Int, NEW fn, NEW wait \in Waits, NEW ip,
         NEW b, Entering(b, a, fp, fn, wait, ip)
  PROVE  /\ IsActivation(b) /\ b.sp = a.sp /\ b.fp = fp /\ b.ip = ip /\ b.wait = wait
         /\ b.argc = a.argc /\ b.base = a.base /\ b.depth = a.depth
<1> DEFINE b1 == [a EXCEPT !.fp = fp]
<1>1. IsRecord(b1) /\ b1["fp"] = fp /\ \A g \in Fields : g # "fp" => b1[g] = a[g]
  BY SetField DEF Fields, IsActivation
<1> HIDE DEF b1
<1> DEFINE b2 == [b1 EXCEPT !.fn = fn]
<1>2. IsRecord(b2) /\ b2["fn"] = fn /\ \A g \in Fields : g # "fn" => b2[g] = b1[g]
  BY SetField, <1>1 DEF Fields, IsActivation
<1> HIDE DEF b2
<1> DEFINE b3 == [b2 EXCEPT !.wait = wait]
<1>3. IsRecord(b3) /\ b3["wait"] = wait /\ \A g \in Fields : g # "wait" => b3[g] = b2[g]
  BY SetField, <1>2 DEF Fields, IsActivation
<1> HIDE DEF b3
<1> DEFINE b4 == [b3 EXCEPT !.ip = ip]
<1>4. IsRecord(b4) /\ b4["ip"] = ip /\ \A g \in Fields : g # "ip" => b4[g] = b3[g]
  BY SetField, <1>3 DEF Fields, IsActivation
<1>5. b = b4
  BY DEF b1, b2, b3, Entering
<1> HIDE DEF b4
<1>. QED BY <1>1, <1>2, <1>3, <1>4, <1>5 DEF IsActivation, Fields

\* A native function is entered.
EnteringNative(b, a, fp, wait, ip) ==
  b = [a EXCEPT !.fp = fp, !.wait = wait, !.ip = ip]

\* It waits, with the instruction pointer to return to.
LEMMA SetNative ==
  ASSUME NEW a, IsActivation(a), NEW fp \in Int, NEW wait \in Waits, NEW ip,
         NEW b, EnteringNative(b, a, fp, wait, ip)
  PROVE  /\ IsActivation(b) /\ b.sp = a.sp /\ b.fp = fp /\ b.ip = ip /\ b.wait = wait
         /\ b.argc = a.argc /\ b.base = a.base /\ b.depth = a.depth
<1> DEFINE b1 == [a EXCEPT !.fp = fp]
<1>1. IsRecord(b1) /\ b1["fp"] = fp /\ \A g \in Fields : g # "fp" => b1[g] = a[g]
  BY SetField DEF Fields, IsActivation
<1> HIDE DEF b1
<1> DEFINE b2 == [b1 EXCEPT !.wait = wait]
<1>2. IsRecord(b2) /\ b2["wait"] = wait /\ \A g \in Fields : g # "wait" => b2[g] = b1[g]
  BY SetField, <1>1 DEF Fields, IsActivation
<1> HIDE DEF b2
<1> DEFINE b3 == [b2 EXCEPT !.ip = ip]
<1>3. IsRecord(b3) /\ b3["ip"] = ip /\ \A g \in Fields : g # "ip" => b3[g] = b2[g]
  BY SetField, <1>2 DEF Fields, IsActivation
<1>4. b = b3
  BY DEF b1, b2, EnteringNative
<1> HIDE DEF b3
<1>. QED BY <1>1, <1>2, <1>3, <1>4 DEF IsActivation, Fields

\* A function goes on.
Returned(b, a, sp, fp, ip, fn) ==
  b = [a EXCEPT !.sp = sp, !.fp = fp, !.ip = ip, !.fn = fn]

\* It has the registers of the caller.
LEMMA SetReturn ==
  ASSUME NEW a, IsActivation(a), NEW sp \in Int, NEW fp \in Int, NEW ip, NEW fn,
         NEW b, Returned(b, a, sp, fp, ip, fn)
  PROVE  /\ IsActivation(b) /\ b.sp = sp /\ b.fp = fp /\ b.ip = ip /\ b.wait = a.wait
         /\ b.argc = a.argc /\ b.base = a.base /\ b.depth = a.depth
<1> DEFINE b1 == [a EXCEPT !.sp = sp]
<1>1. IsRecord(b1) /\ b1["sp"] = sp /\ \A g \in Fields : g # "sp" => b1[g] = a[g]
  BY SetField DEF Fields, IsActivation
<1> HIDE DEF b1
<1> DEFINE b2 == [b1 EXCEPT !.fp = fp]
<1>2. IsRecord(b2) /\ b2["fp"] = fp /\ \A g \in Fields : g # "fp" => b2[g] = b1[g]
  BY SetField, <1>1 DEF Fields, IsActivation
<1> HIDE DEF b2
<1> DEFINE b3 == [b2 EXCEPT !.ip = ip]
<1>3. IsRecord(b3) /\ b3["ip"] = ip /\ \A g \in Fields : g # "ip" => b3[g] = b2[g]
  BY SetField, <1>2 DEF Fields, IsActivation
<1> HIDE DEF b3
<1> DEFINE b4 == [b3 EXCEPT !.fn = fn]
<1>4. IsRecord(b4) /\ b4["fn"] = fn /\ \A g \in Fields : g # "fn" => b4[g] = b3[g]
  BY SetField, <1>3 DEF Fields, IsActivation
<1>5. b = b4
  BY DEF b1, b2, b3, Returned
<1> HIDE DEF b4
<1>. QED BY <1>1, <1>2, <1>3, <1>4, <1>5 DEF IsActivation, Fields

\* ... after a native function.
Resumed(b, a, sp, fp, wait, got) ==
  b = [a EXCEPT !.sp = sp, !.fp = fp, !.wait = wait, !.got = got]

\* It executes again.
LEMMA SetResume ==
  ASSUME NEW a, IsActivation(a), NEW sp \in Int, NEW fp \in Int, NEW wait \in Waits, NEW got,
         NEW b, Resumed(b, a, sp, fp, wait, got)
  PROVE  /\ IsActivation(b) /\ b.sp = sp /\ b.fp = fp /\ b.ip = a.ip /\ b.wait = wait
         /\ b.argc = a.argc /\ b.base = a.base /\ b.depth = a.depth
<1> DEFINE b1 == [a EXCEPT !.sp = sp]
<1>1. IsRecord(b1) /\ b1["sp"] = sp /\ \A g \in Fields : g # "sp" => b1[g] = a[g]
  BY SetField DEF Fields, IsActivation
<1> HIDE DEF b1
<1> DEFINE b2 == [b1 EXCEPT !.fp = fp]
<1>2. IsRecord(b2) /\ b2["fp"] = fp /\ \A g \in Fields : g # "fp" => b2[g] = b1[g]
  BY SetField, <1>1 DEF Fields, IsActivation
<1> HIDE DEF b2
<1> DEFINE b3 == [b2 EXCEPT !.wait = wait]
<1>3. IsRecord(b3) /\ b3["wait"] = wait /\ \A g \in Fields : g # "wait" => b3[g] = b2[g]
  BY SetField, <1>2 DEF Fields, IsActivation
<1> HIDE DEF b3
<1> DEFINE b4 == [b3 EXCEPT !.got = got]
<1>4. IsRecord(b4) /\ b4["got"] = got /\ \A g \in Fields : g # "got" => b4[g] = b3[g]
  BY SetField, <1>3 DEF Fields, IsActivation
<1>5. b = b4
  BY DEF b1, b2, b3, Resumed
<1> HIDE DEF b4
<1>. QED BY <1>1, <1>2, <1>3, <1>4, <1>5 DEF IsActivation, Fields

\* A module is entered.
EnteringModule(b, a, sp, wait) == b = [a EXCEPT !.sp = sp, !.wait = wait]

\* It waits, one value higher.
LEMMA SetImport ==
  ASSUME NEW a, IsActivation(a), NEW sp \in Int, NEW wait \in Waits,
         NEW b, EnteringModule(b, a, sp, wait)
  PROVE  /\ IsActivation(b) /\ b.sp = sp /\ b.fp = a.fp /\ b.ip = a.ip /\ b.wait = wait
         /\ b.argc = a.argc /\ b.base = a.base /\ b.depth = a.depth
<1> DEFINE b1 == [a EXCEPT !.sp = sp]
<1>1. IsRecord(b1) /\ b1["sp"] = sp /\ \A g \in Fields : g # "sp" => b1[g] = a[g]
  BY SetField DEF Fields, IsActivation
<1> HIDE DEF b1
<1> DEFINE b2 == [b1 EXCEPT !.wait = wait]
<1>2. IsRecord(b2) /\ b2["wait"] = wait /\ \A g \in Fields : g # "wait" => b2[g] = b1[g]
  BY SetField, <1>1 DEF Fields, IsActivation
<1>3. b = b2
  BY DEF b1, EnteringModule
<1> HIDE DEF b2
<1>. QED BY <1>1, <1>2, <1>3 DEF IsActivation, Fields

\* ... and left
ModuleLeft(b, a, wait, got) == b = [a EXCEPT !.wait = wait, !.got = got]

\* It executes again where it was.
LEMMA SetDone ==
  ASSUME NEW a, IsActivation(a), NEW wait \in Waits, NEW got, NEW b, ModuleLeft(b, a, wait, got)
  PROVE  /\ IsActivation(b) /\ b.sp = a.sp /\ b.fp = a.fp /\ b.ip = a.ip /\ b.wait = wait
         /\ b.argc = a.argc /\ b.base = a.base /\ b.depth = a.depth
<1> DEFINE b1 == [a EXCEPT !.wait = wait]
<1>1. IsRecord(b1) /\ b1["wait"] = wait /\ \A g \in Fields : g # "wait" => b1[g] = a[g]
  BY SetField DEF Fields, IsActivation
<1> HIDE DEF b1
<1> DEFINE b2 == [b1 EXCEPT !.got = got]
<1>2. IsRecord(b2) /\ b2["got"] = got /\ \A g \in Fields : g # "got" => b2[g] = b1[g]
  BY SetField, <1>1 DEF Fields, IsActivation
<1>3. b = b2
  BY DEF b1, ModuleLeft
<1> HIDE DEF b2
<1>. QED BY <1>1, <1>2, <1>3 DEF IsActivation, Fields

\* Something is delivered.
LEMMA SetGot ==
  ASSUME NEW a, IsActivation(a), NEW got
  PROVE  LET b == [a EXCEPT !.got = got]
         IN /\ IsActivation(b) /\ b.sp = a.sp /\ b.fp = a.fp /\ b.ip = a.ip /\ b.wait = a.wait
            /\ b.argc = a.argc /\ b.base = a.base /\ b.depth = a.depth
<1> DEFINE b1 == [a EXCEPT !.got = got]
<1>1. IsRecord(b1) /\ b1["got"] = got /\ \A g \in Fields : g # "got" => b1[g] = a[g]
  BY SetField DEF Fields, IsActivation
<1>2. [a EXCEPT !.got = got] = b1
  BY DEF b1
<1> HIDE DEF b1
<1>. QED BY <1>1, <1>2 DEF IsActivation, Fields
-----------------------------------------------------------------------------
\* The invariant about the current invocation.
LEMMA TopIs ==
  ASSUME MInv, acts # <<>>
  PROVE  /\ IsActivation(Top) /\ Good(Top, Len(frames), frames) /\ Top = acts[Len(acts)]
         /\ Len(acts) \in Nat \ {0} /\ DOMAIN acts = 1 .. Len(acts) /\ Len(frames) \in Nat
         /\ Top.wait = "native" => regs.sp = Top.sp
         /\ Top.depth \in Nat /\ Top.depth <= Len(frames)
<1>1. PICK S : acts \in Seq(S)
  BY DEF MInv, IsSeq
<1>2. Len(acts) \in Nat \ {0} /\ DOMAIN acts = 1 .. Len(acts) /\ Top = acts[Len(acts)]
  BY <1>1, EmptySeq DEF Last, Top
<1>3. Len(acts) \in 1 .. Len(acts)
  BY <1>2, SMTT(30)
<1>4. IsActivation(Top) /\ Good(Top, Len(frames), frames) /\ (Top.wait = "native" => regs.sp = Top.sp)
  BY <1>2, <1>3, ZenonT(60) DEF MInv, InvocationOK, TopOf, Committed
<1>5. Top.depth \in Nat /\ Len(frames) \in Nat
  BY <1>4 DEF IsActivation, MInv
<1>6. Top.depth <= Len(frames)
  BY <1>4, <1>5 DEF Good, Based
<1>. QED BY <1>2, <1>4, <1>5, <1>6

\* An invocation's part of the invariant is about its own frames.
LEMMA GoodKept ==
  ASSUME NEW a, IsActivation(a), NEW t \in Nat, NEW f, NEW g,
         \A j \in 1 .. t : g[j] = f[j], Good(a, t, f)
  PROVE  Good(a, t, g)
<1>1. CASE a.wait = "start"
  BY <1>1 DEF Good
<1>2. CASE a.wait # "start"
  <2>1. Based(a, t, f) /\ Waiting(a, f[t]) /\ a.depth \in Nat /\ a.depth < t
    BY <1>2 DEF Good, IsActivation, Based
  <2>2. a.depth + 1 \in 1 .. t /\ t \in 1 .. t
    BY <2>1
  <2>3. \A j \in a.depth + 2 .. t : j \in 1 .. t /\ j - 1 \in 1 .. t
    BY <2>1
  <2>4. Based(a, t, g)
    BY <2>1, <2>2, <2>3 DEF Based
  <2>. QED BY <1>2, <2>1, <2>2, <2>4 DEF Good
<1>. QED BY <1>1, <1>2

\* What an invocation was given does not matter.
LEMMA GoodGot ==
  ASSUME NEW a, NEW b, NEW t, NEW f, Good(a, t, f), b.sp = a.sp, b.fp = a.fp, b.ip = a.ip,
         b.wait = a.wait, b.argc = a.argc, b.base = a.base, b.depth = a.depth
  PROVE  Good(b, t, f)
  BY DEF Good, Based, Waiting

\* Whatever becomes of the n-th invocation and of those above it, those below
\* are what they were.
LEMMA OuterKept ==
  ASSUME MInv, NEW n \in 1 .. Len(acts), NEW k \in 1 .. n - 1,
         acts'[k] = acts[k], acts'[k + 1].depth = acts[k + 1].depth,
         acts'[k + 1].base = acts[k + 1].base, NEW m \in Nat, m = Len(acts'), n <= m,
         \A j \in 1 .. acts[n].depth : frames'[j] = frames[j]
  PROVE  InvocationOK(k)'
<1>1. Len(acts) \in Nat
  BY DEF MInv, IsSeq
<1>2. /\ k \in 1 .. Len(acts) /\ k + 1 \in 1 .. Len(acts) /\ k < Len(acts) /\ k # Len(acts)
      /\ k + 1 \in 1 .. n /\ k < m /\ k # m
  BY <1>1
<1>3. InvocationOK(k) /\ InvocationOK(k + 1) /\ acts[k + 1].depth <= acts[n].depth
  BY <1>2 DEF MInv
<1>4. acts[k + 1].depth \in Nat /\ acts[n].depth \in Nat
  <2>1. InvocationOK(n)
    BY DEF MInv
  <2>. QED BY <1>3, <2>1 DEF InvocationOK, IsActivation
<1>5. IsActivation(acts[k]) /\ Good(acts[k], acts[k + 1].depth, frames)
  BY <1>2, <1>3 DEF InvocationOK, TopOf
<1>6. \A j \in 1 .. acts[k + 1].depth : frames'[j] = frames[j]
  BY <1>3, <1>4, SMTT(30)
<1>7. Good(acts[k], acts[k + 1].depth, frames')
  BY <1>4, <1>5, <1>6, GoodKept
<1>8. Good(acts'[k], TopOf(k)', frames')
  BY <1>2, <1>7 DEF TopOf
<1>9. acts[k].wait \in {"native", "import"}
     /\ (acts[k].wait = "native" => acts[k + 1].base.sp = acts[k].sp)
  BY <1>2, <1>3 DEF InvocationOK, Committed
<1>. QED BY <1>2, <1>5, <1>8, <1>9 DEF InvocationOK, Committed

Rising(n) == \A k \in n .. Len(acts) : \A j \in n .. k : acts[j].depth <= acts[k].depth

\* The invariant after a step that leaves the invocations below the n-th alone,
\* and their frames.
LEMMA Rebuilt ==
  ASSUME MInv, NEW n \in 1 .. Len(acts), IsSeq(acts'), NEW m \in Nat, m = Len(acts'), n <= m,
         \A k \in 1 .. n - 1 : acts'[k] = acts[k],
         acts'[n].depth = acts[n].depth, acts'[n].base = acts[n].base,
         \A j \in 1 .. acts[n].depth : frames'[j] = frames[j],
         frames' \in Seq(Frame), regs' \in Regs,
         \A k \in n .. m : InvocationOK(k)', Rising(n)'
  PROVE  MInv'
<1>1. n \in Nat /\ n >= 1
  <2>1. Len(acts) \in Nat
    BY DEF MInv, IsSeq
  <2>. QED BY <2>1
<1>2. ASSUME NEW k \in 1 .. n
      PROVE  acts'[k].depth = acts[k].depth /\ acts'[k].base = acts[k].base
  <2>1. k = n \/ k \in 1 .. n - 1
    BY <1>1
  <2>. QED BY <2>1
<1>3. ASSUME NEW k \in 1 .. m
      PROVE  InvocationOK(k)'
  <2>1. CASE k \in n .. m
    BY <2>1
  <2>2. CASE k \in 1 .. n - 1
    <3>1. k + 1 \in 1 .. n
      BY <1>1, <2>2
    <3>2. acts'[k] = acts[k] /\ acts'[k + 1].depth = acts[k + 1].depth
         /\ acts'[k + 1].base = acts[k + 1].base
      BY <1>2, <2>2, <3>1
    <3>. QED BY <2>2, <3>2, OuterKept
  <2>. QED BY <1>1, <2>1, <2>2
<1>4. ASSUME NEW k \in 1 .. m, NEW j \in 1 .. k
      PROVE  acts'[j].depth <= acts'[k].depth
  <2>1. CASE k \in 1 .. n
    <3>1. j \in 1 .. n /\ k \in 1 .. Len(acts)
      BY <1>1, <2>1
    <3>2. acts[j].depth <= acts[k].depth
      BY <3>1 DEF MInv
    <3>. QED BY <1>2, <2>1, <3>1, <3>2
  <2>2. CASE k \in n .. m /\ j \in n .. k
    BY <2>2 DEF Rising
  <2>3. CASE k \in n .. m /\ j \in 1 .. n
    <3>1. acts[j].depth <= acts[n].depth
      BY <2>3 DEF MInv
    <3>2. n \in n .. k /\ n \in 1 .. n
      BY <1>1, <2>3
    <3>3. acts'[n].depth <= acts'[k].depth
      BY <2>3, <3>2 DEF Rising
    <3>4. InvocationOK(j)' /\ InvocationOK(n)' /\ InvocationOK(k)'
      <4>1. j \in 1 .. m /\ n \in 1 .. m
        BY <1>1, <2>3
      <4>. QED BY <1>3, <4>1
    <3>5. acts'[j].depth \in Nat /\ acts'[n].depth \in Nat /\ acts'[k].depth \in Nat
      BY <3>4 DEF InvocationOK, IsActivation
    <3>6. acts'[j].depth <= acts'[n].depth
      BY <1>2, <2>3, <3>1, <3>2
    <3>. QED BY <3>3, <3>5, <3>6
  <2>. QED BY <1>1, <2>1, <2>2, <2>3
<1>5. acts'[1].depth = 0
  <2>1. 1 \in 1 .. n /\ acts # <<>>
    BY <1>1 DEF MInv, IsSeq
  <2>2. acts[1].depth = 0
    BY <2>1 DEF MInv
  <2>. QED BY <1>2, <2>1, <2>2
<1>6. acts' # <<>>
  BY <1>1
<1>. QED BY <1>3, <1>4, <1>5, <1>6 DEF MInv

\* A step of the current invocation keeps the invariant;
LEMMA StaysKeeps ==
  ASSUME MInv, acts # <<>>, Stays
  PROVE  MInv' /\ Len(acts') = Len(acts)
<1>1. PICK a : Becomes(a) /\ SetTop(a) /\ (a.wait = "native" => regs'.sp = a.sp)
  BY DEF Stays
<1>2. LastSet(acts, a, acts') /\ IsSeq(acts)
  BY <1>1 DEF SetTop, LastSet, MInv
<1>3. PICK n \in 1 .. Len(acts) : n = Len(acts) /\ n \in Nat
  <2>1. Len(acts) \in Nat \ {0}
    BY TopIs
  <2>. QED BY <2>1
<1>4. IsSeq(acts') /\ Len(acts') = n /\ acts'[n] = a /\ \A k \in 1 .. n - 1 : acts'[k] = acts[k]
  BY <1>2, <1>3, SetLastIs
<1>5. /\ IsActivation(a) /\ a.depth = acts[n].depth /\ a.base = acts[n].base
      /\ Good(a, Len(frames'), frames') /\ frames' \in Seq(Frame) /\ regs' \in Regs
      /\ \A j \in 1 .. acts[n].depth : frames'[j] = frames[j]
  BY <1>1, <1>3, TopIs DEF Becomes, KeptFrames, Stays
<1>6. \A k \in n .. n : k = n
  OBVIOUS
<1>7. InvocationOK(n)'
  BY <1>1, <1>3, <1>4, <1>5 DEF InvocationOK, TopOf, Committed
<1>8. Rising(n)'
  <2>1. acts'[n].depth <= acts'[n].depth
    BY <1>4, <1>5 DEF IsActivation
  <2>. QED BY <1>3, <1>4, <1>6, <2>1 DEF Rising
<1>9. \A k \in n .. n : InvocationOK(k)'
  BY <1>6, <1>7
<1>10. n <= n /\ n = Len(acts')
  BY <1>3, <1>4
<1>. QED BY <1>3, <1>4, <1>5, <1>8, <1>9, <1>10, Rebuilt

\* so does its end, which puts back what was there before it,
LEMMA EndsKeeps ==
  ASSUME MInv, acts # <<>>, Ends
  PROVE  MInv' /\ Len(acts') < Len(acts) /\ regs' = Top.base /\ Len(frames') = Top.depth
<1>1. PICK n \in Nat : n = Len(acts) - 1 /\ Len(acts) = n + 1 /\ n + 1 \in 1 .. Len(acts)
  <2>1. Len(acts) \in Nat \ {0}
    BY TopIs
  <2>2. Len(acts) - 1 \in Nat /\ Len(acts) = Len(acts) - 1 + 1 /\ Len(acts) - 1 + 1 \in 1 .. Len(acts)
    BY <2>1
  <2>. QED BY <2>2, ZenonT(60)
<1>2. IsSeq(acts)
  BY DEF MInv
<1>3. IsSeq(Front(acts)) /\ Len(Front(acts)) = n /\ \A k \in 1 .. n : Front(acts)[k] = acts[k]
  BY <1>1, <1>2, FrontIs
<1>4. /\ Top.depth \in Nat /\ Top.depth <= Len(frames) /\ frames \in Seq(Frame) /\ Top.base \in Regs
      /\ Top = acts[n + 1]
  BY <1>1, TopIs DEF MInv, IsActivation
<1>5. /\ frames' \in Seq(Frame) /\ Len(frames') = Top.depth
      /\ \A j \in 1 .. Top.depth : frames'[j] = frames[j]
  BY <1>4, PrefixIs DEF Ends
<1>6. regs' \in Regs /\ regs' = Top.base
  BY <1>4 DEF Ends
<1>7. CASE Front(acts) = <<>>
  <2>1. acts' = <<>>
    BY <1>7 DEF Ends, Handed
  <2>2. n = 0 /\ IsSeq(<<>>) /\ Len(<<>>) = 0
    BY <1>3, <1>7 DEF IsSeq
  <2>3. Top.depth = 0
    BY <1>4, <2>2 DEF MInv
  <2>4. frames' = <<>>
    BY <1>5, <2>3
  <2>. QED BY <1>1, <1>5, <1>6, <2>1, <2>2, <2>4 DEF MInv
<1>8. CASE Front(acts) # <<>>
  <2>1. n \in 1 .. n /\ n \in 1 .. Len(acts) /\ n < Len(acts) /\ n # Len(acts)
    BY <1>1, <1>3, <1>8
  <2>2. PICK g : acts' = [Front(acts) EXCEPT ![Len(Front(acts))] =
                            [Front(acts)[Len(Front(acts))] EXCEPT !.got = g]]
    BY <1>8 DEF Ends, Handed
  <2> DEFINE a == [acts[n] EXCEPT !.got = g]
  <2>3. LastSet(Front(acts), a, acts')
    BY <1>3, <2>1, <2>2 DEF LastSet
  <2>4. InvocationOK(n) /\ InvocationOK(n + 1)
    BY <1>1, <2>1 DEF MInv
  <2>5. /\ IsActivation(acts[n]) /\ Good(acts[n], Top.depth, frames)
        /\ acts[n].wait = "native" => Top.base.sp = acts[n].sp
    BY <1>4, <2>1, <2>4 DEF InvocationOK, TopOf, Committed
  <2>6. /\ IsActivation(a) /\ a.sp = acts[n].sp /\ a.fp = acts[n].fp /\ a.ip = acts[n].ip
        /\ a.wait = acts[n].wait /\ a.argc = acts[n].argc /\ a.base = acts[n].base
        /\ a.depth = acts[n].depth
    BY <2>5, SetGot
  <2> HIDE DEF a
  <2>7. Good(acts[n], Top.depth, frames')
    BY <1>4, <1>5, <2>5, GoodKept
  <2>8. Good(a, Top.depth, frames')
    BY <2>6, <2>7, GoodGot
  <2>9. IsSeq(acts') /\ Len(acts') = n /\ acts'[n] = a
       /\ \A k \in 1 .. n - 1 : acts'[k] = Front(acts)[k]
    BY <1>3, <1>8, <2>3, SetLastIs
  <2>10. \A k \in 1 .. n - 1 : acts'[k] = acts[k]
    BY <1>3, <2>9
  <2>11. InvocationOK(n)'
    BY <1>5, <1>6, <2>5, <2>6, <2>8, <2>9 DEF InvocationOK, TopOf, Committed
  <2>12. \A k \in n .. n : k = n
    OBVIOUS
  <2>13. Rising(n)'
    <3>1. acts'[n].depth <= acts'[n].depth
      BY <2>6, <2>9 DEF IsActivation
    <3>. QED BY <2>9, <2>12, <3>1 DEF Rising
  <2>14. acts[n].depth <= Top.depth /\ acts[n].depth \in Nat
    <3>1. n + 1 \in 1 .. Len(acts) /\ n \in 1 .. n + 1
      BY <1>1, <2>1
    <3>2. acts[n].depth <= acts[n + 1].depth
      BY <3>1 DEF MInv
    <3>. QED BY <1>4, <2>5, <3>2 DEF IsActivation
  <2>15. \A j \in 1 .. acts[n].depth : frames'[j] = frames[j]
    BY <1>4, <1>5, <2>14
  <2>16. \A k \in n .. n : InvocationOK(k)'
    BY <2>11, <2>12
  <2>17. n <= n /\ n = Len(acts') /\ acts'[n].depth = acts[n].depth /\ acts'[n].base = acts[n].base
    BY <2>6, <2>9
  <2>18. MInv'
    BY <1>5, <1>6, <2>1, <2>9, <2>10, <2>13, <2>15, <2>16, <2>17, Rebuilt
  <2>. QED BY <1>1, <1>5, <1>6, <2>9, <2>18
<1>. QED BY <1>7, <1>8, SMTT(30)

\* A new invocation: Activation().
IsNew(a, sp, fp) == a = Activation(sp, fp, 0)

\* It begins with the frames there are.
LEMMA NewInvocation ==
  ASSUME frames \in Seq(Frame), NEW sp \in Int, NEW fp \in Int, NEW a, IsNew(a, sp, fp)
  PROVE  /\ IsActivation(a) /\ Good(a, Len(frames), frames) /\ a.wait = "start"
         /\ a.depth = Len(frames) /\ a.base = [sp |-> sp - 1, fp |-> fp]
<1>1. IsActivation(a) /\ a.wait = "start" /\ a.depth = Len(frames) /\ a.argc = 0 /\ a.sp = sp
     /\ a.fp = fp
  BY DEF Activation, IsActivation, IsRecord, Fields, Waits, Regs, IsNew
<1>2. a.base = [sp |-> sp - 1, fp |-> fp]
  BY DEF Activation, IsNew
<1>. QED BY <1>1, <1>2 DEF Good

\* and the start of another one.
LEMMA NestsKeeps ==
  ASSUME MInv, acts # <<>>, Nests
  PROVE  MInv' /\ Len(acts') = Len(acts) + 1
<1>1. PICK a : Becomes(a) /\ \E sp, fp : Nested(a, sp, fp)
  BY DEF Nests
<1>2. PICK sp, fp : Nested(a, sp, fp)
  BY <1>1
<1> DEFINE b == Activation(sp, fp, 0)
           q == [acts EXCEPT ![Len(acts)] = a]
<1>3. PICK n \in 1 .. Len(acts) : n = Len(acts) /\ n \in Nat /\ n + 1 \in Nat
  <2>1. Len(acts) \in Nat \ {0}
    BY TopIs
  <2>. QED BY <2>1
<1>4. LastSet(acts, a, q) /\ IsSeq(acts) /\ acts' = Append(q, b)
  BY <1>2 DEF LastSet, MInv, Nested
<1>5. frames' = frames /\ frames \in Seq(Frame) /\ sp \in Int /\ fp \in Int
     /\ regs' = [sp |-> sp, fp |-> fp]
  BY <1>2 DEF MInv, Nests, Nested
<1>6. IsNew(b, sp, fp) /\ LastAdded(q, b, acts')
  BY <1>4 DEF IsNew, LastAdded
<1> HIDE DEF b, q
<1>19. /\ IsActivation(b) /\ Good(b, Len(frames), frames) /\ b.wait = "start"
       /\ b.depth = Len(frames) /\ b.base = [sp |-> sp - 1, fp |-> fp]
  BY <1>5, <1>6, NewInvocation
<1>20. b.base.sp = sp - 1
  BY <1>19
<1>7. IsSeq(q) /\ Len(q) = n /\ q[n] = a /\ \A k \in 1 .. n - 1 : q[k] = acts[k]
  BY <1>3, <1>4, SetLastIs
<1>8. IsSeq(acts') /\ Len(acts') = n + 1 /\ acts'[n + 1] = b /\ \A k \in 1 .. n : acts'[k] = q[k]
  BY <1>6, <1>7, AppendIs
<1>9. acts'[n] = a /\ \A k \in 1 .. n - 1 : acts'[k] = acts[k]
  <2>1. n \in 1 .. n /\ \A k \in 1 .. n - 1 : k \in 1 .. n
    BY <1>3
  <2>. QED BY <1>7, <1>8, <2>1
<1>10. /\ IsActivation(a) /\ a.depth = acts[n].depth /\ a.base = acts[n].base
       /\ Good(a, Len(frames), frames) /\ a.depth <= Len(frames)
       /\ a.wait \in {"native", "import"} /\ (a.wait = "native" => a.sp = sp - 1)
       /\ \A j \in 1 .. acts[n].depth : frames'[j] = frames[j]
  BY <1>1, <1>2, <1>3, <1>5, TopIs DEF Becomes, KeptFrames, Nested
<1>11. InvocationOK(n)'
  <2>1. TopOf(n)' = Len(frames) /\ Committed(n)' = sp - 1 /\ n # n + 1
    BY <1>3, <1>8, <1>19, <1>20 DEF TopOf, Committed
  <2>. QED BY <1>5, <1>8, <1>9, <1>10, <2>1 DEF InvocationOK
<1>12. InvocationOK(n + 1)'
  <2>1. TopOf(n + 1)' = Len(frames) /\ ~ (n + 1 < n + 1)
    BY <1>3, <1>5, <1>8 DEF TopOf
  <2>. QED BY <1>5, <1>19, <1>8, <2>1 DEF InvocationOK
<1>13. \A k \in n .. n + 1 : (k = n \/ k = n + 1) /\ \A j \in n .. k : j = n
     \/ (j = n + 1 /\ k = n + 1)
  BY <1>3
<1>14. Rising(n)'
  <2>1. acts'[n].depth <= acts'[n].depth /\ acts'[n].depth <= acts'[n + 1].depth
        /\ acts'[n + 1].depth <= acts'[n + 1].depth
    BY <1>5, <1>19, <1>8, <1>9, <1>10 DEF IsActivation
  <2>. QED BY <1>8, <1>13, <2>1 DEF Rising
<1>15. regs' \in Regs
  BY <1>5 DEF Regs
<1>16. \A k \in n .. n + 1 : InvocationOK(k)'
  BY <1>11, <1>12, <1>13
<1>17. n <= n + 1 /\ n + 1 = Len(acts') /\ acts'[n].depth = acts[n].depth
     /\ acts'[n].base = acts[n].base
       /\ frames' \in Seq(Frame)
  BY <1>3, <1>5, <1>8, <1>9, <1>10
<1>18. MInv'
  BY <1>3, <1>8, <1>9, <1>10, <1>14, <1>15, <1>16, <1>17, Rebuilt
<1>. QED BY <1>3, <1>8, <1>18

\* Undefined behaviour changes nothing the invariant is about.
LEMMA HaltsKeeps ==
  ASSUME MInv, Halts
  PROVE  MInv' /\ acts' = acts
<1>1. regs' = regs /\ frames' = frames /\ acts' = acts
  BY DEF Halts
<1>2. \A k : InvocationOK(k)' <=> InvocationOK(k)
  BY <1>1 DEF InvocationOK, TopOf, Committed
<1>. QED BY <1>1, <1>2 DEF MInv
-----------------------------------------------------------------------------
\* Bytecode.

Growth(i) == Pushes(i) - Pops(i)
Straight(i) == i.op \notin Jumps \cup {"Ret", "RetNil", "RetLoc"}

\* The operand of an instruction, and what it takes and leaves.
LEMMA InstructionIs ==
  ASSUME NEW i \in Instruction
  PROVE  /\ i.a \in Int /\ (i.op # "LdInt" => i.a \in Nat)
         /\ Pops(i) \in Nat /\ Pushes(i) \in Nat
<1>1. i.a \in Int /\ (i.op # "LdInt" => i.a \in Nat)
  <2>1. CASE i \in [op : STRING, wide : BOOLEAN, a : Nat]
    BY <2>1
  <2>2. CASE i \in [op : {"LdInt"}, wide : BOOLEAN, a : Int]
    <3>1. i.op = "LdInt" /\ i.a \in Int
      BY <2>2
    <3>. QED BY <3>1
  <2>. QED BY <2>1, <2>2 DEF Instruction
<1>2. Pops(i) \in Nat
  BY <1>1 DEF Pops, ArithOps, CompareOps
<1>3. Pushes(i) \in Nat
  BY DEF Pushes
<1>. QED BY <1>1, <1>2, <1>3

\* The stack-change column, as differences.
LEMMA Growths ==
  ASSUME NEW i \in Instruction
  PROVE  /\ i.op \in {"Dup", "PrepMethY", "LdNil", "LdBool", "LdInt", "LdCnst", "LdSym", "LdFlt",
                      "LdArg", "LdLoc", "LdGlob", "LdGlobY", "LdMod"} => Growth(i) = 1
         /\ i.op \in {"Drop", "StArg", "StLoc", "StGlob", "JmpWhen", "JmpUnls"} => Growth(i) = -1
         /\ i.op \in ArithOps \cup CompareOps => Growth(i) = -1
         /\ i.op \in {"Neg", "Inv", "Not", "LdAttrY", "Jmp"} => Growth(i) = 0
         /\ i.op \in {"MkArr", "MkTup", "MkSet"} => Growth(i) = 1 - i.a
         /\ i.op = "MkMap" => Growth(i) = 1 - 2 * i.a
         /\ i.op = "Call" => Growth(i) = - i.a
         /\ i.op = "CallDrop" => Growth(i) = - i.a - 1
<1>1. i.a \in Int
  BY InstructionIs
<1>2. i.op \in {"Dup", "PrepMethY", "LdNil", "LdBool", "LdInt", "LdCnst", "LdSym", "LdFlt",
                      "LdArg", "LdLoc", "LdGlob", "LdGlobY", "LdMod"} => Growth(i) = 1
  BY DEF Growth, Pops, Pushes, ArithOps, CompareOps
<1>3. i.op \in {"Drop", "StArg", "StLoc", "StGlob", "JmpWhen", "JmpUnls"} => Growth(i) = -1
  BY DEF Growth, Pops, Pushes, ArithOps, CompareOps
<1>4. i.op \in ArithOps \cup CompareOps => Growth(i) = -1
  BY DEF Growth, Pops, Pushes, ArithOps, CompareOps
<1>5. i.op \in {"Neg", "Inv", "Not", "LdAttrY", "Jmp"} => Growth(i) = 0
  BY DEF Growth, Pops, Pushes, ArithOps, CompareOps
<1>6. i.op \in {"MkArr", "MkTup", "MkSet"} => Growth(i) = 1 - i.a
  BY <1>1 DEF Growth, Pops, Pushes, ArithOps, CompareOps
<1>7. i.op = "MkMap" => Growth(i) = 1 - 2 * i.a
  BY <1>1 DEF Growth, Pops, Pushes, ArithOps, CompareOps
<1>8. i.op = "Call" => Growth(i) = - i.a
  BY <1>1 DEF Growth, Pops, Pushes, ArithOps, CompareOps
<1>9. i.op = "CallDrop" => Growth(i) = - i.a - 1
  BY <1>1 DEF Growth, Pops, Pushes, ArithOps, CompareOps
<1>. QED BY <1>2, <1>3, <1>4, <1>5, <1>6, <1>7, <1>8, <1>9

\* Where instructions lead.
LEMMA SuccsIs ==
  ASSUME NEW code, NEW k
  PROVE  /\ Straight(code[k]) => k + 1 \in Succs(code, k)
         /\ code[k].op = "Jmp" => code[k].a \in Succs(code, k)
         /\ code[k].op \in {"JmpWhen", "JmpUnls"} => Succs(code, k) = {code[k].a, k + 1}
  BY DEF Succs, Straight, Jumps

\* Verified code is entered with an empty frame,
LEMMA Entered ==
  ASSUME NEW code \in Seq(Instruction)
  PROVE  Reached([code |-> code, at |-> 1], 0)
<1>1. SUFFICES ASSUME Documented(code)
               PROVE  1 \in 1 .. Len(code) /\ 0 \in Depths(code)[1]
  BY DEF Reached
<1>2. 0 \in Depths(code)[1] /\ Depths(code)[Len(code) + 1] = {}
  BY <1>1 DEF Documented, Verified
<1>3. Len(code) \in Nat /\ Len(code) # 0
  BY <1>2
<1>. QED BY <1>2, <1>3

\* and goes from instruction to instruction as they are documented.
LEMMA Flow ==
  ASSUME NEW ip \in Ip, NEW d \in Int, Reached(ip, d), NEW s \in Succs(ip.code, ip.at), NEW e,
         Documented(ip.code) => e = d + Growth(ip.code[ip.at])
  PROVE  Reached([ip EXCEPT !.at = s], e)
<1> DEFINE code == ip.code
           i == code[ip.at]
<1>1. [ip EXCEPT !.at = s].code = code /\ [ip EXCEPT !.at = s].at = s
  BY DEF Ip
<1>2. SUFFICES ASSUME Documented(code)
               PROVE  s \in DOMAIN code /\ e \in Depths(code)[s]
  BY <1>1 DEF Reached
<1>3. ip.at \in 1 .. Len(code) /\ d \in Depths(code)[ip.at] /\ code \in Seq(Instruction)
  BY <1>2 DEF Reached, Ip
<1>4. i \in Instruction /\ Pops(i) \in Nat /\ Pushes(i) \in Nat
  BY <1>3, InstructionIs, SMTT(30)
<1>5. e = d - Pops(i) + Pushes(i)
  BY <1>2, <1>4 DEF Growth
<1>6. s \in 1 .. Len(code) + 1 /\ d - Pops(i) + Pushes(i) \in Depths(code)[s]
  BY <1>2, <1>3 DEF Documented, Verified
<1>7. Depths(code)[Len(code) + 1] = {}
  BY <1>2 DEF Documented, Verified
<1> HIDE DEF code, i
<1>. QED BY <1>3, <1>5, <1>6, <1>7

\* What verified code takes is there.
LEMMA NotBelow ==
  ASSUME NEW ip \in Ip, NEW d, Reached(ip, d), Documented(ip.code)
  PROVE  d \in Nat /\ d >= Pops(ip.code[ip.at])
  BY DEF Reached, Documented, Verified, Ip

\* A frame that is returned to is not one that was entered from C.
LEMMA IpNotNull ==
  ASSUME NEW ip \in Ip
  PROVE  ip # NULL
<1>1. "at" \in DOMAIN ip
  BY DEF Ip
<1>2. "at" \notin DOMAIN NULL
  BY DEF NULL
<1>. QED BY <1>1, <1>2
-----------------------------------------------------------------------------
\* What the current invocation has when it executes an instruction.
LEMMA AtInstruction ==
  ASSUME MInv, Executing
  PROVE  /\ acts # <<>> /\ IsActivation(Top) /\ Top.sp \in Int /\ Top.fp \in Int /\ Sp = Top.sp
         /\ Top.wait = "run" /\ Top.ip \in Ip /\ Fetched \in Instruction /\ Next1 \in Int
         /\ Len(frames) \in Nat \ {0} /\ Top.depth \in Nat
         /\ Good(Top, Len(frames), frames) /\ Based(Top, Len(frames), frames)
         /\ frames \in Seq(Frame) /\ frames[Len(frames)] \in Frame /\ regs \in Regs
         /\ frames[Len(frames)].argl <= Top.fp /\ Reached(Top.ip, Sp - Top.fp + 1)
<1>1. acts # <<>> /\ Top.wait = "run" /\ Top.ip.at \in DOMAIN Top.ip.code
  BY DEF Executing, Running
<1>2. IsActivation(Top) /\ Good(Top, Len(frames), frames) /\ Top.depth \in Nat /\ Len(frames) \in Nat
  BY <1>1, TopIs
<1>3. Top.sp \in Int /\ Top.fp \in Int /\ Sp = Top.sp
  BY <1>2 DEF IsActivation, Sp
<1>4. Based(Top, Len(frames), frames) /\ Waiting(Top, frames[Len(frames)])
  BY <1>1, <1>2 DEF Good
<1>5. Top.depth < Len(frames)
  BY <1>4 DEF Based
<1>6. Len(frames) \in Nat \ {0} /\ Len(frames) \in 1 .. Len(frames)
  BY <1>2, <1>5
<1>7. frames \in Seq(Frame) /\ regs \in Regs
  BY DEF MInv
<1>8. frames[Len(frames)] \in Frame
  BY <1>6, <1>7
<1>9. Top.ip \in Ip /\ frames[Len(frames)].argl <= Top.fp /\ Reached(Top.ip, Sp - Top.fp + 1)
  BY <1>1, <1>3, <1>4 DEF Waiting
<1>10. Top.ip.code \in Seq(Instruction) /\ Next1 \in Int
  BY <1>9 DEF Ip, Next1
<1>11. Fetched \in Instruction
  BY <1>1, <1>10 DEF Fetched
<1>. QED BY <1>1, <1>2, <1>3, <1>4, <1>6, <1>7, <1>8, <1>9, <1>10, <1>11

\* Another instruction of the function.
LEMMA MovedStays ==
  ASSUME MInv, Executing, NEW sp, NEW at, SetTop(Moved(sp, at)), frames' = frames, regs' \in Regs,
         at \in Int, sp \in Int, Reached([Top.ip EXCEPT !.at = at], sp - Top.fp + 1)
  PROVE  Stays
<1> DEFINE ip == [Top.ip EXCEPT !.at = at]
           a == Moved(sp, at)
<1>1. MovedTo(a, Top, sp, ip)
  BY DEF Moved, MovedTo
<1>2. ip \in Ip
  BY AtInstruction DEF Ip
<1>3. Reached(ip, sp - Top.fp + 1)
  OBVIOUS
<1> HIDE DEF ip
<1>11. IsActivation(Top) /\ Top.wait = "run"
  BY AtInstruction
<1> HIDE DEF a
<1>4. /\ IsActivation(a) /\ a.sp = sp /\ a.fp = Top.fp /\ a.ip = ip /\ a.wait = "run"
      /\ a.base = Top.base /\ a.depth = Top.depth
  BY <1>1, <1>11, SetSpIp
<1>5. Based(a, Len(frames), frames)
  BY <1>4, AtInstruction DEF Based
<1>6. Waiting(a, frames[Len(frames)])
  BY <1>2, <1>3, <1>4, AtInstruction DEF Waiting
<1>7. Good(a, Len(frames), frames)
  BY <1>4, <1>5, <1>6 DEF Good
<1>8. KeptFrames
  BY AtInstruction DEF KeptFrames, Based
<1>9. Becomes(a)
  BY <1>4, <1>7, <1>8 DEF Becomes
<1>10. SetTop(a)
  BY DEF a
<1>. QED BY <1>4, <1>9, <1>10 DEF Stays

\* The next instruction or the target of a jump, with the documented depth.
LEMMA GoesStays ==
  ASSUME MInv, Executing, NEW sp, NEW at, SetTop(Moved(sp, at)), frames' = frames, regs' \in Regs,
         at \in Succs(Top.ip.code, Top.ip.at) \cap Int, sp \in Int,
         Fetched.op = "StAttrY" \/ sp = Sp + Growth(Fetched)
  PROVE  Stays
<1>1. Growth(Fetched) \in Int
  BY AtInstruction, InstructionIs DEF Growth
<1>2. Sp \in Int /\ Top.fp \in Int
  BY AtInstruction
<1>3. Documented(Top.ip.code) => sp - Top.fp + 1 = Sp - Top.fp + 1 + Growth(Top.ip.code[Top.ip.at])
  <2>1. Documented(Top.ip.code) => Fetched.op # "StAttrY"
    BY DEF Documented, Executing, Fetched
  <2>2. Documented(Top.ip.code) => sp = Sp + Growth(Fetched)
    BY <2>1
  <2>. QED BY <1>1, <1>2, <2>2 DEF Fetched
<1>4. Sp - Top.fp + 1 \in Int /\ Reached(Top.ip, Sp - Top.fp + 1) /\ Top.ip \in Ip
  BY AtInstruction
<1>5. Reached([Top.ip EXCEPT !.at = at], sp - Top.fp + 1)
  BY <1>3, <1>4, Flow
<1>. QED BY <1>5, MovedStays

\* Continue().
LEMMA ContinueStays ==
  ASSUME MInv, Executing, Straight(Fetched), NEW s, NEW sp, Continue(s, sp), sp \in Int,
         Fetched.op = "StAttrY" \/ sp = Sp + Growth(Fetched)
  PROVE  Stays
<1>1. Next1 \in Succs(Top.ip.code, Top.ip.at) \cap Int
  BY AtInstruction, SuccsIs DEF Next1, Fetched
<1>2. SetTop(Moved(sp, Next1)) /\ frames' = frames /\ regs' = regs
  BY DEF Continue, Goto
<1>. QED BY <1>1, <1>2, AtInstruction, GoesStays

\* The same for what is pushed.
LEMMA PushStays ==
  ASSUME MInv, Executing, Straight(Fetched), NEW v, Push(v), Growth(Fetched) = 1
  PROVE  Stays
  BY ContinueStays, AtInstruction DEF Push

\* Frames among which an exception finds the one its invocation began with.
Unwinds(frs) ==
  /\ frs \in Seq(Frame) /\ Top.depth < Len(frs)
  /\ frs[Top.depth + 1].pip = NULL
  /\ frs[Top.depth + 1].argl = Top.base.sp + 2 /\ frs[Top.depth + 1].pfp = Top.base.fp
  /\ \A j \in Top.depth + 2 .. Len(frs) : frs[j].pip # NULL
  /\ \A j \in 1 .. Top.depth : frs[j] = frames[j]

\* Sequences that begin alike.
LEMMA SamePrefix ==
  ASSUME NEW S, NEW s \in Seq(S), NEW t \in Seq(S), NEW n \in Nat, n <= Len(s), n <= Len(t),
         \A k \in 1 .. n : s[k] = t[k]
  PROVE  SubSeq(s, 1, n) = SubSeq(t, 1, n)
<1> DEFINE u == SubSeq(s, 1, n)
           v == SubSeq(t, 1, n)
<1>1. u \in Seq(S) /\ Len(u) = n /\ \A k \in 1 .. n : u[k] = s[k]
  BY PrefixIs
<1>2. v \in Seq(S) /\ Len(v) = n /\ \A k \in 1 .. n : v[k] = t[k]
  BY PrefixIs
<1> HIDE DEF u, v
<1>3. Len(u) = Len(v) /\ \A k \in 1 .. Len(u) : u[k] = v[k]
  BY <1>1, <1>2
<1>4. u = v
  BY <1>1, <1>2, <1>3, SeqEqual
<1>. QED BY <1>4 DEF u, v

\* Deliver() changes nothing but what the caller was given.
LEMMA DeliverHands ==
  ASSUME NEW ok, NEW v, Deliver(Front(acts), ok, v)
  PROVE  Handed
  BY DEF Deliver, Handed

\* Undefined behaviour.
LEMMA UndefineHalts ==
  Undefine => Halts
  BY DEF Undefine, Halts

\* Following a stale reference,
LEMMA StrayHalts ==
  Stray => Halts
  BY DEF Stray, Halts

\* like a collection that meets one.
LEMMA MeetsStaleHalts ==
  ASSUME NEW sp, MeetsStale(sp)
  PROVE  Halts
  BY StrayHalts DEF MeetsStale

\* An exception is handed to the caller of the invocation, with its frames and
\* registers, unless a frame's function is a stale reference.
LEMMA RaiseEnds ==
  ASSUME MInv, acts # <<>>, NEW s, NEW frs, Unwinds(frs), Raise(s, frs)
  PROVE  Ends \/ Halts
<1>0. SUFFICES ASSUME ~ Stray
               PROVE  Ends
  BY StrayHalts
<1> DEFINE P(k) == frs[k].pip = NULL /\ \A j \in k + 1 .. Len(frs) : frs[j].pip # NULL
           b == CHOOSE k \in DOMAIN frs : P(k)
<1>1. Top.depth \in Nat /\ Top.base \in Regs /\ Top.depth <= Len(frames) /\ frames \in Seq(Frame)
  BY TopIs DEF IsActivation, MInv
<1>2. DOMAIN frs = 1 .. Len(frs) /\ Len(frs) \in Nat /\ frs \in Seq(Frame) /\ Top.depth <= Len(frs)
  BY <1>1 DEF Unwinds
<1>3. Top.depth + 1 \in DOMAIN frs /\ P(Top.depth + 1)
  BY <1>1, <1>2 DEF Unwinds
<1>4. b \in DOMAIN frs /\ P(b)
  <2> HIDE DEF P
  <2>. QED BY <1>3
<1>5. frames' = SubSeq(frs, 1, b - 1) /\ regs' = [sp |-> frs[b].argl - 2, fp |-> frs[b].pfp] /\ Handed
  <2>1. \/ Stray
        \/ /\ frames' = SubSeq(frs, 1, b - 1) /\ regs' = [sp |-> frs[b].argl - 2, fp |-> frs[b].pfp]
           /\ Deliver(Front(acts), FALSE, Exc)
    BY ZenonT(60) DEF Raise
  <2>. QED BY <1>0, <2>1, DeliverHands
<1> HIDE DEF b
<1>6. b = Top.depth + 1
  <2>1. b \in Nat
    BY <1>2, <1>4
  <2>2. ~ (b < Top.depth + 1)
    <3>1. b < Top.depth + 1 => Top.depth + 1 \in b + 1 .. Len(frs)
      BY <1>1, <1>2, <1>3, <2>1
    <3>. QED BY <1>3, <1>4, <3>1
  <2>3. ~ (b > Top.depth + 1)
    <3>1. b > Top.depth + 1 => b \in Top.depth + 1 + 1 .. Len(frs)
      BY <1>1, <1>2, <1>4, <2>1
    <3>. QED BY <1>3, <1>4, <3>1
  <2>. QED BY <1>1, <2>1, <2>2, <2>3
<1>7. regs' = Top.base
  <2>1. frs[b].argl = Top.base.sp + 2 /\ frs[b].pfp = Top.base.fp
    BY <1>6 DEF Unwinds
  <2>2. PICK x, y \in Int : Top.base = [sp |-> x, fp |-> y]
    BY <1>1 DEF Regs
  <2>3. Top.base.sp = x /\ Top.base.fp = y /\ x + 2 - 2 = x
    BY <2>2
  <2>4. frs[b].argl - 2 = x /\ frs[b].pfp = y
    BY <2>1, <2>3
  <2>. QED BY <1>5, <2>2, <2>4
<1>8. SubSeq(frs, 1, Top.depth) = SubSeq(frames, 1, Top.depth)
  BY <1>1, <1>2, SamePrefix DEF Unwinds
<1>9. b - 1 = Top.depth
  BY <1>1, <1>6
<1>. QED BY <1>5, <1>7, <1>8, <1>9 DEF Ends

\* A new one may meet a stale reference as it is allocated.
LEMMA RaiseNewEnds ==
  ASSUME MInv, acts # <<>>, NEW sp, NEW frs, Unwinds(frs), RaiseNew(sp, frs)
  PROVE  Ends \/ Halts
  BY RaiseEnds, MeetsStaleHalts DEF RaiseNew

\* The frames of an invocation as they are.
LEMMA BasedUnwinds ==
  ASSUME MInv, Based(Top, Len(frames), frames)
  PROVE  Unwinds(frames)
  BY DEF Unwinds, Based, MInv

\* An exception that an instruction raises,
LEMMA RaiseAt ==
  ASSUME MInv, Executing, RaiseHere
  PROVE  Ends \/ Halts
  BY AtInstruction, BasedUnwinds, RaiseNewEnds DEF RaiseHere

\* and that of a method that is not found.
LEMMA NoMethodAt ==
  ASSUME MInv, Executing, NEW v, NoMethod(v)
  PROVE  Ends \/ Halts
<1>1. RaiseNew(Sp, frames) \/ Stray
  BY DEF NoMethod
<1>. QED BY <1>1, AtInstruction, BasedUnwinds, RaiseNewEnds, StrayHalts
-----------------------------------------------------------------------------
\* Calls and returns.

\* A frame that an invocation enters upon its others.
LEMMA EnteredUnwinds ==
  ASSUME MInv, acts # <<>>, NEW frame \in Frame, NEW frs, LastAdded(frames, frame, frs),
         \/ /\ Top.depth = Len(frames) /\ frame.pip = NULL
            /\ frame.argl = Top.base.sp + 2 /\ frame.pfp = Top.base.fp
         \/ Based(Top, Len(frames), frames) /\ frame.pip # NULL
  PROVE  /\ Unwinds(frs) /\ Len(frs) = Len(frames) + 1 /\ Len(frames) \in Nat
         /\ frs[Len(frames) + 1] = frame /\ \A k \in 1 .. Len(frames) : frs[k] = frames[k]
<1>1. frames \in Seq(Frame) /\ Len(frames) \in Nat /\ Top.depth \in Nat /\ Top.depth <= Len(frames)
  BY TopIs DEF MInv
<1>2. frs \in Seq(Frame)
  BY <1>1 DEF LastAdded
<1>3. IsSeq(frames)
  BY <1>1 DEF IsSeq
<1> DEFINE t == Len(frames)
<1>4. /\ Len(frs) = t + 1 /\ t \in Nat /\ Top.depth <= t
      /\ frs[t + 1] = frame /\ \A k \in 1 .. t : frs[k] = frames[k]
  BY <1>1, <1>3, AppendIs
<1> HIDE DEF t
<1>5. \A j \in 1 .. Top.depth : j \in 1 .. t
  BY <1>1, <1>4
<1>6. CASE /\ Top.depth = t /\ frame.pip = NULL
           /\ frame.argl = Top.base.sp + 2 /\ frame.pfp = Top.base.fp
  <2>1. \A j \in Top.depth + 2 .. Len(frs) : FALSE
    BY <1>1, <1>4, <1>6
  <2>. QED BY <1>1, <1>2, <1>4, <1>5, <1>6, <2>1 DEF Unwinds, t
<1>7. CASE Based(Top, t, frames) /\ frame.pip # NULL
  <2>1. Top.depth < t
    BY <1>7 DEF Based
  <2>2. Top.depth + 1 \in 1 .. t
    BY <1>1, <1>4, <2>1
  <2>3. \A j \in Top.depth + 2 .. Len(frs) : j = t + 1 \/ (j \in 1 .. t /\ j \in Top.depth + 2 .. t)
    BY <1>1, <1>4, <2>1
  <2>4. \A j \in Top.depth + 2 .. Len(frs) : frs[j].pip # NULL
    BY <1>4, <1>7, <2>3 DEF Based
  <2>. QED BY <1>1, <1>2, <1>4, <1>5, <1>7, <2>1, <2>2, <2>4 DEF Unwinds, Based, t
<1>. QED BY <1>4, <1>6, <1>7 DEF t

\* The invocation with a frame more.
LEMMA DeeperIs ==
  ASSUME MInv, acts # <<>>, NEW frame \in Frame, LastAdded(frames, frame, frames'),
         \/ /\ Top.depth = Len(frames) /\ frame.pip = NULL
            /\ frame.argl = Top.base.sp + 2 /\ frame.pfp = Top.base.fp
         \/ /\ Based(Top, Len(frames), frames) /\ frame.pip # NULL
            /\ Reached(frame.pip, After(frame) - frame.pfp + 1)
            /\ frames[Len(frames)].argl <= frame.pfp,
         NEW a, IsActivation(a), a.depth = Top.depth, a.base = Top.base, a.wait # "start",
         Waiting(a, frame)
  PROVE  Becomes(a)
<1> DEFINE t == Len(frames)
           first == /\ Top.depth = t /\ frame.pip = NULL
                    /\ frame.argl = Top.base.sp + 2 /\ frame.pfp = Top.base.fp
           more == /\ Based(Top, t, frames) /\ frame.pip # NULL
                   /\ Reached(frame.pip, After(frame) - frame.pfp + 1)
                   /\ frames[t].argl <= frame.pfp
<1>1. first \/ more
  OBVIOUS
<1>2. /\ Unwinds(frames') /\ Len(frames') = t + 1 /\ t \in Nat
      /\ frames'[t + 1] = frame /\ \A k \in 1 .. t : frames'[k] = frames[k]
  BY EnteredUnwinds
<1>3. Top.depth \in Nat /\ Top.depth <= t
  BY TopIs
<1> HIDE DEF t
<1>4. KeptFrames
  BY <1>2, <1>3 DEF Unwinds, KeptFrames
<1>5. Based(a, t + 1, frames')
  <2>1. /\ a.depth < t + 1 /\ frames'[a.depth + 1].pip = NULL
        /\ frames'[a.depth + 1].argl = a.base.sp + 2 /\ frames'[a.depth + 1].pfp = a.base.fp
    BY <1>2, <1>3 DEF Unwinds
  <2>2. ASSUME NEW j \in a.depth + 2 .. t + 1
        PROVE  /\ frames'[j].pip # NULL
               /\ Reached(frames'[j].pip, After(frames'[j]) - frames'[j].pfp + 1)
               /\ frames'[j - 1].argl <= frames'[j].pfp
    <3>1. CASE j = t + 1
      <4>1. more /\ a.depth < t
        BY <1>1, <1>2, <1>3, <2>2, <3>1 DEF Based
      <4>2. j - 1 = t /\ t \in 1 .. t
        BY <1>2, <1>3, <3>1, <4>1
      <4>3. frames'[j] = frame /\ frames'[j - 1] = frames[t]
        BY <1>2, <3>1, <4>2
      <4>. QED BY <4>1, <4>3
    <3>2. CASE j # t + 1
      <4>1. j \in a.depth + 2 .. t /\ a.depth # t /\ j \in 1 .. t /\ j - 1 \in 1 .. t
        BY <1>2, <1>3, <2>2, <3>2
      <4>2. more
        BY <1>1, <4>1
      <4>3. frames'[j] = frames[j] /\ frames'[j - 1] = frames[j - 1]
        BY <1>2, <4>1
      <4>. QED BY <4>1, <4>2, <4>3 DEF Based
    <3>. QED BY <3>1, <3>2
  <2>. QED BY <2>1, <2>2 DEF Based
<1>. QED BY <1>2, <1>4, <1>5 DEF Becomes, Good

\* The invocation with a frame less.
LEMMA ShallowerIs ==
  ASSUME MInv, acts # <<>>, Based(Top, Len(frames), frames), NEW frame, frame = frames[Len(frames)],
         frame.pip # NULL, NEW frs, frs = Front(frames)
  PROVE  /\ Unwinds(frs) /\ Len(frs) = Len(frames) - 1 /\ Based(Top, Len(frs), frs)
         /\ frs[Len(frs)].argl <= frame.pfp
         /\ Reached(frame.pip, After(frame) - frame.pfp + 1)
<1>1. frames \in Seq(Frame) /\ Len(frames) \in Nat /\ Top.depth \in Nat /\ Top.depth < Len(frames)
  BY TopIs DEF MInv, Based
<1>2. IsSeq(frames) /\ frames # <<>>
  BY <1>1 DEF IsSeq
<1> DEFINE t == Len(frames) - 1
<1>3. Len(frs) = t /\ t \in Nat /\ \A k \in 1 .. t : frs[k] = frames[k]
  BY <1>2, FrontIs
<1>4. Len(frames) = t + 1
  BY <1>1
<1>5. frs \in Seq(Frame)
  <2>1. frs = SubSeq(frames, 1, t)
    BY DEF Front
  <2>2. t \in Nat /\ t <= Len(frames)
    BY <1>1
  <2>. QED BY <1>1, <2>1, <2>2, PrefixIs
<1> HIDE DEF t
<1>6. Top.depth + 1 \in 1 .. t /\ Top.depth < t
  <2>1. Top.depth + 1 # t + 1
    BY <1>4 DEF Based
  <2>. QED BY <1>1, <1>3, <1>4, <2>1
<1>7. \A j \in 1 .. Top.depth : j \in 1 .. t
  BY <1>6, <1>1, <1>3
<1>8. \A j \in Top.depth + 2 .. t : j \in 1 .. t /\ j - 1 \in 1 .. t /\ j \in Top.depth + 2 .. t + 1
  BY <1>1, <1>3
<1>9. Based(Top, t, frs)
  BY <1>3, <1>4, <1>6, <1>8 DEF Based
<1>10. t + 1 \in Top.depth + 2 .. t + 1 /\ t + 1 - 1 = t /\ t \in 1 .. t
  BY <1>1, <1>3, <1>6
<1>11. frs[t].argl <= frame.pfp /\ Reached(frame.pip, After(frame) - frame.pfp + 1)
  BY <1>3, <1>4, <1>10 DEF Based
<1>12. Unwinds(frs)
  BY <1>3, <1>5, <1>6, <1>7, <1>9 DEF Unwinds, Based
<1>. QED BY <1>3, <1>9, <1>11, <1>12 DEF t

\* The function that goes on has the depth its code expects after the call.
LEMMA ShallowerBecomes ==
  ASSUME MInv, acts # <<>>, Based(Top, Len(frames), frames), NEW frame, frame = frames[Len(frames)],
         frame.pip # NULL, frames' = Front(frames),
         NEW a, IsActivation(a), a.depth = Top.depth, a.base = Top.base, a.wait = "run",
         a.ip = frame.pip, a.fp = frame.pfp, a.sp = After(frame)
  PROVE  Becomes(a)
<1>1. frames \in Seq(Frame) /\ Len(frames) \in 1 .. Len(frames)
  BY TopIs DEF MInv, Based
<1>2. frame \in Frame
  BY <1>1
<1>3. frame.pip \in Ip
  BY <1>2 DEF Frame
<1>4. /\ Unwinds(frames') /\ Based(Top, Len(frames'), frames')
      /\ frames'[Len(frames')].argl <= frame.pfp
      /\ Reached(frame.pip, After(frame) - frame.pfp + 1)
  BY ShallowerIs
<1>5. Based(a, Len(frames'), frames')
  BY <1>4 DEF Based
<1>6. Waiting(a, frames'[Len(frames')])
  BY <1>3, <1>4 DEF Waiting
<1>7. KeptFrames
  BY <1>4, TopIs DEF KeptFrames, Unwinds
<1>. QED BY <1>5, <1>6, <1>7 DEF Becomes, Good

\* Where the stack of a caller ends after a call.
LEMMA AfterIs ==
  ASSUME NEW frame \in Frame
  PROVE  After(frame) \in Int /\ frame.pfp \in Int
  BY DEF After, Frame

\* The last frame of an invocation is left.
LEMMA LastLeft ==
  ASSUME MInv, acts # <<>>, Based(Top, Len(frames), frames), frames[Len(frames)].pip = NULL,
         frames' = Front(frames),
         regs' = [sp |-> frames[Len(frames)].argl - 2, fp |-> frames[Len(frames)].pfp], Handed
  PROVE  Ends
<1>1. frames \in Seq(Frame) /\ Len(frames) \in Nat /\ Top.depth \in Nat /\ Top.depth < Len(frames)
  BY TopIs DEF MInv, Based
<1>2. Len(frames) \notin Top.depth + 2 .. Len(frames)
  BY DEF Based
<1>3. Len(frames) = Top.depth + 1 /\ Len(frames) - 1 = Top.depth
  BY <1>1, <1>2
<1>4. frames' = SubSeq(frames, 1, Top.depth)
  BY <1>3 DEF Front
<1>5. frames[Len(frames)].argl = Top.base.sp + 2 /\ frames[Len(frames)].pfp = Top.base.fp
  BY <1>3 DEF Based
<1>6. Top.base \in Regs
  BY TopIs DEF IsActivation
<1>7. PICK x, y \in Int : Top.base = [sp |-> x, fp |-> y]
  BY <1>6 DEF Regs
<1>8. Top.base.sp = x /\ Top.base.fp = y /\ x + 2 - 2 = x
  BY <1>7
<1>9. frames[Len(frames)].argl - 2 = x /\ frames[Len(frames)].pfp = y
  BY <1>5, <1>8
<1>. QED BY <1>4, <1>7, <1>9 DEF Ends

\* The current frame.
LEMMA LastFrame ==
  ASSUME MInv, acts # <<>>, Based(Top, Len(frames), frames)
  PROVE  /\ Last(frames) = frames[Len(frames)] /\ frames[Len(frames)] \in Frame
         /\ frames \in Seq(Frame) /\ Len(frames) \in Nat \ {0}
<1>1. frames \in Seq(Frame) /\ Len(frames) \in Nat \ {0} /\ Len(frames) \in 1 .. Len(frames)
  BY TopIs DEF MInv, Based
<1>. QED BY <1>1 DEF Last

\* Call(): a first call, or one from an instruction.
Calls(argc, noret, ip) ==
  /\ argc \in Nat /\ noret \in BOOLEAN
  /\ \/ Top.wait = "start" /\ argc = 0 /\ ip = NULL
     \/ /\ Executing /\ ip \in Ip
        /\ Reached(ip, (IF noret THEN Sp - argc - 1 ELSE Sp - argc) - Top.fp + 1)

\* A function or native function is entered, or the exception that the callee
\* cannot be called ends the invocation.
LEMMA CallEffect ==
  ASSUME MInv, acts # <<>>, NEW argc, NEW noret, NEW ip, Calls(argc, noret, ip), Call(argc, noret, ip)
  PROVE  Stays \/ Ends \/ Halts
<1> DEFINE frame == [noret |-> noret, argl |-> Sp - argc + 1, pfp |-> Top.fp, pip |-> ip]
           frs == Append(frames, frame)
<1>1. /\ IsActivation(Top) /\ Good(Top, Len(frames), frames) /\ Len(frames) \in Nat
      /\ Top.sp \in Int /\ Top.fp \in Int /\ Sp = Top.sp
  BY TopIs DEF IsActivation, Sp
<1>2. argc \in Nat /\ noret \in BOOLEAN /\ ip \in Ip \cup {NULL}
  BY DEF Calls
<1>3. frame \in Frame
  BY <1>1, <1>2 DEF Frame
<1>4. /\ frame.noret = noret /\ frame.argl = Sp - argc + 1 /\ frame.pfp = Top.fp /\ frame.pip = ip
      /\ LastAdded(frames, frame, frs)
  BY DEF LastAdded
<1> HIDE DEF frame
<1>5. \/ /\ Top.depth = Len(frames) /\ frame.pip = NULL
         /\ frame.argl = Top.base.sp + 2 /\ frame.pfp = Top.base.fp
      \/ /\ Based(Top, Len(frames), frames) /\ frame.pip # NULL
         /\ Reached(frame.pip, After(frame) - frame.pfp + 1)
         /\ frames[Len(frames)].argl <= frame.pfp
  <2>1. CASE Top.wait = "start" /\ argc = 0 /\ ip = NULL
    <3>1. Len(frames) = Top.depth /\ Top.base = [sp |-> Top.sp - 1, fp |-> Top.fp]
      BY <1>1, <2>1 DEF Good
    <3>2. Top.base.sp = Sp - 1 /\ Top.base.fp = Top.fp
      BY <1>1, <3>1
    <3>. QED BY <1>1, <1>4, <2>1, <3>1, <3>2
  <2>2. CASE /\ Executing /\ ip \in Ip
             /\ Reached(ip, (IF noret THEN Sp - argc - 1 ELSE Sp - argc) - Top.fp + 1)
    <3>1. Based(Top, Len(frames), frames) /\ frames[Len(frames)].argl <= frame.pfp
      BY <1>4, <2>2, AtInstruction
    <3>2. After(frame) = IF noret THEN Sp - argc - 1 ELSE Sp - argc
      BY <1>1, <1>2, <1>4 DEF After
    <3>3. frame.pip # NULL /\ Reached(frame.pip, After(frame) - frame.pfp + 1)
      BY <1>4, <2>2, <3>2, IpNotNull
    <3>. QED BY <3>1, <3>3
  <2>. QED BY <2>1, <2>2 DEF Calls
<1> HIDE DEF frs
<1> DEFINE callee == stk[Sp - argc]
<1>6. CASE IsFunction(callee) /\ argc = callee.argc
  <2> DEFINE ip2 == [code |-> callee.code, at |-> 1]
             a == [Top EXCEPT !.fp = Sp + 1, !.fn = callee, !.wait = "run", !.ip = ip2]
  <2>1. frames' = frs /\ SetTop(a) /\ regs' = regs
    <3>1. callee.k # "cfunc"
      BY <1>6 DEF IsFunction
    <3>2. /\ frames' = frs /\ SetTop(a) /\ UNCHANGED <<stk, regs, globals, out>>
      BY <1>6, <3>1 DEF Call, frs, frame
    <3>. QED BY <3>2
  <2>2. ip2 \in Ip /\ Reached(ip2, 0)
    BY <1>6, Entered DEF IsFunction, Ip
  <2>3. Entering(a, Top, Sp + 1, callee, "run", ip2) /\ Sp + 1 \in Int /\ "run" \in Waits
    BY <1>1 DEF Entering, Waits
  <2> HIDE DEF ip2, a
  <2>4. /\ IsActivation(a) /\ a.sp = Top.sp /\ a.fp = Sp + 1 /\ a.ip = ip2 /\ a.wait = "run"
        /\ a.base = Top.base /\ a.depth = Top.depth
    BY <1>1, <2>3, SetCall
  <2>5. a.sp - a.fp + 1 = 0 /\ frame.argl <= a.fp
    BY <1>1, <1>2, <1>4, <2>4
  <2>6. Waiting(a, frame)
    BY <2>2, <2>4, <2>5 DEF Waiting
  <2>7. Becomes(a)
    BY <1>3, <1>4, <1>5, <2>1, <2>4, <2>6, DeeperIs
  <2>8. regs' \in Regs
    BY <2>1 DEF MInv
  <2>. QED BY <2>1, <2>4, <2>7, <2>8 DEF Stays
<1>7. CASE ~ (IsFunction(callee) /\ argc = callee.argc)
  <2> DEFINE spec == Natives[callee.name]
  <2>1. CASE callee.k = "cfunc" /\ argc = spec.argc
    <3> DEFINE a == [Top EXCEPT !.fp = Sp + 1, !.wait = "native", !.ip = ip]
    <3>0. ~ (argc < spec.argc)
      BY <1>2, <2>1
    <3>1. frames' = frs /\ SetTop(a) /\ regs' = [sp |-> Sp, fp |-> Sp + 1]
      BY <1>7, <2>1, <3>0 DEF Call, frs, frame
    <3>2. EnteringNative(a, Top, Sp + 1, "native", ip) /\ Sp + 1 \in Int /\ "native" \in Waits
      BY <1>1 DEF EnteringNative, Waits
    <3> HIDE DEF a
    <3>3. /\ IsActivation(a) /\ a.sp = Top.sp /\ a.fp = Sp + 1 /\ a.ip = ip /\ a.wait = "native"
          /\ a.base = Top.base /\ a.depth = Top.depth
      BY <1>1, <3>2, SetNative
    <3>4. a.sp >= frame.argl - 1
      BY <1>1, <1>2, <1>4, <3>3
    <3>5. Waiting(a, frame)
      BY <1>4, <3>3, <3>4 DEF Waiting
    <3>6. Becomes(a)
      BY <1>3, <1>4, <1>5, <3>1, <3>3, <3>5, DeeperIs
    <3>7. regs' \in Regs /\ regs'.sp = a.sp
      BY <1>1, <3>1, <3>3 DEF Regs
    <3>. QED BY <3>1, <3>6, <3>7 DEF Stays
  <2>2. CASE ~ (callee.k = "cfunc" /\ argc = spec.argc)
             /\ callee.k = "cfunc" /\ argc < spec.argc /\ argc + spec.oarg >= spec.argc
    BY <1>7, <2>2 DEF Call, Undefine, Halts
  <2>3. CASE ~ (callee.k = "cfunc" /\ argc = spec.argc)
             /\ ~ (callee.k = "cfunc" /\ argc < spec.argc /\ argc + spec.oarg >= spec.argc)
    <3>1. Stray \/ \E p : RaiseNew(p, frs)
      BY <1>7, <2>3 DEF Call, frs, frame
    <3>2. Unwinds(frs)
      BY <1>3, <1>4, <1>5, EnteredUnwinds
    <3>. QED BY <3>1, <3>2, RaiseNewEnds, StrayHalts
  <2>. QED BY <2>1, <2>2, <2>3
<1>. QED BY <1>6, <1>7

\* Leave(): to the caller of the function, or to that of the invocation.
LEMMA LeaveEffect ==
  ASSUME MInv, Executing, NEW v, Leave(v)
  PROVE  Stays \/ Ends \/ Halts
<1>1. /\ acts # <<>> /\ Based(Top, Len(frames), frames) /\ IsActivation(Top) /\ Top.wait = "run"
      /\ regs \in Regs
  BY AtInstruction
<1> DEFINE frame == frames[Len(frames)]
<1>2. Last(frames) = frame /\ frame \in Frame
  BY <1>1, LastFrame
<1> HIDE DEF frame
<1>3. CASE frame.pip = NULL
  <2>1. frames' = Front(frames) /\ regs' = [sp |-> frame.argl - 2, fp |-> frame.pfp] /\ Handed
    BY <1>2, <1>3, DeliverHands DEF Leave
  <2>. QED BY <1>1, <1>3, <2>1, LastLeft DEF frame
<1>4. CASE frame.pip # NULL
  <2>1. GoOn(stk, frame, v)
    BY <1>2, <1>4 DEF Leave
  <2> DEFINE caller == stk[Last(Front(frames)).argl - 1]
  <2>2. CASE Stray \/ Undefine
    BY <2>2, StrayHalts, UndefineHalts
  <2>3. CASE ~ (Stray \/ Undefine)
    <3> DEFINE a == [Top EXCEPT !.sp = After(frame), !.fp = frame.pfp, !.ip = frame.pip,
         !.fn = caller]
    <3>1. frames' = Front(frames) /\ SetTop(a) /\ regs' = regs
      BY <2>1, <2>3 DEF GoOn, After
    <3>2. Returned(a, Top, After(frame), frame.pfp, frame.pip, caller)
      BY DEF Returned
    <3> HIDE DEF a
    <3>3. After(frame) \in Int /\ frame.pfp \in Int
      BY <1>2, AfterIs
    <3>4. /\ IsActivation(a) /\ a.sp = After(frame) /\ a.fp = frame.pfp /\ a.ip = frame.pip
          /\ a.wait = "run" /\ a.base = Top.base /\ a.depth = Top.depth
      BY <1>1, <3>2, <3>3, SetReturn
    <3>5. Becomes(a)
      BY <1>1, <1>4, <3>1, <3>4, ShallowerBecomes DEF frame
    <3>. QED BY <1>1, <3>1, <3>4, <3>5 DEF Stays
  <2>. QED BY <2>2, <2>3
<1>. QED BY <1>3, <1>4

\* What the current invocation has in a native function.
LEMMA AtNative ==
  ASSUME MInv, acts # <<>>, Top.wait = "native"
  PROVE  /\ Based(Top, Len(frames), frames) /\ IsActivation(Top)
         /\ Last(frames) = frames[Len(frames)] /\ frames[Len(frames)] \in Frame
         /\ Top.ip = frames[Len(frames)].pip /\ Top.sp >= frames[Len(frames)].argl - 1
         /\ regs \in Regs /\ regs.sp \in Int /\ regs.fp \in Int /\ regs.sp = Top.sp
<1>1. IsActivation(Top) /\ Based(Top, Len(frames), frames) /\ Waiting(Top, frames[Len(frames)])
      /\ regs.sp = Top.sp
  BY TopIs DEF Good
<1>2. regs \in Regs
  BY DEF MInv
<1>. QED BY <1>1, <1>2, LastFrame DEF Waiting, Regs

\* The caller of a native function goes on, or the exception ends the
\* invocation.
LEMMA NativeReturnEffect ==
  ASSUME MInv, acts # <<>>, Top.wait = "native", NEW s, NEW sp \in Int, NEW status,
         NativeReturn(s, sp, status)
  PROVE  Stays \/ Ends \/ Halts
<1> DEFINE frame == frames[Len(frames)]
           v == IF status = 0 THEN Nil ELSE s[sp]
           down == frame.noret \/ frame.pip = NULL
           newsp == IF down THEN frame.argl - 2 ELSE frame.argl - 1
           put == IF down THEN s ELSE [s EXCEPT ![newsp] = v]
<1>1. /\ Based(Top, Len(frames), frames) /\ IsActivation(Top) /\ Last(frames) = frame
      /\ frame \in Frame /\ Top.ip = frame.pip /\ regs \in Regs
  BY AtNative
<1> HIDE DEF frame
<1>2. CASE frame.pip = NULL
  <2>1. frames' = Front(frames) /\ regs' = [sp |-> newsp, fp |-> frame.pfp] /\ Handed
    BY <1>1, <1>2, DeliverHands DEF NativeReturn
  <2>2. newsp = frame.argl - 2
    BY <1>2
  <2>. QED BY <1>1, <1>2, <2>1, <2>2, LastLeft DEF frame
<1>3. CASE frame.pip # NULL /\ status < 0
  <2>1. Raise([put EXCEPT ![newsp + 1] = v], Front(frames))
    BY <1>1, <1>3 DEF NativeReturn
  <2>2. Unwinds(Front(frames))
    BY <1>1, <1>3, ShallowerIs DEF frame
  <2>. QED BY <2>1, <2>2, RaiseEnds
<1>4. CASE frame.pip # NULL /\ ~ (status < 0)
  <2>1. newsp = After(frame)
    BY <1>4 DEF After
  <2> DEFINE a == [Top EXCEPT !.sp = After(frame), !.fp = frame.pfp, !.wait = "run", !.got = NULL]
  <2>2. frames' = Front(frames) /\ SetTop(a) /\ regs' = [regs EXCEPT !.sp = sp]
    BY <1>1, <1>4, <2>1 DEF NativeReturn
  <2>3. Resumed(a, Top, After(frame), frame.pfp, "run", NULL) /\ "run" \in Waits
    BY DEF Resumed, Waits
  <2> HIDE DEF a
  <2>4. After(frame) \in Int /\ frame.pfp \in Int
    BY <1>1, AfterIs
  <2>5. /\ IsActivation(a) /\ a.sp = After(frame) /\ a.fp = frame.pfp /\ a.ip = frame.pip
        /\ a.wait = "run" /\ a.base = Top.base /\ a.depth = Top.depth
    BY <1>1, <2>3, <2>4, SetResume
  <2>6. Becomes(a)
    BY <1>1, <1>4, <2>2, <2>5, ShallowerBecomes DEF frame
  <2>7. regs' \in Regs
    BY <1>1, <2>2 DEF Regs
  <2>. QED BY <2>2, <2>5, <2>6, <2>7 DEF Stays
<1>. QED BY <1>2, <1>3, <1>4
-----------------------------------------------------------------------------
\* What the steps of an invocation do.

\* Step is MovesValues or Transfers.
MovesValues ==
  \/ OpStack \/ OpLoad \/ OpConstant \/ OpLdFlt \/ OpArg \/ OpLocal \/ OpGlobal \/ OpArith
  \/ OpCompare \/ OpUnary \/ OpNot \/ OpJump \/ OpAttr \/ OpElem \/ OpPrepMeth \/ OpMake

\* The instructions that are followed by the next one, operators apart.
Values == {"Drop", "Dup", "LdNil", "LdBool", "LdInt", "LdCnst", "LdSym", "LdFlt", "LdArg", "StArg",
           "LdLoc", "StLoc", "LdGlob", "LdGlobY", "StGlob", "Neg", "Inv", "Not", "LdAttrY",
           "StAttrY", "PrepMethY", "MkArr", "MkTup", "MkSet", "MkMap", "Call", "CallDrop", "LdMod"}

\* Instructions after which the next one comes.
LEMMA StraightAt ==
  Fetched.op \in Values \cup ArithOps \cup CompareOps => Straight(Fetched)
  BY DEF Straight, Jumps, Values, ArithOps, CompareOps

\* Growths of the current instruction.
LEMMA GrowthAt ==
  ASSUME MInv, Executing
  PROVE  /\ Fetched.op \in {"Dup", "PrepMethY", "LdNil", "LdBool", "LdInt", "LdCnst", "LdSym",
           "LdFlt",
                      "LdArg", "LdLoc", "LdGlob", "LdGlobY", "LdMod"} => Growth(Fetched) = 1
         /\ Fetched.op \in {"Drop", "StArg", "StLoc", "StGlob", "JmpWhen", "JmpUnls"}
                  => Growth(Fetched) = -1
         /\ Fetched.op \in ArithOps \cup CompareOps => Growth(Fetched) = -1
         /\ Fetched.op \in {"Neg", "Inv", "Not", "LdAttrY", "Jmp"} => Growth(Fetched) = 0
         /\ Fetched.op \in {"MkArr", "MkTup", "MkSet"} => Growth(Fetched) = 1 - Fetched.a
         /\ Fetched.op = "MkMap" => Growth(Fetched) = 1 - 2 * Fetched.a
         /\ Fetched.op = "Call" => Growth(Fetched) = - Fetched.a
         /\ Fetched.op = "CallDrop" => Growth(Fetched) = - Fetched.a - 1
         /\ Sp \in Int /\ Top.fp \in Int /\ Fetched.a \in Int /\ Next1 \in Int
         /\ Fetched.op # "LdInt" => Fetched.a \in Nat
<1>1. Fetched \in Instruction /\ Sp \in Int /\ Top.fp \in Int /\ Next1 \in Int
  BY AtInstruction
<1>. QED BY <1>1, Growths, InstructionIs

\* Drop and Dup.
LEMMA OpStackStays ==
  ASSUME MInv, OpStack
  PROVE  Stays
<1>1. CASE At({"Drop"}) /\ Continue(stk, Sp - 1)
  BY <1>1, ContinueStays, StraightAt, GrowthAt DEF At, Values
<1>2. CASE At({"Dup"}) /\ Push(Slot(0))
  BY <1>2, PushStays, StraightAt, GrowthAt DEF At, Values
<1>. QED BY <1>1, <1>2 DEF OpStack

\* LdNil, LdBool, LdInt.
LEMMA OpLoadStays ==
  ASSUME MInv, OpLoad
  PROVE  Stays
<1>1. PICK v : Executing /\ Fetched.op \in {"LdNil", "LdBool", "LdInt"} /\ Push(v)
  BY DEF OpLoad, At
<1>. QED BY <1>1, PushStays, StraightAt, GrowthAt DEF Values

\* LdCnst, LdSym.
LEMMA OpConstantEffect ==
  ASSUME MInv, OpConstant
  PROVE  Stays \/ Ends \/ Halts
<1>1. PICK v : Executing /\ Fetched.op \in {"LdCnst", "LdSym"} /\ (Push(v) \/ RaiseHere)
  BY DEF OpConstant, At
<1>. QED BY <1>1, PushStays, RaiseAt, StraightAt, GrowthAt DEF Values

\* LdFlt.
LEMMA OpLdFltEffect ==
  ASSUME MInv, OpLdFlt
  PROVE  Stays \/ Halts
<1>1. PICK s : Executing /\ Fetched.op = "LdFlt" /\ (Continue(s, Sp + 1) \/ MeetsStale(regs.sp))
  BY DEF OpLdFlt, At
<1>. QED BY <1>1, ContinueStays, MeetsStaleHalts, StraightAt, GrowthAt DEF Values

\* LdArg, StArg.
LEMMA OpArgEffect ==
  ASSUME MInv, OpArg
  PROVE  Stays \/ Ends \/ Halts
<1>1. PICK v, s : Executing /\ \/ Fetched.op = "LdArg" /\ (Push(v) \/ RaiseHere)
                               \/ Fetched.op = "StArg" /\ (Continue(s, Sp - 1) \/ RaiseHere)
  BY DEF OpArg, At
<1>. QED BY <1>1, PushStays, ContinueStays, RaiseAt, StraightAt, GrowthAt DEF Values

\* LdLoc, StLoc.
LEMMA OpLocalEffect ==
  ASSUME MInv, OpLocal
  PROVE  Stays \/ Ends \/ Halts
<1>1. PICK v, s : Executing /\ \/ Fetched.op = "LdLoc" /\ (Push(v) \/ RaiseHere)
                               \/ Fetched.op = "StLoc" /\ (Continue(s, Sp - 1) \/ RaiseHere)
  BY DEF OpLocal, At
<1>. QED BY <1>1, PushStays, ContinueStays, RaiseAt, StraightAt, GrowthAt DEF Values

\* The next instruction, with the stack changed or not.
LEMMA Goes ==
  ASSUME MInv, Executing, Straight(Fetched), NEW sp, Goto(sp, Next1), sp \in Int,
         Fetched.op = "StAttrY" \/ sp = Sp + Growth(Fetched)
  PROVE  Stays
<1>1. Next1 \in Succs(Top.ip.code, Top.ip.at) \cap Int
  BY AtInstruction, SuccsIs DEF Next1, Fetched
<1>2. SetTop(Moved(sp, Next1)) /\ frames' = frames /\ regs' = regs
  BY DEF Goto
<1>. QED BY <1>1, <1>2, AtInstruction, GoesStays

\* LdGlob, LdGlobY, StGlob.
LEMMA OpGlobalEffect ==
  ASSUME MInv, OpGlobal
  PROVE  Stays \/ Ends \/ Halts
<1>1. PICK v : Executing /\ \/ Fetched.op \in {"LdGlob", "LdGlobY"} /\ (Push(v) \/ RaiseHere)
                            \/ Fetched.op = "StGlob" /\ (Goto(Sp - 1, Next1) \/ Stray)
  BY DEF OpGlobal, At
<1>. QED BY <1>1, PushStays, Goes, RaiseAt, StrayHalts, StraightAt, GrowthAt DEF Values

\* PutInt().
LEMMA PutIntEffect ==
  ASSUME MInv, Executing, Straight(Fetched), NEW at \in Int, at = Sp + Growth(Fetched),
         NEW v, PutInt(at, v)
  PROVE  Stays \/ Halts
<1>1. (\E s : Continue(s, at)) \/ MeetsStale(regs.sp)
  BY DEF PutInt
<1>. QED BY <1>1, ContinueStays, MeetsStaleHalts

\* Arithmetic.
LEMMA OpArithEffect ==
  ASSUME MInv, OpArith
  PROVE  Stays \/ Ends \/ Halts
<1>1. PICK v : /\ Executing /\ Fetched.op \in ArithOps
               /\ PutInt(Sp - 1, v) \/ NoMethod(v) \/ Undefine
  BY DEF OpArith, At
<1>2. Sp - 1 \in Int /\ Sp - 1 = Sp + Growth(Fetched) /\ Straight(Fetched)
  BY <1>1, StraightAt, GrowthAt
<1>. QED BY <1>1, <1>2, PutIntEffect, NoMethodAt, UndefineHalts

\* Comparisons.
LEMMA OpCompareEffect ==
  ASSUME MInv, OpCompare
  PROVE  Stays \/ Ends \/ Halts
<1>1. PICK s : Executing /\ Fetched.op \in CompareOps /\ (Continue(s, Sp - 1) \/ NoMethod(Slot(1)))
  BY DEF OpCompare, At
<1>. QED BY <1>1, ContinueStays, NoMethodAt, StraightAt, GrowthAt

\* Neg, Inv.
LEMMA OpUnaryEffect ==
  ASSUME MInv, OpUnary
  PROVE  Stays \/ Ends \/ Halts
<1>1. PICK v : Executing /\ Fetched.op \in {"Neg", "Inv"} /\ (PutInt(Sp, v) \/ NoMethod(v))
  BY DEF OpUnary, At
<1>2. Sp \in Int /\ Sp = Sp + Growth(Fetched) /\ Straight(Fetched)
  BY <1>1, StraightAt, GrowthAt DEF Values
<1>. QED BY <1>1, <1>2, PutIntEffect, NoMethodAt

\* Not.
LEMMA OpNotEffect ==
  ASSUME MInv, OpNot
  PROVE  Stays \/ Ends \/ Halts
<1>1. PICK s : Executing /\ Fetched.op = "Not" /\ (Continue(s, Sp) \/ RaiseHere)
  BY DEF OpNot, At
<1>. QED BY <1>1, ContinueStays, RaiseAt, StraightAt, GrowthAt DEF Values

\* Jumps.
LEMMA OpJumpEffect ==
  ASSUME MInv, OpJump
  PROVE  Stays \/ Ends \/ Halts
<1>1. Executing
  BY DEF OpJump, At
<1>2. Fetched.op \in Jumps => Fetched.a \in Int
  BY <1>1, GrowthAt
<1>3. ASSUME Fetched.op = "Jmp", Goto(Sp, Fetched.a)
      PROVE  Stays
  <2>1. SetTop(Moved(Sp, Fetched.a)) /\ frames' = frames /\ regs' = regs
    BY <1>3 DEF Goto
  <2>2. Fetched.a \in Succs(Top.ip.code, Top.ip.at) \cap Int
    BY <1>2, <1>3, SuccsIs DEF Fetched, Jumps
  <2>. QED BY <1>1, <1>3, <2>1, <2>2, AtInstruction, GrowthAt, GoesStays
<1>4. ASSUME Fetched.op \in {"JmpWhen", "JmpUnls"}, NEW at \in {Fetched.a, Next1}, Goto(Sp - 1, at)
      PROVE  Stays
  <2>1. SetTop(Moved(Sp - 1, at)) /\ frames' = frames /\ regs' = regs
    BY <1>4 DEF Goto
  <2>2. at \in Succs(Top.ip.code, Top.ip.at) \cap Int
    BY <1>1, <1>2, <1>4, SuccsIs, AtInstruction DEF Fetched, Jumps, Next1
  <2>. QED BY <1>1, <1>4, <2>1, <2>2, AtInstruction, GrowthAt, GoesStays, SMTT(30)
<1>5. CASE At({"Jmp"}) /\ Goto(Sp, Fetched.a)
  BY <1>3, <1>5 DEF At
<1>6. CASE At({"JmpWhen", "JmpUnls"})
     /\ (RaiseHere \/ \E at \in {Fetched.a, Next1} : Goto(Sp - 1, at))
  BY <1>4, <1>6, RaiseAt DEF At
<1>. QED BY <1>5, <1>6 DEF OpJump

\* LdAttrY, StAttrY.
LEMMA OpAttrEffect ==
  ASSUME MInv, OpAttr
  PROVE  Stays \/ Ends \/ Halts
<1>1. PICK s : Executing
               /\ \/ Fetched.op = "LdAttrY" /\ (Continue(s, Sp) \/ RaiseHere \/ NoMethod(Slot(0)))
                  \/ Fetched.op = "StAttrY" /\ (Goto(Sp - 1, Next1) \/ RaiseHere \/ Stray)
  BY DEF OpAttr, At
<1>. QED BY <1>1, ContinueStays, Goes, RaiseAt, NoMethodAt, StrayHalts, StraightAt, GrowthAt
         DEF Values

\* LdElem, StElem.
LEMMA OpElemEnds ==
  ASSUME MInv, OpElem
  PROVE  Ends \/ Halts
  BY NoMethodAt DEF OpElem, At

\* PrepMethY.
LEMMA OpPrepMethEffect ==
  ASSUME MInv, OpPrepMeth
  PROVE  Stays \/ Ends \/ Halts
<1>1. Executing /\ Fetched.op = "PrepMethY"
  BY DEF OpPrepMeth, At
<1>2. CASE RaiseHere \/ Stray \/ MeetsStale(Sp)
  BY <1>1, <1>2, RaiseAt, StrayHalts, MeetsStaleHalts
<1>3. CASE regs' = [sp |-> Sp + 1, fp |-> Top.fp] /\ SetTop(Moved(Sp + 1, Next1)) /\ frames' = frames
  <2>1. Sp + 1 \in Int /\ Growth(Fetched) = 1 /\ Straight(Fetched) /\ Top.fp \in Int
    BY <1>1, GrowthAt, StraightAt DEF Values
  <2>2. Next1 \in Succs(Top.ip.code, Top.ip.at) \cap Int
    BY <1>1, <2>1, AtInstruction, SuccsIs DEF Next1, Fetched
  <2>3. regs' \in Regs
    BY <1>3, <2>1 DEF Regs
  <2>. QED BY <1>1, <1>3, <2>1, <2>2, <2>3, GoesStays
<1>. QED BY <1>2, <1>3 DEF OpPrepMeth

\* MkArr, MkTup, MkSet, MkMap.
LEMMA OpMakeEffect ==
  ASSUME MInv, OpMake
  PROVE  Stays \/ Ends \/ Halts
<1>1. Executing /\ Fetched.op \in {"MkArr", "MkTup", "MkSet", "MkMap"}
  BY DEF OpMake, At
<1> DEFINE size == IF Fetched.op = "MkMap" THEN 2 * Fetched.a ELSE Fetched.a
           data == Sp - size + 1
           done == /\ regs' = [sp |-> IF Fetched.op \in {"MkSet", "MkMap"} THEN Sp + 1 ELSE Sp,
                               fp |-> Top.fp]
                   /\ SetTop(Moved(data, Next1)) /\ frames' = frames
<1>7. RaiseHere \/ Stray \/ MeetsStale(Sp) \/ done
  BY ZenonT(60) DEF OpMake
<1>8. SUFFICES ASSUME done
               PROVE  Stays
  BY <1>1, <1>7, RaiseAt, StrayHalts, MeetsStaleHalts
<1>2. /\ regs' = [sp |-> IF Fetched.op \in {"MkSet", "MkMap"} THEN Sp + 1 ELSE Sp, fp |-> Top.fp]
      /\ SetTop(Moved(data, Next1)) /\ frames' = frames
  BY <1>8
<1>3. Sp \in Int /\ Sp + 1 \in Int /\ Top.fp \in Int /\ Fetched.a \in Int
  BY <1>1, GrowthAt
<1>4. data \in Int /\ data = Sp + Growth(Fetched)
  BY <1>1, <1>3, GrowthAt
<1>5. regs' \in Regs
  BY <1>2, <1>3 DEF Regs
<1> HIDE DEF data
<1>6. Next1 \in Succs(Top.ip.code, Top.ip.at) \cap Int
  BY <1>1, StraightAt, AtInstruction, SuccsIs DEF Next1, Fetched, Values
<1>. QED BY <1>1, <1>2, <1>4, <1>5, <1>6, GoesStays

\* All instructions that move values.
LEMMA MovesValuesEffect ==
  ASSUME MInv, MovesValues
  PROVE  Stays \/ Ends \/ Halts
  BY OpStackStays, OpLoadStays, OpConstantEffect, OpLdFltEffect, OpArgEffect, OpLocalEffect,
     OpGlobalEffect, OpArithEffect, OpCompareEffect, OpUnaryEffect, OpNotEffect, OpJumpEffect,
     OpAttrEffect, OpElemEnds, OpPrepMethEffect, OpMakeEffect DEF MovesValues

Transfers ==
  \/ Start \/ OpCall \/ OpReturn \/ RunOff \/ Overflow
  \/ NativeNothing \/ NativeValue \/ NativeRaise \/ NativeApply \/ NativeApplied
  \/ OpLdMod \/ Imported

\* The first call of an invocation.
LEMMA StartEffect ==
  ASSUME MInv, Start
  PROVE  Stays \/ Ends \/ Halts
<1>1. acts # <<>> /\ Top.wait = "start" /\ Call(Top.argc, FALSE, NULL)
  BY DEF Start, Running
<1>2. Good(Top, Len(frames), frames)
  BY <1>1, TopIs
<1>3. Top.argc = 0
  BY <1>1, <1>2 DEF Good
<1>4. Calls(Top.argc, FALSE, NULL)
  BY <1>1, <1>3 DEF Calls
<1>. QED BY <1>1, <1>4, CallEffect

\* Call, CallDrop.
LEMMA OpCallEffect ==
  ASSUME MInv, OpCall
  PROVE  Stays \/ Ends \/ Halts
<1> DEFINE noret == Fetched.op = "CallDrop"
           ip == [Top.ip EXCEPT !.at = Next1]
           argc == Fetched.a
<1>1. Executing /\ Fetched.op \in {"Call", "CallDrop"} /\ Call(argc, noret, ip)
  BY DEF OpCall, At
<1>2. /\ acts # <<>> /\ Top.ip \in Ip /\ Reached(Top.ip, Sp - Top.fp + 1) /\ Sp \in Int
      /\ Top.fp \in Int /\ Next1 \in Int
  BY <1>1, AtInstruction
<1>3. argc \in Nat /\ Growth(Fetched) = (IF noret THEN - argc - 1 ELSE - argc)
  BY <1>1, GrowthAt
<1>4. ip \in Ip
  BY <1>2, SMTT(30) DEF Ip
<1>5. Next1 \in Succs(Top.ip.code, Top.ip.at)
  BY <1>1, StraightAt, SuccsIs DEF Next1, Fetched, Values
<1>6. Reached(ip, (IF noret THEN Sp - argc - 1 ELSE Sp - argc) - Top.fp + 1)
  <2> DEFINE e == (IF noret THEN Sp - argc - 1 ELSE Sp - argc) - Top.fp + 1
             d == Sp - Top.fp + 1
  <2>1. Growth(Top.ip.code[Top.ip.at]) = IF noret THEN - argc - 1 ELSE - argc
    BY <1>3 DEF Fetched
  <2>2. Reached(Top.ip, d)
    BY <1>2
  <2> HIDE DEF noret, argc
  <2>3. e = d + Growth(Top.ip.code[Top.ip.at]) /\ d \in Int
    BY <1>2, <1>3, <2>1
  <2> HIDE DEF e, d
  <2>4. Reached(ip, e)
    BY <1>2, <1>5, <2>2, <2>3, Flow
  <2>. QED BY <2>4 DEF e, noret, argc
<1>7. noret \in BOOLEAN
  OBVIOUS
<1> HIDE DEF ip, argc, noret
<1>8. Calls(argc, noret, ip)
  BY <1>1, <1>3, <1>4, <1>6, <1>7 DEF Calls
<1>. QED BY <1>1, <1>2, <1>8, CallEffect

\* Ret, RetNil, RetLoc.
LEMMA OpReturnEffect ==
  ASSUME MInv, OpReturn
  PROVE  Stays \/ Ends \/ Halts
<1>1. PICK v : Executing /\ (Leave(v) \/ RaiseHere)
  BY DEF OpReturn, At
<1>. QED BY <1>1, LeaveEffect, RaiseAt

\* Native functions that return.
LEMMA NativeEffect ==
  ASSUME MInv, NativeNothing \/ NativeValue \/ NativeRaise \/ NativeApplied
  PROVE  Stays \/ Ends \/ Halts
<1>1. acts # <<>> /\ Top.wait = "native"
  BY DEF NativeNothing, NativeValue, NativeRaise, NativeApplied, InNative, Running
<1>2. regs.sp \in Int /\ regs.sp + 1 \in Int
  BY <1>1, AtNative
<1>3. \/ MeetsStale(regs.sp)
      \/ \E s, sp, status : NativeReturn(s, sp, status) /\ sp \in {regs.sp, regs.sp + 1}
  BY DEF NativeNothing, NativeValue, NativeRaise, NativeApplied
<1>. QED BY <1>1, <1>2, <1>3, NativeReturnEffect, MeetsStaleHalts

\* Setting the last element to what it is.
LEMMA SetToItself ==
  ASSUME NEW s, IsSeq(s), s # <<>>
  PROVE  [s EXCEPT ![Len(s)] = Last(s)] = s
<1>1. PICK S : s \in Seq(S)
  BY DEF IsSeq
<1>. QED BY <1>1 DEF Last

\* A native function that invokes its argument.
LEMMA NativeApplyNests ==
  ASSUME MInv, NativeApply
  PROVE  Nests
<1>1. acts # <<>> /\ Top.wait = "native"
  BY DEF NativeApply, InNative, Running
<1>2. regs.sp \in Int /\ regs.sp + 1 \in Int /\ regs.fp \in Int /\ regs.sp = Top.sp
  BY <1>1, AtNative
<1>3. /\ frames' = frames /\ regs' = [sp |-> regs.sp + 1, fp |-> regs.fp]
      /\ acts' = Append(acts, Activation(regs.sp + 1, regs.fp, 0))
  BY DEF NativeApply, Invoke
<1>4. [acts EXCEPT ![Len(acts)] = Top] = acts
  BY <1>1, SetToItself DEF MInv, Top
<1>5. Top.sp = regs.sp + 1 - 1
  BY <1>2
<1>6. Nested(Top, regs.sp + 1, regs.fp)
  BY <1>1, <1>2, <1>3, <1>4, <1>5 DEF Nested
<1>7. Becomes(Top)
  BY <1>1, <1>3, TopIs DEF Becomes, KeptFrames, MInv
<1>. QED BY <1>3, <1>6, <1>7 DEF Nests

\* LdMod.
LEMMA OpLdModEffect ==
  ASSUME MInv, OpLdMod
  PROVE  Stays \/ Ends \/ Halts \/ Nests
<1>1. Executing /\ Fetched.op = "LdMod"
  BY DEF OpLdMod, At
<1>2. /\ acts # <<>> /\ IsActivation(Top) /\ Top.ip \in Ip /\ Reached(Top.ip, Sp - Top.fp + 1)
      /\ Sp = Top.sp /\ Top.sp \in Int /\ Top.fp \in Int /\ Based(Top, Len(frames), frames)
      /\ frames \in Seq(Frame) /\ regs \in Regs /\ frames[Len(frames)].argl <= Top.fp
  BY <1>1, AtInstruction
<1>3. CASE RaiseHere \/ MeetsStale(regs.sp)
  BY <1>1, <1>3, RaiseAt, MeetsStaleHalts
<1>4. CASE Goto(Sp + 1, Next1)
  BY <1>1, <1>4, Goes, StraightAt, GrowthAt DEF Values
<1>5. CASE \E s, v : /\ Invoke(s, regs.sp, regs.fp, v)
                     /\ acts' = Append([acts EXCEPT ![Len(acts)] = Importing],
                                       Activation(regs.sp + 1, regs.fp, 0))
  <2> DEFINE a == Importing
  <2>1. EnteringModule(a, Top, Sp + 1, "import") /\ Sp + 1 \in Int /\ "import" \in Waits
    BY <1>2 DEF EnteringModule, Importing, Waits
  <2> HIDE DEF a
  <2>2. /\ IsActivation(a) /\ a.sp = Sp + 1 /\ a.fp = Top.fp /\ a.ip = Top.ip /\ a.wait = "import"
        /\ a.base = Top.base /\ a.depth = Top.depth
    BY <1>2, <2>1, SetImport
  <2>3. Sp - Top.fp + 1 = a.sp - a.fp
    BY <1>2, <2>2
  <2>4. Waiting(a, frames[Len(frames)])
    BY <1>1, <1>2, <2>2, <2>3 DEF Waiting, Fetched
  <2>5. Based(a, Len(frames), frames)
    BY <1>2, <2>2 DEF Based
  <2>6. /\ frames' = frames /\ regs' = [sp |-> regs.sp + 1, fp |-> regs.fp]
        /\ acts' = Append([acts EXCEPT ![Len(acts)] = a], Activation(regs.sp + 1, regs.fp, 0))
    BY <1>5 DEF Invoke, a
  <2>7. Becomes(a)
    BY <1>2, <2>2, <2>4, <2>5, <2>6, TopIs DEF Becomes, Good, KeptFrames
  <2>8. regs.sp + 1 \in Int /\ regs.fp \in Int
    BY <1>2 DEF Regs
  <2>9. Nested(a, regs.sp + 1, regs.fp)
    BY <2>2, <2>6, <2>8 DEF Nested
  <2>. QED BY <2>6, <2>7, <2>9 DEF Nests
<1>. QED BY <1>3, <1>4, <1>5 DEF OpLdMod

\* The module that was imported has run.
LEMMA ImportedEffect ==
  ASSUME MInv, Imported
  PROVE  Stays \/ Ends \/ Halts
<1>1. acts # <<>> /\ Top.wait = "import"
  BY DEF Imported, Running
<1>2. /\ IsActivation(Top) /\ Based(Top, Len(frames), frames) /\ Waiting(Top, frames[Len(frames)])
      /\ Top.depth <= Len(frames)
  BY <1>1, TopIs DEF Good
<1>3. /\ Top.ip \in Ip /\ frames[Len(frames)].argl <= Top.fp /\ Reached(Top.ip, Top.sp - Top.fp)
      /\ Documented(Top.ip.code) => Fetched.op = "LdMod"
  BY <1>1, <1>2 DEF Waiting, Fetched
<1>4. Top.sp \in Int /\ Top.fp \in Int /\ Sp = Top.sp /\ frames \in Seq(Frame) /\ regs \in Regs
  BY <1>2 DEF IsActivation, Sp, MInv
<1>5. CASE Raise(stk, frames)
  BY <1>1, <1>2, <1>5, BasedUnwinds, RaiseEnds
<1>6. CASE /\ SetTop([Moved(Sp, Next1) EXCEPT !.wait = "run", !.got = NULL])
           /\ regs' = regs /\ frames' = frames
  <2> DEFINE ip == [Top.ip EXCEPT !.at = Next1]
             b == Moved(Sp, Next1)
             a == [b EXCEPT !.wait = "run", !.got = NULL]
  <2>1. MovedTo(b, Top, Sp, ip) /\ ModuleLeft(a, b, "run", NULL) /\ "run" \in Waits
    BY DEF MovedTo, Moved, ModuleLeft, Waits
  <2>2. SetTop(a)
    BY <1>6
  <2>3. Next1 \in Int /\ ip \in Ip
    BY <1>3 DEF Next1, Ip
  <2>4. Reached(ip, Sp - Top.fp + 1)
    <3>1. CASE Documented(Top.ip.code)
      <4>1. Top.ip.at \in DOMAIN Top.ip.code
        BY <1>3, <3>1 DEF Reached
      <4>2. Fetched \in Instruction /\ Fetched.op = "LdMod"
        BY <1>3, <3>1, <4>1 DEF Fetched, Ip
      <4>3. Growth(Fetched) = 1 /\ Next1 \in Succs(Top.ip.code, Top.ip.at)
        BY <4>2, Growths, StraightAt, SuccsIs DEF Next1, Fetched, Values
      <4>4. Sp - Top.fp + 1 = Top.sp - Top.fp + Growth(Top.ip.code[Top.ip.at])
           /\ Top.sp - Top.fp \in Int
        BY <1>4, <4>3 DEF Fetched
      <4>. QED BY <1>3, <4>3, <4>4, Flow
    <3>2. CASE ~ Documented(Top.ip.code)
      BY <1>3, <3>2 DEF Reached, Ip
    <3>. QED BY <3>1, <3>2
  <2> HIDE DEF a, b, ip
  <2>5. /\ IsActivation(b) /\ b.sp = Sp /\ b.fp = Top.fp /\ b.ip = ip /\ b.base = Top.base
        /\ b.depth = Top.depth
    BY <1>2, <1>4, <2>1, SetSpIp
  <2>6. /\ IsActivation(a) /\ a.sp = Sp /\ a.fp = Top.fp /\ a.ip = ip /\ a.wait = "run"
        /\ a.base = Top.base /\ a.depth = Top.depth
    BY <2>1, <2>5, SetDone
  <2>7. Waiting(a, frames[Len(frames)])
    BY <1>3, <2>3, <2>4, <2>6 DEF Waiting
  <2>8. Based(a, Len(frames), frames)
    BY <1>2, <2>6 DEF Based
  <2>9. Becomes(a)
    BY <1>2, <1>4, <1>6, <2>6, <2>7, <2>8 DEF Becomes, Good, KeptFrames
  <2>. QED BY <1>4, <1>6, <2>2, <2>6, <2>9 DEF Stays
<1>. QED BY <1>5, <1>6 DEF Imported

\* All calls, returns, native functions and imports.
LEMMA TransfersEffect ==
  ASSUME MInv, Transfers
  PROVE  Stays \/ Ends \/ Halts \/ Nests
<1>1. RunOff \/ Overflow => Halts
  BY UndefineHalts DEF RunOff, Overflow
<1>. QED BY <1>1, StartEffect, OpCallEffect, OpReturnEffect, NativeEffect, NativeApplyNests,
            OpLdModEffect, ImportedEffect DEF Transfers

\* Every step is of one of the four kinds.
LEMMA StepEffect ==
  ASSUME MInv, Step
  PROVE  Stays \/ Ends \/ Halts \/ Nests
<1>1. MovesValues \/ Transfers
  BY DEF Step, MovesValues, Transfers
<1>. QED BY <1>1, MovesValuesEffect, TransfersEffect

\* Steps are of an invocation.
LEMMA StepRuns ==
  Step => acts # <<>> /\ out = NULL
<1>1. MovesValues => Executing
  BY ZenonT(60) DEF MovesValues, OpStack, OpLoad, OpConstant, OpLdFlt, OpArg, OpLocal, OpGlobal, OpArith,
         OpCompare, OpUnary, OpNot, OpJump, OpAttr, OpElem, OpPrepMeth, OpMake, At
<1>2. OpCall \/ OpReturn \/ OpLdMod => Executing
  BY DEF OpCall, OpReturn, OpLdMod, At
<1>3. Start \/ RunOff \/ NativeNothing \/ NativeValue \/ NativeRaise \/ NativeApply
     \/ NativeApplied \/ Imported
      => Running
  BY DEF Start, RunOff, NativeNothing, NativeValue, NativeRaise, NativeApply, NativeApplied,
       Imported, InNative
<1>4. Executing => Running
  BY DEF Executing
<1>5. Running \/ Overflow => acts # <<>> /\ out = NULL
  BY DEF Running, Overflow
<1>. QED BY <1>1, <1>2, <1>3, <1>4, <1>5, SMTT(30) DEF Step, MovesValues

\* A step keeps the invariant, and one that ends an invocation restores.
LEMMA StepKeeps ==
  ASSUME MInv, Step
  PROVE  /\ MInv'
         /\ Len(acts') < Len(acts) => regs' = Top.base /\ Len(frames') = Top.depth
<1>1. acts # <<>>
  BY StepRuns
<1>2. Len(acts) \in Nat
  BY <1>1, TopIs
<1>3. CASE Stays
  BY <1>1, <1>2, <1>3, StaysKeeps
<1>4. CASE Nests
  BY <1>1, <1>2, <1>4, NestsKeeps
<1>5. CASE Halts
  BY <1>2, <1>5, HaltsKeeps
<1>6. CASE Ends
  BY <1>1, <1>6, EndsKeeps
<1>. QED BY <1>3, <1>4, <1>5, <1>6, StepEffect
-----------------------------------------------------------------------------
\* The invariant holds when no invocation is under way,
LEMMA EmptyInvariant ==
  ASSUME regs \in Regs, frames = <<>>, acts = <<>>
  PROVE  MInv
<1>1. IsSeq(acts) /\ Len(acts) = 0 /\ frames \in Seq(Frame)
  BY DEF IsSeq
<1>. QED BY <1>1 DEF MInv

\* as at first.
LEMMA InitialInvariant ==
  MachineInit => MInv
<1>1. [sp |-> 0, fp |-> 1] \in Regs
  BY DEF Regs
<1>. QED BY <1>1, EmptyInvariant DEF MachineInit

\* The host begins an invocation,
LEMMA HostInvokeKeeps ==
  ASSUME MInv, NEW v, HostInvoke(v)
  PROVE  MInv' /\ Len(acts) = 0 /\ Len(acts') = 1
<1>1. /\ acts = <<>> /\ regs' = [sp |-> regs.sp + 1, fp |-> regs.fp] /\ frames' = frames
      /\ acts' = <<Activation(regs.sp + 1, regs.fp, 0)>>
  BY DEF HostInvoke, Invoke
<1>2. frames = <<>>
  BY <1>1 DEF MInv
<1>11. frames \in Seq(Frame)
  BY DEF MInv
<1>3. PICK sp, fp \in Int : sp = regs.sp + 1 /\ fp = regs.fp
  BY DEF MInv, Regs
<1> DEFINE a == Activation(sp, fp, 0)
<1>4. acts' = <<a>> /\ regs' = [sp |-> sp, fp |-> fp]
  BY <1>1, <1>3
<1>12. IsNew(a, sp, fp)
  BY DEF IsNew
<1> HIDE DEF a
<1>5. /\ IsActivation(a) /\ Good(a, Len(frames), frames) /\ a.wait = "start"
      /\ a.depth = Len(frames) /\ a.base = [sp |-> sp - 1, fp |-> fp]
  BY <1>11, <1>12, NewInvocation
<1>6. /\ IsSeq(acts') /\ Len(acts') = 1 /\ acts' # <<>> /\ acts'[1] = a
      /\ Len(acts) = 0 /\ Len(frames) = 0 /\ frames' = frames
  <2>1. <<a>> \in Seq({a}) /\ Len(<<a>>) = 1 /\ <<a>> # <<>> /\ <<a>>[1] = a
    OBVIOUS
  <2>2. Len(<<>>) = 0
    OBVIOUS
  <2>. QED BY <1>1, <1>2, <1>4, <2>1, <2>2 DEF IsSeq
<1>7. \A k \in 1 .. 1 : k = 1
  OBVIOUS
<1>8. InvocationOK(1)'
  BY <1>5, <1>6 DEF InvocationOK, TopOf, Committed
<1>9. regs' \in Regs
  BY <1>4 DEF Regs
<1>10. acts'[1].depth = 0 /\ acts'[1].depth <= acts'[1].depth
  BY <1>5, <1>6
<1>. QED BY <1>1, <1>2, <1>6, <1>7, <1>8, <1>9, <1>10 DEF MInv

\* does something else,
LEMMA HostKeeps ==
  ASSUME MInv, Host
  PROVE  MInv' /\ acts' = acts
  BY DEF Host, MInv, Regs, InvocationOK

\* or starts again.
LEMMA RebootKeeps ==
  ASSUME Reboot
  PROVE  MInv'
<1>1. acts' = <<>> /\ frames' = <<>> /\ regs' \in Regs
  BY DEF Reboot, Regs
<1>2. IsSeq(<<>>) /\ Len(<<>>) = 0 /\ <<>> \in Seq(Frame)
  BY DEF IsSeq
<1>. QED BY <1>1, <1>2 DEF MInv

\* A step of something else.
LEMMA StutterKeeps ==
  ASSUME MInv, UNCHANGED machineVars
  PROVE  MInv' /\ acts' = acts
<1>1. Halts
  BY DEF Halts, machineVars
<1>. QED BY <1>1, HaltsKeeps

\* The registers, the frames and the invocations fit together: the frames of
\* invoke_impl() invocations are nested in their order, the first one of each
\* remembers the registers from before it, and whatever is executed, waits or
\* will be returned to has the depth of stack its code allows.
THEOREM MachineInvariant == MachineSpec => []MInv
<1>1. MachineInit => MInv
  BY InitialInvariant
<1>2. ASSUME MInv, [MachineNext]_machineVars
      PROVE  MInv'
  BY <1>2, StepKeeps, HostInvokeKeeps, HostKeeps, RebootKeeps, StutterKeeps DEF MachineNext
<1>. QED BY <1>1, <1>2, PTL DEF MachineSpec

\* However an invocation ends, by a return, an exception that unwinds any number
\* of frames, or a native function's failure, the host or the caller finds the
\* registers and frames that were there before it.
THEOREM InvocationsRestore == MachineSpec => InvocationRestores
<1>1. ASSUME MInv, [MachineNext]_machineVars
      PROVE  [out = NULL /\ Len(acts') < Len(acts) =>
                regs' = Top.base /\ Len(frames') = Top.depth]_machineVars
  <2>1. CASE Step
    BY <1>1, <2>1, StepKeeps
  <2>2. CASE HostInvoke(stk'[regs.sp + 1])
    <3>1. Len(acts) = 0 /\ Len(acts') = 1
      BY <1>1, <2>2, HostInvokeKeeps
    <3>. QED BY <3>1
  <2>3. CASE Host
    <3>1. Len(acts') = Len(acts) /\ Len(acts) \in Nat
      BY <1>1, <2>3, HostKeeps DEF MInv, IsSeq
    <3>. QED BY <3>1
  <2>4. CASE Reboot
    BY <2>4 DEF Reboot
  <2>. QED BY <1>1, <2>1, <2>2, <2>3, <2>4 DEF MachineNext
<1>. QED BY <1>1, MachineInvariant, PTL DEF MachineSpec, InvocationRestores

\* At every instruction of a function that is as bytecode.md documents it, the
\* stack above the frame has a depth at which the instruction can be reached, and
\* the code is never run off.
THEOREM DepthsAreDocumented == MachineSpec => []StackAsDocumented
<1>1. ASSUME MInv
      PROVE  StackAsDocumented
  <2>1. SUFFICES ASSUME Running, Top.wait = "run", Documented(Top.ip.code)
                 PROVE  Executing /\ Sp - Top.fp + 1 \in Depths(Top.ip.code)[Top.ip.at]
    BY DEF StackAsDocumented
  <2>2. Good(Top, Len(frames), frames) /\ acts # <<>>
    BY <1>1, <2>1, TopIs DEF Running
  <2>3. Reached(Top.ip, Sp - Top.fp + 1)
    BY <2>1, <2>2 DEF Good, Waiting, Sp
  <2>. QED BY <2>1, <2>3 DEF Reached, Executing
<1>. QED BY <1>1, MachineInvariant, PTL
-----------------------------------------------------------------------------
\* The stack of the callers.

\* A stack that has the values of the callers, or what a collection left.
Keeps(s) ==
  /\ DOMAIN s = DOMAIN stk
  /\ \A k \in DOMAIN stk : k < Last(frames).argl - 1 => s[k] \in {stk[k], Junk}

\* A write at or above the callee of the current frame.
LEMMA PutKeeps ==
  ASSUME NEW s, Keeps(s), NEW p \in Int, Last(frames).argl \in Int, p >= Last(frames).argl - 1, NEW v
  PROVE  Keeps([s EXCEPT ![p] = v])
<1> DEFINE u == [s EXCEPT ![p] = v]
<1>1. DOMAIN u = DOMAIN stk
  BY DEF Keeps
<1>2. ASSUME NEW k \in DOMAIN stk, k < Last(frames).argl - 1
      PROVE  u[k] \in {stk[k], Junk}
  <2>1. k # p
    BY <1>2
  <2>2. u[k] = s[k]
    BY <2>1, <1>2 DEF Keeps
  <2>. QED BY <1>2, <2>2 DEF Keeps
<1>. QED BY <1>1, <1>2 DEF Keeps

\* No write.
LEMMA SameKeeps == Keeps(stk)
  BY DEF Keeps

\* A collection.
LEMMA AllocatedKeeps ==
  ASSUME NEW sp, NEW s \in Allocated(sp)
  PROVE  Keeps(s)
  BY DEF Allocated, Keeps

\* Where the stack of a documented function may be written.
LEMMA Room ==
  ASSUME MInv, Executing, Documented(Top.ip.code)
  PROVE  /\ Last(frames).argl \in Int /\ Last(frames).argl <= Top.fp
         /\ Sp - Pops(Fetched) + 1 >= Last(frames).argl
<1>1. /\ acts # <<>> /\ Based(Top, Len(frames), frames) /\ Top.ip \in Ip
      /\ Reached(Top.ip, Sp - Top.fp + 1) /\ Sp \in Int /\ Top.fp \in Int
      /\ frames[Len(frames)].argl <= Top.fp /\ Fetched \in Instruction
  BY AtInstruction
<1>2. Last(frames) = frames[Len(frames)] /\ Last(frames).argl \in Int
  BY <1>1, LastFrame DEF Frame
<1>3. Sp - Top.fp + 1 >= Pops(Fetched) /\ Pops(Fetched) \in Nat
  BY <1>1, NotBelow, InstructionIs DEF Fetched
<1>. QED BY <1>1, <1>2, <1>3

\* What the current instruction takes.
LEMMA PopsAt ==
  /\ Fetched.op \in {"Drop", "Dup", "Neg", "Inv", "Not", "LdAttrY", "PrepMethY"} => Pops(Fetched) = 1
  /\ Fetched.op \in ArithOps \cup CompareOps => Pops(Fetched) = 2
  /\ Fetched.op \in {"MkArr", "MkTup", "MkSet"} => Pops(Fetched) = Fetched.a
  /\ Fetched.op = "MkMap" => Pops(Fetched) = 2 * Fetched.a
  BY DEF Pops, ArithOps, CompareOps

\* Where instructions write: the new top of the stack, or what they took.
LEMMA Places ==
  ASSUME MInv, Executing, Documented(Top.ip.code)
  PROVE  /\ Last(frames).argl \in Int /\ Sp \in Int /\ Top.fp \in Int /\ Top.fp >= Last(frames).argl
         /\ Sp + 1 >= Last(frames).argl
         /\ Fetched.op \in {"Neg", "Inv", "Not", "LdAttrY", "PrepMethY"} => Sp >= Last(frames).argl
         /\ Fetched.op \in ArithOps \cup CompareOps => Sp - 1 >= Last(frames).argl
         /\ Fetched.op \in {"MkArr", "MkTup", "MkSet"} => Sp - Fetched.a + 1 >= Last(frames).argl
         /\ Fetched.op = "MkMap" => Sp - 2 * Fetched.a + 1 >= Last(frames).argl
<1>1. Sp \in Int /\ Top.fp \in Int /\ Fetched.a \in Int /\ Pops(Fetched) \in Nat
  BY AtInstruction, InstructionIs
<1>2. /\ Last(frames).argl \in Int /\ Last(frames).argl <= Top.fp
      /\ Sp - Pops(Fetched) + 1 >= Last(frames).argl
  BY Room
<1>. QED BY <1>1, <1>2, PopsAt

\* Following a stale reference.
LEMMA StrayKeeps ==
  Stray => Keeps(stk')
  BY SameKeeps DEF Stray

\* A collection that meets one.
LEMMA MeetsStaleKeeps ==
  ASSUME NEW sp, MeetsStale(sp)
  PROVE  Keeps(stk')
  BY StrayKeeps DEF MeetsStale

\* An exception.
LEMMA RaiseKeeps ==
  ASSUME NEW s, NEW frs, Raise(s, frs), Keeps(s)
  PROVE  Keeps(stk')
<1>1. Stray \/ stk' = s
  BY ZenonT(60) DEF Raise
<1>. QED BY <1>1, StrayKeeps

\* A new one.
LEMMA RaiseNewKeeps ==
  ASSUME NEW sp, NEW frs, RaiseNew(sp, frs)
  PROVE  Keeps(stk')
<1>1. MeetsStale(sp) \/ \E s \in Allocated(sp) : Raise(s, frs)
  BY DEF RaiseNew
<1>. QED BY <1>1, MeetsStaleKeeps, AllocatedKeeps, RaiseKeeps

\* An exception of an instruction.
LEMMA RaiseHereKeeps ==
  RaiseHere => Keeps(stk')
  BY RaiseNewKeeps DEF RaiseHere

\* A method that is not found.
LEMMA NoMethodKeeps ==
  ASSUME NEW v, NoMethod(v)
  PROVE  Keeps(stk')
  BY StrayKeeps, RaiseNewKeeps DEF NoMethod

\* Undefined behaviour.
LEMMA UndefineKeeps ==
  Undefine => Keeps(stk')
  BY SameKeeps DEF Undefine

\* Continue().
LEMMA ContinueKeeps ==
  ASSUME NEW s, NEW sp, Continue(s, sp), Keeps(s)
  PROVE  Keeps(stk')
  BY DEF Continue

\* Push().
LEMMA PushKeeps ==
  ASSUME MInv, Executing, Documented(Top.ip.code), NEW v, Push(v)
  PROVE  Keeps(stk')
<1>1. Sp + 1 \in Int /\ Sp + 1 >= Last(frames).argl - 1 /\ Last(frames).argl \in Int
  BY Places
<1>2. Keeps([stk EXCEPT ![Sp + 1] = v])
  BY <1>1, PutKeeps, SameKeeps
<1>. QED BY <1>2, ContinueKeeps DEF Push

\* Continue() with one slot written.
LEMMA ContinuePutKeeps ==
  ASSUME MInv, Executing, Documented(Top.ip.code), NEW s, Keeps(s), NEW p \in Int,
         p >= Last(frames).argl, NEW v, NEW sp, Continue([s EXCEPT ![p] = v], sp)
  PROVE  Keeps(stk')
<1>1. Last(frames).argl \in Int /\ p >= Last(frames).argl - 1
  BY Places
<1>2. Keeps([s EXCEPT ![p] = v])
  BY <1>1, PutKeeps
<1>. QED BY <1>2, ContinueKeeps

\* The instructions that push or take values, and jumps.
LEMMA SimpleKeep ==
  ASSUME MInv, Executing, Documented(Top.ip.code),
         OpStack \/ OpLoad \/ OpConstant \/ OpGlobal \/ OpJump \/ OpElem
  PROVE  Keeps(stk')
<1>1. (\E v : Push(v) \/ NoMethod(v)) \/ RaiseHere \/ Stray \/ stk' = stk
  BY DEF OpStack, OpLoad, OpConstant, OpGlobal, OpJump, OpElem, Continue
<1>. QED BY <1>1, PushKeeps, NoMethodKeeps, RaiseHereKeeps, StrayKeeps, SameKeeps

\* LdFlt.
LEMMA OpLdFltKeeps ==
  ASSUME MInv, Executing, Documented(Top.ip.code), OpLdFlt
  PROVE  Keeps(stk')
<1>1. \/ MeetsStale(regs.sp)
      \/ \E s \in Allocated(regs.sp) : Continue([s EXCEPT ![Sp + 1] = Float(2 * Fetched.a)], Sp + 1)
  BY DEF OpLdFlt
<1>2. Sp + 1 \in Int /\ Sp + 1 >= Last(frames).argl
  BY Places
<1>. QED BY <1>1, <1>2, ContinuePutKeeps, AllocatedKeeps, MeetsStaleKeeps

\* StArg writes among the arguments.
LEMMA OpArgKeeps ==
  ASSUME MInv, Executing, Documented(Top.ip.code), OpArg
  PROVE  Keeps(stk')
<1> DEFINE p == Last(frames).argl + Fetched.a
<1>1. (\E v : Push(v)) \/ RaiseHere
     \/ (Fetched.op = "StArg" /\ Continue([stk EXCEPT ![p] = Slot(0)], Sp - 1))
  BY DEF OpArg, At
<1>2. Fetched.op = "StArg" => p \in Int /\ p >= Last(frames).argl
  BY Places, GrowthAt
<1> HIDE DEF p
<1>. QED BY <1>1, <1>2, PushKeeps, RaiseHereKeeps, ContinuePutKeeps, SameKeeps

\* StLoc writes above the frame.
LEMMA OpLocalKeeps ==
  ASSUME MInv, Executing, Documented(Top.ip.code), OpLocal
  PROVE  Keeps(stk')
<1> DEFINE p == Top.fp + Fetched.a
<1>1. (\E v : Push(v)) \/ RaiseHere
     \/ (Fetched.op = "StLoc" /\ Continue([stk EXCEPT ![p] = Slot(0)], Sp - 1))
  BY DEF OpLocal, At
<1>2. Fetched.op = "StLoc" => p \in Int /\ p >= Last(frames).argl
  BY Places, GrowthAt
<1> HIDE DEF p
<1>. QED BY <1>1, <1>2, PushKeeps, RaiseHereKeeps, ContinuePutKeeps, SameKeeps

\* An integer that an operator leaves.
LEMMA PutIntKeeps ==
  ASSUME MInv, Executing, Documented(Top.ip.code), NEW at \in Int, at >= Last(frames).argl,
         NEW v, PutInt(at, v)
  PROVE  Keeps(stk')
<1>1. \/ MeetsStale(regs.sp)
      \/ \E s \in {stk} \cup Allocated(regs.sp) : Continue([s EXCEPT ![at] = v], at)
  BY DEF PutInt
<1>2. \A s \in {stk} \cup Allocated(regs.sp) : Keeps(s)
  BY SameKeeps, AllocatedKeeps
<1>. QED BY <1>1, <1>2, ContinuePutKeeps, MeetsStaleKeeps

\* The operands make room for the result of an arithmetic operator,
LEMMA OpArithKeeps ==
  ASSUME MInv, Executing, Documented(Top.ip.code), OpArith
  PROVE  Keeps(stk')
<1>1. PICK v : Fetched.op \in ArithOps /\ (PutInt(Sp - 1, v) \/ NoMethod(v) \/ Undefine)
  BY DEF OpArith, At
<1>2. Sp - 1 \in Int /\ Sp - 1 >= Last(frames).argl
  BY <1>1, Places
<1>. QED BY <1>1, <1>2, PutIntKeeps, NoMethodKeeps, UndefineKeeps

\* of a comparison,
LEMMA OpCompareKeeps ==
  ASSUME MInv, Executing, Documented(Top.ip.code), OpCompare
  PROVE  Keeps(stk')
<1>1. PICK v : /\ Fetched.op \in CompareOps
               /\ NoMethod(v) \/ Continue([stk EXCEPT ![Sp - 1] = v], Sp - 1)
  BY DEF OpCompare, At
<1>2. Sp - 1 \in Int /\ Sp - 1 >= Last(frames).argl
  BY <1>1, Places
<1>. QED BY <1>1, <1>2, SameKeeps, NoMethodKeeps, ContinuePutKeeps

\* of a unary operator
LEMMA OpUnaryKeeps ==
  ASSUME MInv, Executing, Documented(Top.ip.code), OpUnary
  PROVE  Keeps(stk')
<1>1. PICK v : Fetched.op \in {"Neg", "Inv"} /\ (PutInt(Sp, v) \/ NoMethod(v))
  BY DEF OpUnary, At
<1>2. Sp \in Int /\ Sp >= Last(frames).argl
  BY <1>1, Places
<1>. QED BY <1>1, <1>2, PutIntKeeps, NoMethodKeeps

\* or of Not.
LEMMA OpNotKeeps ==
  ASSUME MInv, Executing, Documented(Top.ip.code), OpNot
  PROVE  Keeps(stk')
<1>1. \/ RaiseHere
      \/ Continue([stk EXCEPT ![Sp] = Bool(FALSE)], Sp)
      \/ Continue([stk EXCEPT ![Sp] = Bool(TRUE)], Sp)
  BY DEF OpNot
<1>2. Sp \in Int /\ Sp >= Last(frames).argl
  BY Places DEF OpNot, At
<1>. QED BY <1>1, <1>2, SameKeeps, RaiseHereKeeps, ContinuePutKeeps

\* LdAttrY replaces the object.
LEMMA OpAttrKeeps ==
  ASSUME MInv, Executing, Documented(Top.ip.code), OpAttr
  PROVE  Keeps(stk')
<1>1. \/ RaiseHere \/ Stray \/ NoMethod(Slot(0)) \/ stk' = stk
      \/ \E v : Fetched.op = "LdAttrY" /\ Continue([stk EXCEPT ![Sp] = v], Sp)
  BY DEF OpAttr, At
<1>2. Fetched.op = "LdAttrY" => Sp \in Int /\ Sp >= Last(frames).argl
  BY Places
<1>. QED BY <1>1, <1>2, SameKeeps, RaiseHereKeeps, StrayKeeps, NoMethodKeeps, ContinuePutKeeps

\* PrepMethY.
LEMMA OpPrepMethKeeps ==
  ASSUME MInv, Executing, Documented(Top.ip.code), OpPrepMeth
  PROVE  Keeps(stk')
<1>1. Fetched.op = "PrepMethY"
  BY DEF OpPrepMeth, At
<1>2. \/ RaiseHere \/ Stray \/ MeetsStale(Sp)
      \/ \E s \in Allocated(Sp) : stk' = [s EXCEPT ![Sp] = Exc, ![Sp + 1] = Slot(0)]
  BY DEF OpPrepMeth
<1>3. /\ Sp \in Int /\ Sp + 1 \in Int /\ Sp >= Last(frames).argl - 1
      /\ Sp + 1 >= Last(frames).argl - 1 /\ Last(frames).argl \in Int
  BY <1>1, Places
<1>4. ASSUME NEW s \in Allocated(Sp)
      PROVE  Keeps([s EXCEPT ![Sp] = Exc, ![Sp + 1] = Slot(0)])
  <2> DEFINE u == [s EXCEPT ![Sp] = Exc]
  <2>1. Keeps(u)
    BY <1>3, PutKeeps, AllocatedKeeps
  <2>2. [s EXCEPT ![Sp] = Exc, ![Sp + 1] = Slot(0)] = [u EXCEPT ![Sp + 1] = Slot(0)]
    OBVIOUS
  <2> HIDE DEF u
  <2>3. Keeps([u EXCEPT ![Sp + 1] = Slot(0)])
    BY <1>3, <2>1, PutKeeps
  <2>. QED BY <2>2, <2>3
<1>. QED BY <1>2, <1>4, RaiseHereKeeps, StrayKeeps, MeetsStaleKeeps

\* A container replaces its elements.
LEMMA OpMakeKeeps ==
  ASSUME MInv, Executing, Documented(Top.ip.code), OpMake
  PROVE  Keeps(stk')
<1> DEFINE size == IF Fetched.op = "MkMap" THEN 2 * Fetched.a ELSE Fetched.a
           data == Sp - size + 1
<1>1. Fetched.op \in {"MkArr", "MkTup", "MkSet", "MkMap"}
  BY SMTT(30) DEF OpMake, At
<1>2. \/ RaiseHere \/ Stray \/ MeetsStale(Sp)
      \/ \E v, s : s \in Allocated(Sp) /\ stk' = [s EXCEPT ![data] = v]
  BY ZenonT(60) DEF OpMake
<1>3. data \in Int /\ data >= Last(frames).argl - 1 /\ Last(frames).argl \in Int
  BY <1>1, Places, GrowthAt
<1> HIDE DEF data
<1>4. ASSUME NEW v, NEW s \in Allocated(Sp)
      PROVE  Keeps([s EXCEPT ![data] = v])
  BY <1>3, PutKeeps, AllocatedKeeps
<1>. QED BY <1>2, <1>4, RaiseHereKeeps, StrayKeeps, MeetsStaleKeeps

\* All instructions that move values.
LEMMA MovesValuesKeep ==
  ASSUME MInv, Executing, Documented(Top.ip.code), MovesValues
  PROVE  Keeps(stk')
  BY SimpleKeep, OpLdFltKeeps, OpArgKeeps, OpLocalKeeps, OpArithKeeps, OpCompareKeeps, OpUnaryKeeps,
     OpNotKeeps, OpAttrKeeps, OpPrepMethKeeps, OpMakeKeeps DEF MovesValues

\* A call writes nothing, an exception apart.
LEMMA CallKeeps ==
  ASSUME NEW argc, NEW noret, NEW ip, Call(argc, noret, ip)
  PROVE  Keeps(stk')
<1>1. stk' = stk \/ Stray \/ Undefine \/ \E sp, frs : RaiseNew(sp, frs)
  BY ZenonT(60) DEF Call
<1>. QED BY <1>1, SameKeeps, StrayKeeps, UndefineKeeps, RaiseNewKeeps

\* A returned value replaces the callee.
LEMMA LeaveKeepsCallers ==
  ASSUME MInv, Executing, NEW v, Leave(v)
  PROVE  Keeps(stk')
<1>1. Last(frames).argl \in Int
  BY AtInstruction, LastFrame DEF Frame
<1>2. Last(frames).argl - 1 \in Int /\ Last(frames).argl - 1 >= Last(frames).argl - 1
  BY <1>1
<1>3. stk' = stk \/ stk' = [stk EXCEPT ![Last(frames).argl - 1] = v]
  BY DEF Leave, GoOn, Undefine, Stray
<1>. QED BY <1>1, <1>2, <1>3, PutKeeps, SameKeeps

\* So does that of a native function, or its exception.
LEMMA NativeReturnKeeps ==
  ASSUME MInv, acts # <<>>, Top.wait = "native", NEW s, Keeps(s), NEW sp, NEW status,
         NativeReturn(s, sp, status)
  PROVE  Keeps(stk')
<1> DEFINE frame == Last(frames)
           v == IF status = 0 THEN Nil ELSE s[sp]
           down == frame.noret \/ frame.pip = NULL
           newsp == IF down THEN frame.argl - 2 ELSE frame.argl - 1
           put == IF down THEN s ELSE [s EXCEPT ![newsp] = v]
<1>1. frame.argl \in Int
  BY AtNative DEF Frame
<1>2. newsp \in Int /\ newsp + 1 \in Int /\ newsp + 1 >= frame.argl - 1
     /\ (~ down => newsp >= frame.argl - 1)
  BY <1>1
<1>3. stk' = put \/ Raise([put EXCEPT ![newsp + 1] = v], Front(frames))
  BY DEF NativeReturn
<1> HIDE DEF newsp, v, down
<1>4. Keeps(put)
  BY <1>1, <1>2, PutKeeps
<1> HIDE DEF put
<1>5. Keeps([put EXCEPT ![newsp + 1] = v])
  BY <1>1, <1>2, <1>4, PutKeeps
<1>. QED BY <1>3, <1>4, <1>5, RaiseKeeps

\* All native functions.
LEMMA NativeKeep ==
  ASSUME MInv, NativeNothing \/ NativeValue \/ NativeRaise \/ NativeApplied \/ NativeApply
  PROVE  Keeps(stk')
<1>1. acts # <<>> /\ Top.wait = "native"
  BY DEF NativeNothing, NativeValue, NativeRaise, NativeApplied, NativeApply, InNative, Running
<1>2. Last(frames).argl \in Int /\ regs.sp + 1 \in Int /\ regs.sp + 1 >= Last(frames).argl - 1
  <2>1. /\ Last(frames) = frames[Len(frames)] /\ frames[Len(frames)] \in Frame /\ regs.sp \in Int
        /\ regs.sp >= frames[Len(frames)].argl - 1
    BY <1>1, AtNative
  <2>2. frames[Len(frames)].argl \in Int
    BY <2>1 DEF Frame
  <2>. QED BY <2>1, <2>2
<1>3. \A v, s : s \in {stk} \cup Allocated(regs.sp) => Keeps([s EXCEPT ![regs.sp + 1] = v])
  BY <1>2, PutKeeps, SameKeeps, AllocatedKeeps
<1>4. \/ MeetsStale(regs.sp)
      \/ \E sp, status : NativeReturn(stk, sp, status)
      \/ \E s, v, sp, status : /\ s \in {stk} \cup Allocated(regs.sp)
                               /\ NativeReturn([s EXCEPT ![regs.sp + 1] = v], sp, status)
      \/ \E v : stk' = [stk EXCEPT ![regs.sp + 1] = v]
  BY DEF NativeNothing, NativeValue, NativeRaise, NativeApplied, NativeApply, Invoke
<1>. QED BY <1>1, <1>3, <1>4, SameKeeps, NativeReturnKeeps, MeetsStaleKeeps

\* The end of an import.
LEMMA ImportedKeeps ==
  ASSUME Imported
  PROVE  Keeps(stk')
<1>1. Raise(stk, frames) \/ stk' = stk
  BY DEF Imported
<1>. QED BY <1>1, RaiseKeeps, SameKeeps

\* Every step but that of LdMod.
LEMMA StepKeepsCallers ==
  ASSUME MInv, Step, ~ At({"LdMod"}), Top.wait = "run" => Documented(Top.ip.code)
  PROVE  Keeps(stk')
<1>1. CASE MovesValues
  <2>1. Executing /\ Documented(Top.ip.code)
    BY <1>1, ZenonT(60) DEF MovesValues, OpStack, OpLoad, OpConstant, OpLdFlt, OpArg, OpLocal, OpGlobal, OpArith,
         OpCompare, OpUnary, OpNot, OpJump, OpAttr, OpElem, OpPrepMeth, OpMake, At, Executing
  <2>. QED BY <1>1, <2>1, MovesValuesKeep, SMTT(30)
<1>2. CASE Start \/ OpCall
  BY <1>2, CallKeeps DEF Start, OpCall
<1>3. CASE OpReturn
  <2>1. PICK v : Executing /\ (Leave(v) \/ RaiseHere)
    BY <1>3 DEF OpReturn, At
  <2>. QED BY <2>1, LeaveKeepsCallers, RaiseHereKeeps
<1>4. CASE RunOff \/ Overflow
  BY <1>4, UndefineKeeps DEF RunOff, Overflow
<1>5. CASE NativeNothing \/ NativeValue \/ NativeRaise \/ NativeApply \/ NativeApplied
  BY <1>5, NativeKeep
<1>6. CASE OpLdMod
  BY <1>6 DEF OpLdMod
<1>7. CASE Imported
  BY <1>7, ImportedKeeps
<1>. QED BY <1>1, <1>2, <1>3, <1>4, <1>5, <1>6, <1>7 DEF Step, MovesValues

\* Nothing that a function, a native function or an exception does reaches below
\* the callee of the current frame: the callers find their values on the stack.
THEOREM CallersAreKept == MachineSpec => CallersKept
<1> DEFINE Kept == /\ Running /\ frames # <<>> /\ ~ At({"LdMod"})
                   /\ Top.wait = "run" => Documented(Top.ip.code)
                   => \A k \in DOMAIN stk : k < Last(frames).argl - 1 => stk'[k] \in {stk[k], Junk}
<1>1. ASSUME MInv, [MachineNext]_machineVars
      PROVE  [Kept]_machineVars
  <2>1. CASE Step
    BY <1>1, <2>1, StepKeepsCallers DEF Keeps
  <2>2. CASE HostInvoke(stk'[regs.sp + 1]) \/ Host \/ Reboot
    BY <2>2 DEF HostInvoke, Host, Reboot, Running
  <2>. QED BY <1>1, <2>1, <2>2 DEF MachineNext
<1>. QED BY <1>1, MachineInvariant, PTL DEF MachineSpec, CallersKept
=============================================================================
