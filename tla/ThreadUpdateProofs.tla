------------------------- MODULE ThreadUpdateProofs -------------------------
(***************************************************************************)
(* Proofs about ThreadUpdate, for any threads and any target whose moved   *)
(* instructions are as SingleSteps says.                                   *)
(***************************************************************************)
EXTENDS ThreadUpdate, TLAPS

\* What detour_thread_update relies on: a thread is stopped inside no jump that is
\* written, inside no moved instruction but the first, and no moved instruction is a
\* call, whose return address would not be updated.  Jumps of x86 and x64 are one
\* instruction, as are most moved ones; UpdateARM64.cfg shows a jump of three.
SingleSteps ==
  /\ JumpParts = 1
  /\ TailParts = 1
  /\ \A i \in 2..Moved : Parts[i] = 1
  /\ \A n \in Calls : n >= Moved

Places ==
  [in : {"caller", "target", "rbCodeIn", "detour", "rbCode", "callee"}, n : Nat, part : Nat]

TypeOK ==
  /\ attached \in BOOLEAN
  /\ pc \in [Threads -> Places]
  /\ ret \in [Threads -> Places \cup {Null}]
  /\ done \in [Threads -> Nat]
  /\ part \in [Threads -> Nat]

\* In the target a thread is where the jump is not, or at its start.
InTarget(p, d) ==
  p.in = "target" =>
    /\ p.n < Length /\ p.part = 0 /\ p.n = d
    /\ attached => p.n = 0 \/ p.n >= Moved

\* In rbCode, which is in use, it is at an instruction, or inside the first one.
InCode(p, d, k) ==
  p.in = "rbCode" =>
    /\ attached
    /\ p.n <= Moved /\ p.n = d
    /\ p.part = 0 \/ (p.n = 0 /\ p.part = k)

\* Before the detour, nothing of the target is done.
InCodeIn(p, d) == p.in = "rbCodeIn" => attached /\ d = 0

\* A call returns to what follows it, which is after all that is moved.
InCallee(p, r, d) ==
  p.in = "callee" =>
    \/ r = Outside("caller")
    \/ r = Target(d) /\ Moved <= d /\ d < Length

\* Whatever a thread does next, it goes on as if there were one copy of the target.
Right(p, r, d, k) == InTarget(p, d) /\ InCode(p, d, k) /\ InCodeIn(p, d) /\ InCallee(p, r, d)

IInv == TypeOK /\ \A t \in Threads : Right(pc[t], ret[t], done[t], part[t])

-----------------------------------------------------------------------------
LEMMA Numbers ==
  /\ Moved \in Nat \ {0} /\ AlignSize \in Nat /\ Length \in Nat
  /\ Moved <= AlignSize /\ Moved < Length
  /\ Parts \in [1..Moved -> Nat \ {0}]
  BY UpdateAssumption DEF Moved

LEMMA MinIsLeast ==
  ASSUME NEW S \in SUBSET Int, NEW m \in S, \A k \in S : m <= k
  PROVE  Min(S) = m
<1>1. \A x \in S : (\A y \in S : x <= y) => x = m
  <2>1. ASSUME NEW x \in S, \A y \in S : x <= y PROVE x = m
    <3>1. x <= m /\ m <= x /\ x \in Int /\ m \in Int
      BY <2>1
    <3> QED BY <3>1
  <2> QED BY <2>1
<1>2. Min(S) \in S /\ \A y \in S : Min(S) <= y
  BY DEF Min
<1> QED BY <1>1, <1>2

-----------------------------------------------------------------------------
(* The table: entry i is of the place after i instructions, the others are *)
(* of no use.                                                              *)

LEMMA Table ==
  /\ DOMAIN rAlign = 1..AlignSize
  /\ \A i \in 1..Moved : /\ i \in 1..AlignSize
                          /\ rAlign[i].obTarget = i /\ rAlign[i].obTrampoline = Code(i, 0)
  /\ \A i \in 1..AlignSize \ 1..Moved :
       rAlign[i].obTarget = 0 /\ rAlign[i].obTrampoline = Code(0, 0)
  BY Numbers DEF rAlign

LEMMA CodeDiffers ==
  ASSUME NEW n, NEW k, NEW i, NEW j, Code(n, k) = Code(i, j)
  PROVE  n = i /\ k = j
<1>1. Code(n, k).n = Code(i, j).n /\ Code(n, k).part = Code(i, j).part
  OBVIOUS
<1> QED BY <1>1 DEF Code

\* A thread at a moved instruction goes on at its copy.
LEMMA FromTarget ==
  ASSUME NEW n \in 0..Moved - 1
  PROVE  AlignFromTarget(n) = Code(n, 0)
<1> DEFINE found == {i \in DOMAIN rAlign : rAlign[i].obTarget = n}
<1>1. CASE n = 0
  <2>1. found = 1..AlignSize \ 1..Moved
    <3>1. \A i \in 1..Moved : i \notin found
      BY <1>1, Table
    <3>2. \A i \in 1..AlignSize \ 1..Moved : i \in found
      BY <1>1, Table
    <3> QED BY <3>1, <3>2, Table
  <2>2. CASE Moved + 1 <= AlignSize
    <3>1. Min(found) = Moved + 1
      <4>1. found \in SUBSET Int /\ Moved + 1 \in found /\ \A k \in found : Moved + 1 <= k
        BY <2>1, <2>2, Numbers
      <4> HIDE DEF found
      <4> QED BY <4>1, MinIsLeast
    <3>2. rAlign[Moved + 1].obTrampoline = Code(0, 0) /\ found # {}
      BY <2>1, <2>2, Table, Numbers
    <3> QED BY <1>1, <3>1, <3>2 DEF AlignFromTarget
  <2>3. CASE ~(Moved + 1 <= AlignSize)
    <3>1. found = {}
      BY <2>1, <2>3, Numbers
    <3> QED BY <1>1, <3>1 DEF AlignFromTarget
  <2> QED BY <2>2, <2>3
<1>2. CASE n # 0
  <2>1. found = {n}
    <3>1. \A i \in 1..Moved : i \in found <=> i = n
      BY Table
    <3>2. \A i \in 1..AlignSize \ 1..Moved : i \notin found
      BY <1>2, Table
    <3>3. n \in 1..Moved
      BY <1>2, Numbers
    <3> QED BY <3>1, <3>2, <3>3, Table
  <2>2. Min(found) = n
    <3>1. Min({n}) = n
      BY MinIsLeast
    <3> QED BY <2>1, <3>1
  <2>3. rAlign[n].obTrampoline = Code(n, 0)
    BY <1>2, Table, Numbers
  <2> QED BY <2>1, <2>2, <2>3 DEF AlignFromTarget
<1> QED BY <1>1, <1>2

\* A thread between the copies of two instructions goes on between the two.
LEMMA FromTrampoline ==
  ASSUME NEW n \in 0..Moved
  PROVE  AlignFromTrampoline(Code(n, 0)) = n
<1> DEFINE found == {i \in DOMAIN rAlign : rAlign[i].obTrampoline = Code(n, 0)}
<1>1. \A i \in 1..Moved : i \in found <=> i = n
  BY Table, CodeDiffers
<1>2. CASE n = 0
  <2>1. found = 1..AlignSize \ 1..Moved
    <3>1. \A i \in 1..Moved : i \notin found
      BY <1>1, <1>2
    <3>2. \A i \in 1..AlignSize \ 1..Moved : i \in found
      BY <1>2, Table
    <3> QED BY <3>1, <3>2, Table
  <2>2. CASE Moved + 1 <= AlignSize
    <3>1. Min(found) = Moved + 1
      <4>1. found \in SUBSET Int /\ Moved + 1 \in found /\ \A k \in found : Moved + 1 <= k
        BY <2>1, <2>2, Numbers
      <4> HIDE DEF found
      <4> QED BY <4>1, MinIsLeast
    <3>2. rAlign[Moved + 1].obTarget = 0 /\ found # {}
      BY <2>1, <2>2, Table, Numbers
    <3> QED BY <1>2, <3>1, <3>2 DEF AlignFromTrampoline
  <2>3. CASE ~(Moved + 1 <= AlignSize)
    <3>1. found = {}
      BY <2>1, <2>3, Numbers
    <3> QED BY <1>2, <3>1 DEF AlignFromTrampoline
  <2> QED BY <2>2, <2>3
<1>3. CASE n # 0
  <2>1. found = {n}
    <3>1. \A i \in 1..AlignSize \ 1..Moved : i \notin found
      BY <1>3, Table, CodeDiffers
    <3>2. n \in 1..Moved
      BY <1>3, Numbers
    <3> QED BY <1>1, <3>1, <3>2, Table
  <2>2. Min(found) = n
    <3>1. Min({n}) = n
      BY MinIsLeast
    <3> QED BY <2>1, <3>1
  <2>3. rAlign[n].obTarget = n
    BY <1>3, Table, Numbers
  <2> QED BY <2>1, <2>2, <2>3 DEF AlignFromTrampoline
<1> QED BY <1>2, <1>3

\* A thread inside the copy of an instruction is in no entry.
LEMMA FromInside ==
  ASSUME NEW n, NEW k, k # 0
  PROVE  AlignFromTrampoline(Code(n, k)) = 0
<1>1. \A i \in DOMAIN rAlign : rAlign[i].obTrampoline # Code(n, k)
  <2>1. \A i \in 1..AlignSize : \E j \in 0..AlignSize : rAlign[i].obTrampoline = Code(j, 0)
    BY Table, Numbers
  <2> QED BY <2>1, Table, CodeDiffers
<1> QED BY <1>1 DEF AlignFromTrampoline

-----------------------------------------------------------------------------
(* The steps of threads.                                                   *)

LEMMA PlaceFacts ==
  /\ \A n \in Nat : Target(n) \in Places /\ Target(n).in = "target"
                    /\ Target(n).n = n /\ Target(n).part = 0
  /\ \A n, k \in Nat : Code(n, k) \in Places /\ Code(n, k).in = "rbCode"
                       /\ Code(n, k).n = n /\ Code(n, k).part = k
  /\ \A where \in {"caller", "rbCodeIn", "detour", "callee"} :
       Outside(where) \in Places /\ Outside(where).in = where
  BY DEF Target, Code, Outside, Places

LEMMA Own ==
  ASSUME IInv, NEW t \in Threads
  PROVE  /\ attached \in BOOLEAN
         /\ pc[t] \in Places /\ pc[t].n \in Nat /\ pc[t].part \in Nat
         /\ ret[t] \in Places \cup {Null} /\ done[t] \in Nat /\ part[t] \in Nat
         /\ Right(pc[t], ret[t], done[t], part[t])
         /\ ret = [ret EXCEPT ![t] = ret[t]]
         /\ done = [done EXCEPT ![t] = done[t]]
         /\ part = [part EXCEPT ![t] = part[t]]
  BY DEF IInv, TypeOK, Places

\* When one thread goes on, the others stay as they are.
LEMMA OneGoesOn ==
  ASSUME IInv, attached' = attached, NEW t \in Threads,
         NEW p \in Places, NEW r \in Places \cup {Null}, NEW d \in Nat, NEW k \in Nat,
         pc' = [pc EXCEPT ![t] = p], ret' = [ret EXCEPT ![t] = r],
         done' = [done EXCEPT ![t] = d], part' = [part EXCEPT ![t] = k],
         Right(p, r, d, k)
  PROVE  IInv'
<1>1. TypeOK'
  BY DEF IInv, TypeOK
<1>2. ASSUME NEW u \in Threads PROVE Right(pc[u], ret[u], done[u], part[u])'
  <2>1. CASE u = t
    <3>1. pc'[u] = p /\ ret'[u] = r /\ done'[u] = d /\ part'[u] = k
      BY <2>1 DEF IInv, TypeOK
    <3> QED BY <3>1 DEF Right, InTarget, InCode, InCodeIn, InCallee
  <2>2. CASE u # t
    <3>1. pc'[u] = pc[u] /\ ret'[u] = ret[u] /\ done'[u] = done[u] /\ part'[u] = part[u]
      BY <2>2 DEF IInv, TypeOK
    <3>2. Right(pc[u], ret[u], done[u], part[u])
      BY DEF IInv
    <3> QED BY <3>1, <3>2 DEF Right, InTarget, InCode, InCodeIn, InCallee
  <2> QED BY <2>1, <2>2
<1> QED BY <1>1, <1>2 DEF IInv

LEMMA CallStep ==
  ASSUME IInv, NEW t \in Threads, Call(t)
  PROVE  IInv'
<1>1. Right(Target(0), ret[t], 0, 0)
  BY PlaceFacts, Numbers DEF Right, InTarget, InCode, InCodeIn, InCallee
<1>2. /\ pc' = [pc EXCEPT ![t] = Target(0)] /\ attached' = attached
      /\ ret' = [ret EXCEPT ![t] = ret[t]]
      /\ done' = [done EXCEPT ![t] = 0] /\ part' = [part EXCEPT ![t] = 0]
  BY Own DEF Call, Goto, Did
<1> QED BY <1>1, <1>2, Own, PlaceFacts, OneGoesOn

\* An instruction that is not moved, or not now.
LEMMA TargetStep ==
  ASSUME SingleSteps, IInv, NEW t \in Threads, StepTarget(t)
  PROVE  IInv'
<1> DEFINE n == pc[t].n
           m == done[t] + 1
           follows == IF m = Length THEN Outside("caller") ELSE Target(m)
<1>1. /\ n \in Nat /\ n < Length /\ done[t] = n
      /\ attached => n >= Moved
      /\ pc[t].in = "target"
  <2>1. pc[t].in = "target" /\ ~(attached /\ n < Moved)
    BY DEF StepTarget, Patched
  <2> QED BY <2>1, Own, Numbers DEF Right, InTarget
<1>2. /\ attached' = attached
      /\ done' = [done EXCEPT ![t] = m] /\ part' = [part EXCEPT ![t] = 0]
  BY DEF StepTarget, Finish, Did
<1>3. m \in Nat /\ m = n + 1 /\ m <= Length
  BY <1>1, Numbers
<1>4. follows = IF n + 1 = Length THEN Outside("caller") ELSE Target(n + 1)
  BY <1>1
<1>5. follows \in Places
  BY <1>3, PlaceFacts
<1>6. CASE n \in Calls
  <2>1. pc' = [pc EXCEPT ![t] = Outside("callee")] /\ ret' = [ret EXCEPT ![t] = follows]
    BY <1>4, <1>6 DEF StepTarget, Finish, Goto
  <2>2. n >= Moved
    BY <1>6 DEF SingleSteps
  <2>3. InCallee(Outside("callee"), follows, m)
    <3>1. Moved <= m /\ (m # Length => m < Length)
      BY <1>1, <1>3, <2>2, Numbers
    <3>2. follows = Outside("caller") \/ (follows = Target(m) /\ m # Length)
      OBVIOUS
    <3> HIDE DEF follows, m
    <3> QED BY <3>1, <3>2 DEF InCallee
  <2> HIDE DEF follows, m
  <2>4. Right(Outside("callee"), follows, m, 0)
    BY <2>3, PlaceFacts DEF Right, InTarget, InCode, InCodeIn
  <2> QED BY <1>2, <1>3, <1>5, <2>1, <2>4, PlaceFacts, OneGoesOn
<1>7. CASE n \notin Calls
  <2>1. pc' = [pc EXCEPT ![t] = follows] /\ ret' = [ret EXCEPT ![t] = ret[t]]
    BY <1>4, <1>7, Own DEF StepTarget, Finish, Goto
  <2>2. CASE m = Length
    <3>1. follows.in = "caller"
      BY <2>2, PlaceFacts
    <3> HIDE DEF follows, m
    <3>2. Right(follows, ret[t], m, 0)
      BY <3>1 DEF Right, InTarget, InCode, InCodeIn, InCallee
    <3> QED BY <1>2, <1>3, <1>5, <2>1, <3>2, Own, OneGoesOn
  <2>3. CASE m # Length
    <3>1. follows.in = "target" /\ follows.n = m /\ follows.part = 0
      BY <1>3, <2>3, PlaceFacts
    <3>2. m < Length /\ (attached => m >= Moved)
      BY <1>1, <1>3, <2>3, Numbers
    <3> HIDE DEF follows, m
    <3>3. Right(follows, ret[t], m, 0)
      BY <3>1, <3>2 DEF Right, InTarget, InCode, InCodeIn, InCallee
    <3> QED BY <1>2, <1>3, <1>5, <2>1, <3>3, Own, OneGoesOn
  <2> QED BY <2>2, <2>3
<1> QED BY <1>6, <1>7

\* The jump is one instruction.
LEMMA JumpStep ==
  ASSUME SingleSteps, IInv, NEW t \in Threads, StepJump(t)
  PROVE  IInv'
<1> DEFINE to == Outside(IF CodeIn THEN "rbCodeIn" ELSE "detour")
<1>1. attached
  BY DEF StepJump, Patched
<1>2. ~(pc[t].n + 1 < JumpParts)
  BY Own DEF SingleSteps
<1>3. /\ pc' = [pc EXCEPT ![t] = to] /\ attached' = attached
      /\ ret' = [ret EXCEPT ![t] = ret[t]]
      /\ done' = [done EXCEPT ![t] = 0] /\ part' = [part EXCEPT ![t] = 0]
  BY <1>2, Own DEF StepJump, Goto, Did
<1>4. to \in Places /\ to.in \in {"rbCodeIn", "detour"}
  BY PlaceFacts
<1>5. Right(to, ret[t], 0, 0)
  BY <1>1, <1>4 DEF Right, InTarget, InCode, InCodeIn, InCallee
<1> HIDE DEF to
<1> QED BY <1>3, <1>4, <1>5, Own, OneGoesOn

LEMMA CodeInStep ==
  ASSUME IInv, NEW t \in Threads, StepCodeIn(t)
  PROVE  IInv'
<1>1. Right(Outside("detour"), ret[t], done[t], part[t])
  BY PlaceFacts DEF Right, InTarget, InCode, InCodeIn, InCallee
<1>2. /\ pc' = [pc EXCEPT ![t] = Outside("detour")] /\ attached' = attached
      /\ ret' = [ret EXCEPT ![t] = ret[t]]
      /\ done' = [done EXCEPT ![t] = done[t]] /\ part' = [part EXCEPT ![t] = part[t]]
  BY Own DEF StepCodeIn, Goto
<1> QED BY <1>1, <1>2, Own, PlaceFacts, OneGoesOn

LEMMA DetourStep ==
  ASSUME IInv, NEW t \in Threads, StepDetour(t)
  PROVE  IInv'
<1>1. PICK p \in {Code(0, 0), Target(0), Outside("caller")} :
        /\ pc' = [pc EXCEPT ![t] = p]
        /\ p.in = "rbCode" => attached
  <2>1. \/ pc' = [pc EXCEPT ![t] = IF attached THEN Code(0, 0) ELSE Target(0)]
        \/ pc' = [pc EXCEPT ![t] = Outside("caller")]
    BY DEF StepDetour, Goto
  <2> QED BY <2>1, PlaceFacts
<1>2. /\ attached' = attached /\ ret' = [ret EXCEPT ![t] = ret[t]]
      /\ done' = [done EXCEPT ![t] = 0] /\ part' = [part EXCEPT ![t] = 0]
  BY Own DEF StepDetour, Did
<1>3. p \in Places
  BY PlaceFacts
<1>4. Right(p, ret[t], 0, 0)
  BY <1>1, PlaceFacts, Numbers DEF Right, InTarget, InCode, InCodeIn, InCallee
<1> QED BY <1>1, <1>2, <1>3, <1>4, Own, OneGoesOn

\* A moved instruction is no call; only the first one is more than one step.
LEMMA MovedStep ==
  ASSUME SingleSteps, IInv, NEW t \in Threads, StepMoved(t)
  PROVE  IInv'
<1> DEFINE n == pc[t].n
           k == pc[t].part + 1
<1>1. /\ n \in Nat /\ n < Moved /\ done[t] = n /\ attached /\ k \in Nat
      /\ pc[t].part = 0 \/ n = 0
  BY Own DEF StepMoved, Right, InCode
<1>2. attached' = attached
  BY DEF StepMoved
<1>3. CASE k < Parts[n + 1]
  <2>1. n = 0
    <3>1. CASE n + 1 \in 2..Moved
      <4>1. Parts[n + 1] = 1
        BY <3>1 DEF SingleSteps
      <4> QED BY <1>1, <1>3, <4>1, Own
    <3>2. CASE n + 1 \notin 2..Moved
      BY <1>1, <3>2, Numbers
    <3> QED BY <3>1, <3>2
  <2>2. /\ pc' = [pc EXCEPT ![t] = Code(n, k)] /\ ret' = [ret EXCEPT ![t] = ret[t]]
        /\ done' = [done EXCEPT ![t] = done[t]] /\ part' = [part EXCEPT ![t] = k]
    BY <1>3, Own DEF StepMoved, Goto, Did
  <2>3. Right(Code(n, k), ret[t], done[t], k)
    BY <1>1, <2>1, PlaceFacts, Numbers DEF Right, InTarget, InCode, InCodeIn, InCallee
  <2>4. Code(n, k) \in Places
    BY <1>1, PlaceFacts
  <2> QED BY <1>1, <1>2, <2>2, <2>3, <2>4, Own, OneGoesOn
<1>4. CASE ~(k < Parts[n + 1])
  <2> DEFINE m == done[t] + 1
  <2>1. n \notin Calls
    BY <1>1, Numbers DEF SingleSteps
  <2>2. m \in Nat /\ m = n + 1 /\ m <= Moved
    BY <1>1, Numbers
  <2>3. /\ pc' = [pc EXCEPT ![t] = Code(n + 1, 0)] /\ ret' = ret
        /\ done' = [done EXCEPT ![t] = m] /\ part' = [part EXCEPT ![t] = 0]
    BY <1>4, <2>1 DEF StepMoved, Finish, Goto, Did
  <2>4. pc' = [pc EXCEPT ![t] = Code(m, 0)] /\ ret' = [ret EXCEPT ![t] = ret[t]]
    BY <2>2, <2>3, Own
  <2> HIDE DEF m
  <2>5. Right(Code(m, 0), ret[t], m, 0)
    BY <1>1, <2>2, PlaceFacts DEF Right, InTarget, InCode, InCodeIn, InCallee
  <2>6. Code(m, 0) \in Places
    BY <2>2, PlaceFacts
  <2> QED BY <1>2, <2>2, <2>3, <2>4, <2>5, <2>6, Own, OneGoesOn
<1> QED BY <1>3, <1>4

LEMMA TailStep ==
  ASSUME SingleSteps, IInv, NEW t \in Threads, StepTail(t)
  PROVE  IInv'
<1>1. /\ done[t] = Moved /\ Moved \in Nat
      /\ ~(pc[t].part + 1 < TailParts)
  BY Own, Numbers DEF StepTail, Right, InCode, SingleSteps
<1>2. /\ pc' = [pc EXCEPT ![t] = Target(Moved)] /\ attached' = attached
      /\ ret' = [ret EXCEPT ![t] = ret[t]]
      /\ done' = [done EXCEPT ![t] = Moved] /\ part' = [part EXCEPT ![t] = 0]
  BY <1>1, Own DEF StepTail, Goto, Did
<1>3. Right(Target(Moved), ret[t], Moved, 0)
  BY <1>1, PlaceFacts, Numbers DEF Right, InTarget, InCode, InCodeIn, InCallee
<1> QED BY <1>1, <1>2, <1>3, Own, PlaceFacts, OneGoesOn

LEMMA ReturnStep ==
  ASSUME IInv, NEW t \in Threads, Return(t)
  PROVE  IInv'
<1> DEFINE r == ret[t]
<1>1. r = Outside("caller") \/ (r = Target(done[t]) /\ Moved <= done[t] /\ done[t] < Length)
  BY Own DEF Return, Right, InCallee
<1>2. /\ pc' = [pc EXCEPT ![t] = r] /\ attached' = attached
      /\ ret' = [ret EXCEPT ![t] = Null]
      /\ done' = [done EXCEPT ![t] = done[t]] /\ part' = [part EXCEPT ![t] = part[t]]
  BY Own DEF Return, Goto
<1>3. r \in Places
  BY <1>1, Own, PlaceFacts
<1>4. Right(r, Null, done[t], part[t])
  BY <1>1, Own, PlaceFacts, Numbers DEF Right, InTarget, InCode, InCodeIn, InCallee
<1> HIDE DEF r
<1> QED BY <1>2, <1>3, <1>4, Own, OneGoesOn

-----------------------------------------------------------------------------
(* What a commit does to threads.                                          *)

LEMMA AttachStep ==
  ASSUME IInv, CommitAttach
  PROVE  IInv'
<1> SUFFICES ASSUME NEW t \in Threads
             PROVE  /\ UpdatedForAdd(pc[t]) \in Places
                    /\ Right(pc[t], ret[t], done[t], part[t])'
  <2>1. \A t \in Threads : pc'[t] = UpdatedForAdd(pc[t])
    BY DEF CommitAttach
  <2>2. \A t \in Threads : UpdatedForAdd(pc[t]) \in Places
    OBVIOUS
  <2>3. TypeOK'
    BY <2>2 DEF CommitAttach, IInv, TypeOK
  <2> QED BY <2>3 DEF IInv
<1> DEFINE p == pc[t]
<1>1. /\ ~attached /\ attached' /\ pc'[t] = UpdatedForAdd(p)
      /\ ret' = ret /\ done' = done /\ part' = part
  BY DEF CommitAttach
<1>2. CASE p.in = "target" /\ p.n < Moved
  <2>1. p.n \in 0..Moved - 1 /\ p.n \in Nat /\ p.n = done[t]
    BY <1>2, Own, Numbers DEF Right, InTarget
  <2>2. UpdatedForAdd(p) = Code(p.n, 0)
    BY <1>2, <2>1, FromTarget DEF UpdatedForAdd
  <2>3. /\ Code(p.n, 0) \in Places /\ Code(p.n, 0).in = "rbCode"
        /\ Code(p.n, 0).n = p.n /\ Code(p.n, 0).part = 0
    BY <2>1, PlaceFacts
  <2>4. pc'[t] \in Places /\ pc'[t].in = "rbCode" /\ pc'[t].n = p.n /\ pc'[t].part = 0
    BY <1>1, <2>2, <2>3
  <2> QED BY <1>1, <1>2, <2>1, <2>2, <2>3, <2>4, Numbers
          DEF Right, InTarget, InCode, InCodeIn, InCallee
<1>3. CASE ~(p.in = "target" /\ p.n < Moved)
  <2>1. UpdatedForAdd(p) = p
    BY <1>3 DEF UpdatedForAdd
  <2>2. pc'[t] = pc[t] /\ pc[t] \in Places /\ pc[t].n \in Nat
    BY <1>1, <2>1, Own
  <2>3. Right(pc[t], ret[t], done[t], part[t])
    BY Own
  <2> QED BY <1>1, <1>3, <2>1, <2>2, <2>3, Numbers DEF Right, InTarget, InCode, InCodeIn, InCallee
<1> QED BY <1>2, <1>3

LEMMA DetachStep ==
  ASSUME IInv, CommitDetach
  PROVE  IInv'
<1> SUFFICES ASSUME NEW t \in Threads
             PROVE  /\ UpdatedForRemove(pc[t]) \in Places
                    /\ Right(pc[t], ret[t], done[t], part[t])'
  <2>1. \A t \in Threads : pc'[t] = UpdatedForRemove(pc[t])
    BY DEF CommitDetach
  <2>2. \A t \in Threads : UpdatedForRemove(pc[t]) \in Places
    OBVIOUS
  <2>3. TypeOK'
    BY <2>2 DEF CommitDetach, IInv, TypeOK
  <2> QED BY <2>3 DEF IInv
<1> DEFINE p == pc[t]
<1>1. /\ attached' = FALSE /\ pc'[t] = UpdatedForRemove(p)
      /\ ret' = ret /\ done' = done /\ part' = part
  BY DEF CommitDetach
<1>2. p = [in |-> p.in, n |-> p.n, part |-> p.part]
  BY Own DEF Places
<1>3. CASE p.in = "rbCode"
  <2>1. p = Code(p.n, p.part) /\ p.n \in 0..Moved /\ p.n = done[t] /\ (p.part = 0 \/ p.n = 0)
    BY <1>2, <1>3, Own, Numbers DEF Right, InCode, Code
  <2>2. AlignFromTrampoline(p) = p.n
    <3>1. CASE p.part = 0
      <4>1. p = Code(p.n, 0)
        BY <2>1, <3>1
      <4> QED BY <2>1, <4>1, FromTrampoline
    <3>2. CASE p.part # 0
      BY <2>1, <3>2, FromInside
    <3> QED BY <3>1, <3>2
  <2>3. UpdatedForRemove(p) = Target(p.n)
    BY <1>3, <2>2 DEF UpdatedForRemove
  <2>4. /\ Target(p.n) \in Places /\ Target(p.n).in = "target"
        /\ Target(p.n).n = p.n /\ Target(p.n).part = 0
    BY <2>1, Own, PlaceFacts
  <2>5. pc'[t].in = "target" /\ pc'[t].n = done[t] /\ pc'[t].part = 0 /\ done[t] < Length
    BY <1>1, <2>1, <2>3, <2>4, Numbers
  <2> QED BY <1>1, <2>3, <2>4, <2>5 DEF Right, InTarget, InCode, InCodeIn, InCallee
<1>4. CASE p.in = "rbCodeIn"
  <2>1. UpdatedForRemove(p) = Target(0) /\ done[t] = 0
    BY <1>4, Own DEF UpdatedForRemove, Right, InCodeIn
  <2>2. Target(0) \in Places /\ Target(0).in = "target" /\ Target(0).n = 0 /\ Target(0).part = 0
    BY PlaceFacts
  <2>3. pc'[t].in = "target" /\ pc'[t].n = done[t] /\ pc'[t].part = 0 /\ done[t] < Length
    BY <1>1, <2>1, <2>2, Numbers
  <2> QED BY <1>1, <2>1, <2>2, <2>3 DEF Right, InTarget, InCode, InCodeIn, InCallee
<1>5. CASE p.in \notin {"rbCode", "rbCodeIn"}
  <2>1. UpdatedForRemove(p) = p
    BY <1>5 DEF UpdatedForRemove
  <2>2. pc'[t] = pc[t] /\ pc[t] \in Places
    BY <1>1, <2>1, Own
  <2>3. Right(pc[t], ret[t], done[t], part[t])
    BY Own
  <2> QED BY <1>1, <1>5, <2>1, <2>2, <2>3 DEF Right, InTarget, InCode, InCodeIn, InCallee
<1> QED BY <1>3, <1>4, <1>5

-----------------------------------------------------------------------------
(* The theorems.                                                           *)

LEMMA Initially ==
  ASSUME Init
  PROVE  IInv
  BY PlaceFacts DEF Init, IInv, TypeOK, Right, InTarget, InCode, InCodeIn, InCallee

LEMMA Inductive ==
  ASSUME SingleSteps, IInv, [Next]_vars
  PROVE  IInv'
<1>1. ASSUME NEW t \in Threads, Step(t) PROVE IInv'
  BY <1>1, CallStep, TargetStep, JumpStep, CodeInStep, DetourStep, MovedStep, TailStep,
     ReturnStep DEF Step
<1>2. CASE UNCHANGED vars
  BY <1>2 DEF vars, IInv, TypeOK, Right, InTarget, InCode, InCodeIn, InCallee
<1> QED BY <1>1, <1>2, AttachStep, DetachStep DEF Next

\* Wherever commits find threads, they go on as if there were one copy of the target:
\* in it where the jump is not, or in rbCode as long as it is in use.
THEOREM ThreadsGoOnRight ==
  ASSUME SingleSteps
  PROVE  Spec => []IInv
<1>1. Init => IInv
  BY Initially
<1>2. SingleSteps /\ IInv /\ [Next]_vars => IInv'
  BY Inductive
<1> QED BY <1>1, <1>2, PTL DEF Spec

\* No thread executes a mixture of old and new instructions, or code of a trampoline
\* that was freed, for any target whose jumps and moved instructions are single steps.
THEOREM NoThreadMixes ==
  ASSUME SingleSteps
  PROVE  Spec => []NoMixture
<1>1. IInv => NoMixture
  <2> SUFFICES ASSUME IInv, NEW t \in Threads
               PROVE  /\ pc[t].in \in {"target", "rbCode"} =>
                           /\ Behind(pc[t])[1] = done[t]
                           /\ Behind(pc[t])[2] \in {0, part[t]}
                      /\ pc[t].in \in {"rbCode", "rbCodeIn"} => attached
    BY DEF NoMixture
  <2>1. CASE Patched(pc[t])
    <3>1. pc[t].in = "target" /\ pc[t].n = 0 /\ done[t] = 0
      BY <2>1, Own, Numbers DEF Patched, Right, InTarget
    <3> QED BY <2>1, <3>1 DEF Behind
  <2>2. CASE ~Patched(pc[t])
    <3>1. Behind(pc[t])[1] = pc[t].n /\ Behind(pc[t])[2] = pc[t].part
      BY <2>2 DEF Behind
    <3> QED BY <3>1, Own DEF Right, InTarget, InCode, InCodeIn
  <2> QED BY <2>1, <2>2
<1> QED BY <1>1, ThreadsGoOnRight, PTL

-----------------------------------------------------------------------------
(* What holds of ARM64 code too, whose jumps are several instructions.     *)

\* No thread runs in a trampoline that is not in use, and none will return to one; pc and
\* ret are of threads only.
NotStranded ==
  /\ pc = [t \in Threads |-> pc[t]]
  /\ ret = [t \in Threads |-> ret[t]]
  /\ \A t \in Threads :
       /\ pc[t].in \in {"rbCode", "rbCodeIn"} => attached
       /\ pc[t].in = "callee" => ret[t].in \in {"caller", "target"}

LEMMA OneStays ==
  ASSUME NotStranded, attached' = attached, NEW t \in Threads,
         NEW p, NEW r, pc' = [pc EXCEPT ![t] = p], ret' = [ret EXCEPT ![t] = r],
         p.in \in {"rbCode", "rbCodeIn"} => attached,
         p.in = "callee" => r.in \in {"caller", "target"}
  PROVE  NotStranded'
  BY DEF NotStranded

\* What a thread at a moved instruction goes on at is in rbCode, whatever its place.
LEMMA FromAnyTarget ==
  ASSUME NEW n, n < Moved
  PROVE  AlignFromTarget(n).in = "rbCode"
<1> DEFINE found == {i \in DOMAIN rAlign : rAlign[i].obTarget = n}
<1>1. CASE found = {}
  BY <1>1 DEF AlignFromTarget, Code
<1>2. CASE found # {}
  <2>1. n \in Nat
    <3>1. \A i \in DOMAIN rAlign : rAlign[i].obTarget \in Nat
      <4>1. \A i \in 1..Moved : i \in Nat
        OBVIOUS
      <4> QED BY <4>1, Table
    <3> QED BY <1>2, <3>1
  <2>2. n \in 0..Moved - 1
    BY <2>1, Numbers
  <2> QED BY <2>2, FromTarget DEF Code
<1> QED BY <1>1, <1>2

\* A step that is no return leads to rbCode only where it is in use.
LEMMA StepStays ==
  ASSUME \A n \in Calls : n >= Moved, NotStranded, NEW t \in Threads, Step(t)
  PROVE  NotStranded'
<1>1. attached' = attached /\ ret = [ret EXCEPT ![t] = ret[t]]
  BY DEF NotStranded, Step, Call, StepTarget, StepJump, StepCodeIn, StepDetour, StepMoved,
         StepTail, Return
<1>2. \A n : /\ Target(n).in = "target"
             /\ \A k : Code(n, k).in = "rbCode"
             /\ Outside(n).in = n
  BY DEF Target, Code, Outside
<1>3. CASE StepTarget(t)
  <2> DEFINE n == pc[t].n
             follows == IF n + 1 = Length THEN Outside("caller") ELSE Target(n + 1)
  <2>1. follows.in \in {"caller", "target"}
    BY <1>2
  <2>2. \/ pc' = [pc EXCEPT ![t] = Outside("callee")] /\ ret' = [ret EXCEPT ![t] = follows]
        \/ pc' = [pc EXCEPT ![t] = follows] /\ ret' = [ret EXCEPT ![t] = ret[t]]
    BY <1>1, <1>3 DEF StepTarget, Finish, Goto
  <2> HIDE DEF follows
  <2> QED BY <1>1, <1>2, <2>1, <2>2, OneStays
<1>4. CASE StepMoved(t)
  <2> DEFINE n == pc[t].n
  <2>1. n \notin Calls /\ attached
    <3>1. \A i \in Calls : ~(i < Moved)
      <4>1. Calls \subseteq Nat
        BY UpdateAssumption
      <4> QED BY <4>1, Numbers
    <3> QED BY <1>4, <3>1 DEF StepMoved
  <2>2. /\ pc' \in {[pc EXCEPT ![t] = Code(n, pc[t].part + 1)], [pc EXCEPT ![t] = Code(n + 1, 0)]}
        /\ ret' = [ret EXCEPT ![t] = ret[t]]
    BY <1>1, <1>4, <2>1 DEF StepMoved, Finish, Goto
  <2> QED BY <1>1, <1>2, <2>1, <2>2, OneStays
<1>5. CASE Return(t)
  <2>1. pc[t].in = "callee" /\ pc' = [pc EXCEPT ![t] = ret[t]] /\ ret' = [ret EXCEPT ![t] = Null]
    BY <1>5 DEF Return, Goto
  <2>2. ret[t].in \in {"caller", "target"}
    BY <2>1 DEF NotStranded
  <2> QED BY <1>1, <2>1, <2>2, OneStays
<1>6. CASE \/ Call(t) \/ StepJump(t) \/ StepCodeIn(t) \/ StepDetour(t) \/ StepTail(t)
  <2>1. PICK p : /\ pc' = [pc EXCEPT ![t] = p]
                 /\ p.in \in {"rbCode", "rbCodeIn"} => attached
                 /\ p.in # "callee"
    BY <1>2, <1>6 DEF Call, StepJump, Patched, StepCodeIn, StepDetour, StepTail, Goto
  <2>2. ret' = [ret EXCEPT ![t] = ret[t]]
    BY <1>1, <1>6 DEF Call, StepJump, StepCodeIn, StepDetour, StepTail
  <2> QED BY <1>1, <2>1, <2>2, OneStays
<1> QED BY <1>3, <1>4, <1>5, <1>6 DEF Step

\* If no moved instruction is a call, no thread is left in a trampoline that was freed,
\* whatever the number of steps of jumps and instructions, as on ARM64.
THEOREM NoThreadIsStranded ==
  ASSUME \A n \in Calls : n >= Moved
  PROVE  Spec => []NotStranded
<1>1. Init => NotStranded
  BY DEF Init, NotStranded, Outside
<1>2. (\A n \in Calls : n >= Moved) /\ NotStranded /\ [Next]_vars => NotStranded'
  <2> SUFFICES ASSUME \A n \in Calls : n >= Moved, NotStranded, [Next]_vars
               PROVE  NotStranded'
    OBVIOUS
  <2>1. CASE CommitAttach
    <3>1. /\ attached' = TRUE /\ ret' = ret
          /\ pc' = [t \in Threads |-> pc'[t]]
          /\ \A t \in Threads : pc'[t] = UpdatedForAdd(pc[t])
      BY <2>1 DEF CommitAttach
    <3>2. \A t \in Threads : pc'[t].in = "callee" => pc[t].in = "callee"
      BY <3>1, FromAnyTarget DEF UpdatedForAdd
    <3> QED BY <3>1, <3>2 DEF NotStranded
  <2>2. CASE CommitDetach
    <3>1. \A t \in Threads : /\ pc'[t] = UpdatedForRemove(pc[t])
                             /\ UpdatedForRemove(pc[t]).in \notin {"rbCode", "rbCodeIn"}
                             /\ UpdatedForRemove(pc[t]).in = "callee" => pc[t].in = "callee"
      BY <2>2 DEF CommitDetach, UpdatedForRemove, Target
    <3>2. pc' = [t \in Threads |-> pc'[t]] /\ ret' = ret
      BY <2>2 DEF CommitDetach
    <3> QED BY <3>1, <3>2 DEF NotStranded
  <2>3. CASE UNCHANGED vars
    BY <2>3 DEF vars, NotStranded
  <2> QED BY <2>1, <2>2, <2>3, StepStays DEF Next
<1> QED BY <1>1, <1>2, PTL DEF Spec
=============================================================================
