---------------------------- MODULE SummaryProofs ----------------------------
(***************************************************************************)
(* The answers of the summaries hold of every run of every program.  The   *)
(* recursive answers are shown to exist and to be unique first; then the   *)
(* run is followed with what each frame has behind it, pending or above it.*)
(***************************************************************************)
EXTENDS ProgramRun, FiniteSetTheorems, WellFoundedInduction, TLAPS

-----------------------------------------------------------------------------
(* What the invariant says.                                                *)

(* Whatever these run, the target is not called. *)
SilentFns(p, key) == {f \in Fns(p) : Clean(p, ReachFrom(p, {f}), key)}

(* The functions that are ALWAYS, those whose entries are, the sites that  *)
(* can cover an exit, and the calls that there are.                        *)
Sure(p, key)      == {f \in Fns(p) : Discharges(p, f, key) = "ALWAYS"}
Dominated(p)      == {f \in Fns(p) : EntryDominated(p, f, "req")}
Covers(p, f, key) == Covering(p, f, key, Sure(p, key))
Instrs(p)         == UNION {{At(p, f, x) : x \in Sites(p, f)} : f \in Fns(p)}

FrameSet(p) ==
    [fn : Fns(p) \cup {"goroutine"}, at : Nat \X Nat, defers : Seq(Instrs(p)), got : SUBSET Keys,
     before : BOOLEAN, exiting : BOOLEAN, panicking : BOOLEAN, unwound : BOOLEAN,
     behalf : SUBSET (Fns(p) \cup {"goroutine"})]

(* A frame of a function stands at or behind an instruction of it. *)
Placed(p, fr) ==
    /\ fr.unwound => fr.panicking /\ fr.exiting
    /\ fr.fn \notin Fns(p) => fr.exiting
    /\ fr.fn \in Fns(p) =>
          /\ fr.behalf = {} /\ fr.at[1] \in BlocksOf(p, fr.fn)
          /\ fr.at[2] \in 1..(Len(Code(p, fr.fn, fr.at[1])) + 1)

(* Nothing done in the frame makes the call: NEVER of the function, or of  *)
(* one that spawned the goroutine.                                         *)
QuietFrame(p, fr, key) == ({fr.fn} \cup fr.behalf) \cap SilentFns(p, key) # {}

(* A pending call is at a site of a function that passed what covers it.   *)
From(p, fr, in, req) ==
    \E h \in Fns(p) : \E y \in Sites(p, h) :
        /\ in = At(p, h, y)
        /\ EntryCovered(p, <<h, y>>, "req") \/ h \in Dominated(p) => req
        /\ \A key \in Keys : QuietFrame(p, fr, key) => h \in SilentFns(p, key)

FrameOK(p, fr, req) ==
    /\ fr \in FrameSet(p) /\ Placed(p, fr)
    /\ fr.before => req
    /\ "req" \in fr.got => req
    /\ fr.fn \in Dominated(p) => fr.before
    /\ \A i \in DOMAIN fr.defers : From(p, fr, fr.defers[i], req)
    /\ \A key \in Keys : QuietFrame(p, fr, key) => key \notin fr.got

(* The walk that does not pass the points of Stop comes here. *)
NotPast(p, f, Stop, at) ==
    /\ at[1] \in Entered(p, f, BlocksAt(Stop), {1})
    /\ \A y \in Stop : y[1] = at[1] => y[2] >= at[2]

(* The call was made, is made by the frame above, or is deferred. *)
Made(p, fr, up, key, Stop) ==
    \/ key \in fr.got
    \/ up \cap Sure(p, key) # {}
    \/ \E y \in Stop : /\ At(p, fr.fn, y).op = "defer"
                       /\ \E i \in DOMAIN fr.defers : fr.defers[i] = At(p, fr.fn, y)

Credit(p, fr, up) ==
    fr.fn \in Fns(p) =>
        \A key \in Keys : \A Stop \in SUBSET Covers(p, fr.fn, key) :
            /\ ~fr.exiting => NotPast(p, fr.fn, Stop, fr.at) \/ Made(p, fr, up, key, Stop)
            /\ fr.exiting /\ ~fr.unwound /\ ExitsCovered(p, fr.fn, Stop) => Made(p, fr, up, key, Stop)

Above(s, j) == IF j + 1 \in DOMAIN s THEN {s[j + 1].fn} ELSE {}

(* What a frame reached, those below it reached, and they are no more      *)
(* quiet than it.                                                          *)
Nested(p, s, req) ==
    /\ s \in Seq(FrameSet(p))
    /\ \A j \in DOMAIN s : FrameOK(p, s[j], req)
    /\ \A j, k \in DOMAIN s :
          j < k => /\ s[k].got \subseteq s[j].got
                   /\ \A key \in Keys : QuietFrame(p, s[j], key) => QuietFrame(p, s[k], key)
Credits(p, s) == \A j \in DOMAIN s : Credit(p, s[j], Above(s, j))

(* The memo tables hold what would be answered anew. *)
MemoOK ==
    \A f \in Fns(prog), key \in Keys :
        /\ MemoKey(f, key) \in DOMAIN disch => disch[MemoKey(f, key)] = Discharges(prog, f, key)
        /\ MemoKey(f, key) \in DOMAIN nev => nev[MemoKey(f, key)] = (f \in SilentFns(prog, key))

RunIInv ==
    /\ required \in BOOLEAN
    /\ prog = NoProgram => threads = <<>> /\ disch = <<>> /\ nev = <<>>
    /\ prog # NoProgram =>
          /\ prog \in Programs /\ report = Report(prog) /\ MemoOK
          /\ threads \in Seq(Seq(FrameSet(prog)))
          /\ \A t \in DOMAIN threads : Nested(prog, threads[t], required) /\ Credits(prog, threads[t])

-----------------------------------------------------------------------------
(* Walks.                                                                  *)

(* Met is closed, and inside every closed set.                           *)
LEMMA MetIs ==
    ASSUME NEW next, NEW S \in SUBSET DOMAIN next, \A x \in DOMAIN next : next[x] \subseteq DOMAIN next
    PROVE  /\ Met(next, S) \subseteq DOMAIN next /\ S \subseteq Met(next, S)
           /\ \A x \in Met(next, S) : next[x] \subseteq Met(next, S)
           /\ \A C \in SUBSET DOMAIN next :
                 S \subseteq C /\ (\A x \in C : next[x] \subseteq C) => Met(next, S) \subseteq C
<1> DEFINE L == {x \in DOMAIN next : \A C \in {B \in SUBSET DOMAIN next :
                        S \subseteq B /\ \A y \in B : next[y] \subseteq B} : x \in C}
<1>1. Met(next, S) = L
  BY DEF Met
<1>2. ASSUME NEW x \in L, NEW y \in next[x] PROVE y \in L
  <2>1. y \in DOMAIN next
    OBVIOUS
  <2> QED
    BY <1>2, <2>1
<1> QED
  BY <1>1, <1>2

(* The visible calls lead to functions with a body. *)
LEMMA CallsSeen ==
    ASSUME NEW p, NEW f
    PROVE  Calls(p, f) \subseteq {c \in Fns(p) : HasBody(p, c)}
BY DEF Calls, Cands, HasBody

(* ReachFrom is the least set that holds S and what it calls. *)
LEMMA ReachIs ==
    ASSUME NEW p, NEW S \in SUBSET Fns(p)
    PROVE  /\ ReachFrom(p, S) \subseteq Fns(p) /\ S \subseteq ReachFrom(p, S)
           /\ \A g \in ReachFrom(p, S) : Calls(p, g) \subseteq ReachFrom(p, S)
           /\ \A C \in SUBSET Fns(p) :
                 S \subseteq C /\ (\A g \in C : Calls(p, g) \subseteq C) => ReachFrom(p, S) \subseteq C
<1> DEFINE next == [f \in Fns(p) |-> Calls(p, f)]
<1>1. DOMAIN next = Fns(p) /\ \A f \in Fns(p) : next[f] = Calls(p, f)
  OBVIOUS
<1>2. \A x \in DOMAIN next : next[x] \subseteq DOMAIN next
  BY <1>1, CallsSeen
<1>3. ReachFrom(p, S) = Met(next, S)
  BY DEF ReachFrom
<1> HIDE DEF next
<1>4. S \in SUBSET DOMAIN next
  BY <1>1
<1> QED
  BY <1>1, <1>2, <1>3, <1>4, MetIs

(* What is reached from what is reached is reached. *)
LEMMA ReachOn ==
    ASSUME NEW p, NEW f \in Fns(p), NEW g \in ReachFrom(p, {f})
    PROVE  g \in Fns(p) /\ ReachFrom(p, {g}) \subseteq ReachFrom(p, {f})
<1>1. g \in Fns(p)
  BY ReachIs
<1> QED
  BY <1>1, ReachIs

(* The component of a function lies within its reach, and reaches as much. *)
LEMMA ComponentIs ==
    ASSUME NEW p, NEW f \in Fns(p)
    PROVE  /\ Component(p, f) \subseteq ReachFrom(p, {f}) /\ f \in Component(p, f)
           /\ \A g \in Component(p, f) :
                 /\ g \in Fns(p) /\ ReachFrom(p, {g}) = ReachFrom(p, {f})
                 /\ Component(p, g) = Component(p, f)
<1>1. f \in ReachFrom(p, {f}) /\ ReachFrom(p, {f}) \subseteq Fns(p)
  BY ReachIs
<1>2. ASSUME NEW g \in Component(p, f)
      PROVE  g \in Fns(p) /\ ReachFrom(p, {g}) = ReachFrom(p, {f})
  <2>1. g \in ReachFrom(p, {f}) /\ f \in ReachFrom(p, {g})
    BY DEF Component
  <2>2. g \in Fns(p) /\ ReachFrom(p, {g}) \subseteq ReachFrom(p, {f})
    BY <2>1, ReachOn
  <2>3. ReachFrom(p, {f}) \subseteq ReachFrom(p, {g})
    BY <2>1, <2>2, ReachOn
  <2> QED
    BY <2>2, <2>3
<1>3. ASSUME NEW g \in Component(p, f) PROVE Component(p, g) = Component(p, f)
  <2>1. g \in ReachFrom(p, {f}) /\ f \in ReachFrom(p, {g}) /\ g \in Fns(p) /\ ReachFrom(p, {g}) = ReachFrom(p, {f})
    BY <1>2 DEF Component
  <2>2. ASSUME NEW h \in ReachFrom(p, {f}) PROVE (g \in ReachFrom(p, {h})) <=> (f \in ReachFrom(p, {h}))
    <3>1. h \in Fns(p)
      BY ReachOn
    <3> QED
      BY <2>1, <3>1, ReachOn
  <2> QED
    BY <2>1, <2>2 DEF Component
<1> QED
  BY <1>1, <1>2, <1>3 DEF Component

(* Of the functions that have a property, one reaches no other such from   *)
(* which it is not reached: what is below it in the call graph lacks it.   *)
LEMMA LowestIn ==
    ASSUME NEW p, IsFiniteSet(Fns(p)), NEW Bad \in SUBSET Fns(p), Bad # {}
    PROVE  \E f \in Bad : \A g \in ReachFrom(p, {f}) : f \notin ReachFrom(p, {g}) => g \notin Bad
<1> DEFINE R == StrictSubsetOrdering(Fns(p))
<1> DEFINE T == {ReachFrom(p, {f}) : f \in Bad}
<1>1. IsWellFoundedOn(R, SUBSET Fns(p))
  BY FS_StrictSubsetOrderingWellFounded, FS_FiniteSubsetsOfFinite
<1>2. T \subseteq SUBSET Fns(p) /\ T # {}
  <2>1. \A f \in Fns(p) : {f} \in SUBSET Fns(p) /\ ReachFrom(p, {f}) \subseteq Fns(p)
    BY ReachIs
  <2> QED
    BY <2>1
<1>3. PICK X \in T : \A Y \in T : ~(<<Y, X>> \in R)
  <2> HIDE DEF R, T
  <2> QED
    BY <1>1, <1>2, WFMin
<1>4. PICK f \in Bad : X = ReachFrom(p, {f})
  OBVIOUS
<1>5. ASSUME NEW g \in ReachFrom(p, {f}), f \notin ReachFrom(p, {g}), g \in Bad PROVE FALSE
  <2>1. ReachFrom(p, {g}) \subseteq ReachFrom(p, {f}) /\ g \in Fns(p)
    BY ReachOn
  <2>2. f \in ReachFrom(p, {f}) /\ ReachFrom(p, {f}) \subseteq Fns(p)
    BY ReachIs
  <2>3. <<ReachFrom(p, {g}), ReachFrom(p, {f})>> \in R
    BY <1>5, <2>1, <2>2 DEF StrictSubsetOrdering
  <2> QED
    BY <1>3, <1>4, <1>5, <2>3
<1> QED
  BY <1>5

-----------------------------------------------------------------------------
(* The answers exist and are unique.                                       *)

(* Two truth values that imply each other are equal. *)
LEMMA SameTruth == ASSUME NEW a \in BOOLEAN, NEW b \in BOOLEAN, a <=> b PROVE a = b
OBVIOUS

(* A monotone step on the subsets of a set has a fixed point. *)
LEMMA FixedPoint ==
    ASSUME NEW D, NEW step \in [SUBSET D -> SUBSET D],
           \A A, B \in SUBSET D : A \subseteq B => step[A] \subseteq step[B]
    PROVE  \E A \in SUBSET D : step[A] = A
<1> DEFINE A == {x \in D : \A B \in SUBSET D : step[B] \subseteq B => x \in B}
<1>1. A \in SUBSET D /\ step[A] \in SUBSET D
  OBVIOUS
<1>2. \A B \in SUBSET D : step[B] \subseteq B => A \subseteq B
  OBVIOUS
<1>3. \A x \in D : (\A B \in SUBSET D : step[B] \subseteq B => x \in B) => x \in A
  OBVIOUS
<1> HIDE DEF A
<1>4. step[A] \subseteq A
  <2>1. ASSUME NEW B \in SUBSET D, step[B] \subseteq B PROVE step[A] \subseteq B
    BY <1>1, <1>2, <2>1
  <2> QED
    BY <1>1, <1>3, <2>1
<1>5. step[step[A]] \subseteq step[A]
  BY <1>1, <1>4
<1>6. A \subseteq step[A]
  BY <1>1, <1>2, <1>5
<1> QED
  BY <1>1, <1>4, <1>6

(* The functions that run no target are what never computes: the component *)
(* is clean, and what is below it runs no target.                          *)
LEMMA SilentIs ==
    ASSUME NEW p, NEW f \in Fns(p), NEW key
    PROVE  /\ Beneath(p, Component(p, f)) \subseteq Fns(p)
           /\ \A c \in Beneath(p, Component(p, f)) : c \in ReachFrom(p, {f}) /\ f \notin ReachFrom(p, {c})
           /\ (f \in SilentFns(p, key)) <=>
                 (/\ Clean(p, Component(p, f), key)
                  /\ \A c \in Beneath(p, Component(p, f)) : c \in SilentFns(p, key))
<1> DEFINE K == Component(p, f)
           R == ReachFrom(p, {f})
           C == K \cup (UNION {ReachFrom(p, {c}) : c \in Beneath(p, K)})
<1>1. /\ R \subseteq Fns(p) /\ f \in R /\ \A g \in R : Calls(p, g) \subseteq R
      /\ \A B \in SUBSET Fns(p) : f \in B /\ (\A g \in B : Calls(p, g) \subseteq B) => R \subseteq B
  <2>1. {f} \in SUBSET Fns(p)
    OBVIOUS
  <2> QED
    BY <2>1, ReachIs
<1>2. K \subseteq R /\ f \in K
  BY ComponentIs
<1>3. ASSUME NEW c \in Beneath(p, K)
      PROVE  /\ c \in R /\ c \notin K /\ c \in Fns(p) /\ f \notin ReachFrom(p, {c})
             /\ ReachFrom(p, {c}) \subseteq R /\ c \in ReachFrom(p, {c})
             /\ \A g \in ReachFrom(p, {c}) : Calls(p, g) \subseteq ReachFrom(p, {c})
  <2>1. c \in R /\ c \notin K
    BY <1>1, <1>2, <1>3 DEF Beneath
  <2>2. c \in Fns(p) /\ ReachFrom(p, {c}) \subseteq R
    BY <2>1, ReachOn
  <2>3. {c} \in SUBSET Fns(p)
    BY <2>2
  <2> QED
    BY <2>1, <2>2, <2>3, ReachIs DEF Component
<1>4. C \in SUBSET Fns(p) /\ f \in C /\ \A g \in C : Calls(p, g) \subseteq C
  <2>1. C \in SUBSET Fns(p)
    <3>1. ASSUME NEW g \in C PROVE g \in Fns(p)
      <4>1. CASE g \in K
        BY <1>1, <1>2, <4>1
      <4>2. CASE \E c \in Beneath(p, K) : g \in ReachFrom(p, {c})
        BY <1>1, <1>3, <4>2
      <4> QED
        BY <4>1, <4>2
    <3> QED
      BY <3>1
  <2>2. ASSUME NEW g \in K, NEW d \in Calls(p, g), d \notin K PROVE d \in C
    <3>1. d \in Beneath(p, K)
      BY <2>2 DEF Beneath
    <3> QED
      BY <1>3, <3>1
  <2>3. ASSUME NEW c \in Beneath(p, K), NEW g \in ReachFrom(p, {c}) PROVE Calls(p, g) \subseteq C
    BY <1>3
  <2> QED
    BY <1>2, <2>1, <2>2, <2>3
<1>5. R \subseteq C
  BY <1>1, <1>4
<1>6. \A F, G : F \subseteq G /\ Clean(p, G, key) => Clean(p, F, key)
  BY DEF Clean
<1>7. ASSUME f \in SilentFns(p, key)
      PROVE  Clean(p, K, key) /\ \A c \in Beneath(p, K) : c \in SilentFns(p, key)
  BY <1>2, <1>3, <1>6, <1>7 DEF SilentFns
<1>8. ASSUME Clean(p, K, key), \A c \in Beneath(p, K) : c \in SilentFns(p, key)
      PROVE  f \in SilentFns(p, key)
  <2>1. Clean(p, C, key)
    <3>1. \A c \in Beneath(p, K) : Clean(p, ReachFrom(p, {c}), key)
      BY <1>8 DEF SilentFns
    <3> QED
      BY <1>8, <3>1 DEF Clean
  <2> QED
    BY <1>5, <1>6, <2>1 DEF SilentFns
<1> QED
  BY <1>3, <1>7, <1>8

(* never answers right, from memo tables that are. *)
RightNev(p, table, key) ==
    \A f \in Fns(p) :
        MemoKey(f, key) \in DOMAIN table => table[MemoKey(f, key)] = (f \in SilentFns(p, key))

(* never, from any table of right answers: exactly the silent functions. *)
LEMMA NeversAre ==
    ASSUME NEW p, IsFiniteSet(Fns(p)), NEW table, NEW key, RightNev(p, table, key)
    PROVE  \A f \in Fns(p) : Nevers(p, table, key)[f] = (f \in SilentFns(p, key))
<1> DEFINE step(N) == [f \in Fns(p) |->
                         IF MemoKey(f, key) \in DOMAIN table THEN table[MemoKey(f, key)]
                         ELSE /\ Clean(p, Component(p, f), key)
                              /\ \A c \in Beneath(p, Component(p, f)) : N[c]]
           S == [f \in Fns(p) |-> f \in SilentFns(p, key)]
           N == Nevers(p, table, key)
<1>1. Nevers(p, table, key) = CHOOSE M : M = step(M)
  BY DEF Nevers
<1>2. S = step(S)
  <2>1. ASSUME NEW f \in Fns(p) PROVE S[f] = step(S)[f]
    <3>1. CASE MemoKey(f, key) \in DOMAIN table
      BY <3>1 DEF RightNev
    <3>2. CASE MemoKey(f, key) \notin DOMAIN table
      <4>1. \A c \in Beneath(p, Component(p, f)) : S[c] = (c \in SilentFns(p, key))
        BY SilentIs
      <4>2. S[f] = (f \in SilentFns(p, key))
        OBVIOUS
      <4> HIDE DEF S
      <4>3. step(S)[f] = (/\ Clean(p, Component(p, f), key)
                          /\ \A c \in Beneath(p, Component(p, f)) : S[c])
        BY <3>2
      <4> HIDE DEF step
      <4>4. (/\ Clean(p, Component(p, f), key)
             /\ \A c \in Beneath(p, Component(p, f)) : S[c]) <=> (f \in SilentFns(p, key))
        BY <4>1, SilentIs
      <4>5. (/\ Clean(p, Component(p, f), key)
             /\ \A c \in Beneath(p, Component(p, f)) : S[c]) = (f \in SilentFns(p, key))
        <5>1. (/\ Clean(p, Component(p, f), key)
               /\ \A c \in Beneath(p, Component(p, f)) : S[c]) \in BOOLEAN
          OBVIOUS
        <5>2. (f \in SilentFns(p, key)) \in BOOLEAN
          OBVIOUS
        <5> QED
          BY <4>4, <5>1, <5>2, SameTruth, Zenon
      <4> QED
        BY <4>2, <4>3, <4>5, Zenon
    <3> QED
      BY <3>1, <3>2
  <2>2. S = [f \in Fns(p) |-> S[f]] /\ step(S) = [f \in Fns(p) |-> step(S)[f]]
    OBVIOUS
  <2> HIDE DEF S, step
  <2> QED
    BY <2>1, <2>2
<1>3. N = step(N)
  <2> HIDE DEF step, S
  <2> QED
    BY <1>1, <1>2
<1>4. \A f \in Fns(p) : N[f] = IF MemoKey(f, key) \in DOMAIN table THEN table[MemoKey(f, key)]
                               ELSE /\ Clean(p, Component(p, f), key)
                                    /\ \A c \in Beneath(p, Component(p, f)) : N[c]
  <2> HIDE DEF N
  <2> QED
    BY <1>3
<1> HIDE DEF N, S, step
<1> DEFINE Bad == {f \in Fns(p) : N[f] # (f \in SilentFns(p, key))}
<1>5. CASE Bad = {}
  BY <1>5 DEF N
<1>6. CASE Bad # {}
  <2>1. PICK f \in Bad : \A g \in ReachFrom(p, {f}) : f \notin ReachFrom(p, {g}) => g \notin Bad
    BY <1>6, LowestIn
  <2>2. f \in Fns(p) /\ N[f] # (f \in SilentFns(p, key))
    OBVIOUS
  <2>3. \A c \in Beneath(p, Component(p, f)) : N[c] = (c \in SilentFns(p, key))
    BY <2>1, <2>2, SilentIs
  <2> HIDE DEF Bad
  <2>4. CASE MemoKey(f, key) \in DOMAIN table
    BY <1>4, <2>2, <2>4 DEF RightNev
  <2>5. CASE MemoKey(f, key) \notin DOMAIN table
    <3>1. N[f] = (/\ Clean(p, Component(p, f), key)
                  /\ \A c \in Beneath(p, Component(p, f)) : N[c])
      BY <1>4, <2>2, <2>5
    <3>2. (/\ Clean(p, Component(p, f), key)
           /\ \A c \in Beneath(p, Component(p, f)) : N[c]) <=> (f \in SilentFns(p, key))
      BY <2>2, <2>3, SilentIs
    <3>3. (/\ Clean(p, Component(p, f), key)
           /\ \A c \in Beneath(p, Component(p, f)) : N[c]) = (f \in SilentFns(p, key))
      <4>1. (/\ Clean(p, Component(p, f), key)
             /\ \A c \in Beneath(p, Component(p, f)) : N[c]) \in BOOLEAN
        OBVIOUS
      <4>2. (f \in SilentFns(p, key)) \in BOOLEAN
        OBVIOUS
      <4> QED
        BY <3>2, <4>1, <4>2, SameTruth, Zenon
    <3> QED
      BY <2>2, <3>1, <3>3, Zenon
  <2> QED
    BY <2>4, <2>5
<1> QED
  BY <1>5, <1>6

(* A walk of the blocks. *)
LEMMA EnteredIs ==
    ASSUME NEW p, IsUnit(p), NEW f \in Fns(p), NEW Closed, NEW S \in SUBSET BlocksOf(p, f)
    PROVE  /\ Entered(p, f, Closed, S) \subseteq BlocksOf(p, f) /\ S \subseteq Entered(p, f, Closed, S)
           /\ \A b \in Entered(p, f, Closed, S) \ Closed : SuccsOf(p, f, b) \subseteq Entered(p, f, Closed, S)
           /\ \A C \in SUBSET BlocksOf(p, f) :
                 S \subseteq C /\ (\A b \in C \ Closed : SuccsOf(p, f, b) \subseteq C)
                    => Entered(p, f, Closed, S) \subseteq C
<1> DEFINE next == [b \in BlocksOf(p, f) |-> IF b \in Closed THEN {} ELSE SuccsOf(p, f, b)]
<1>1. /\ DOMAIN next = BlocksOf(p, f)
      /\ \A b \in BlocksOf(p, f) : next[b] = IF b \in Closed THEN {} ELSE SuccsOf(p, f, b)
  OBVIOUS
<1>2. \A b \in BlocksOf(p, f) : SuccsOf(p, f, b) \subseteq BlocksOf(p, f)
  <2>1. ASSUME NEW b \in BlocksOf(p, f) PROVE SuccsOf(p, f, b) \subseteq BlocksOf(p, f)
    <3>1. Next1(p, f, b) \in Seq(BlocksOf(p, f))
      BY DEF IsUnit
    <3> QED
      BY <3>1 DEF SuccsOf
  <2> QED
    BY <2>1
<1>3. Entered(p, f, Closed, S) = Met(next, S)
  BY DEF Entered
<1> HIDE DEF next
<1>4. S \in SUBSET DOMAIN next /\ \A x \in DOMAIN next : next[x] \subseteq DOMAIN next
  BY <1>1, <1>2
<1>5. /\ Met(next, S) \subseteq DOMAIN next /\ S \subseteq Met(next, S)
      /\ \A x \in Met(next, S) : next[x] \subseteq Met(next, S)
      /\ \A C \in SUBSET DOMAIN next :
            S \subseteq C /\ (\A x \in C : next[x] \subseteq C) => Met(next, S) \subseteq C
  BY <1>4, MetIs
<1> QED
  BY <1>1, <1>3, <1>5

(* The more points a walk stops at, the fewer blocks it enters. *)
LEMMA MoreStopsFewerBlocks ==
    ASSUME NEW p, IsUnit(p), NEW f \in Fns(p), NEW Few, NEW Many, Few \subseteq Many,
           NEW S \in SUBSET BlocksOf(p, f)
    PROVE  Entered(p, f, Many, S) \subseteq Entered(p, f, Few, S)
<1>1. Entered(p, f, Few, S) \in SUBSET BlocksOf(p, f) /\ S \subseteq Entered(p, f, Few, S)
  BY EnteredIs
<1>2. \A b \in Entered(p, f, Few, S) \ Many : SuccsOf(p, f, b) \subseteq Entered(p, f, Few, S)
  BY EnteredIs
<1> QED
  BY <1>1, <1>2, EnteredIs

(* A function with a body has an entry block. *)
LEMMA EntryBlock ==
    ASSUME NEW p, IsUnit(p), NEW f \in Fns(p), p[f].blocks # <<>>
    PROVE  1 \in BlocksOf(p, f) /\ {1} \in SUBSET BlocksOf(p, f)
BY DEF IsUnit, IsSeq, BlocksOf

(* What covers the exits covers them with further points. *)
LEMMA MoreStopsCover ==
    ASSUME NEW p, IsUnit(p), NEW f \in Fns(p), p[f].blocks # <<>>, NEW Few, NEW Many, Few \subseteq Many,
           ExitsCovered(p, f, Few)
    PROVE  ExitsCovered(p, f, Many)
<1>1. BlocksAt(Few) \subseteq BlocksAt(Many)
  BY DEF BlocksAt
<1>2. Entered(p, f, BlocksAt(Many), {1}) \subseteq Entered(p, f, BlocksAt(Few), {1})
  BY <1>1, EntryBlock, MoreStopsFewerBlocks
<1> QED
  BY <1>1, <1>2 DEF ExitsCovered

(* What dischargeKey says of one function, given the callees that are sure. *)
Judged(p, key, f, sure) ==
    IF f \in SilentFns(p, key) THEN "NEVER"
    ELSE IF Cyclic(p, f) \/ ~HasBody(p, f) \/ p[f].recovers THEN "UNKNOWN"
    ELSE IF ExitsCovered(p, f, Covering(p, f, key, sure)) THEN "ALWAYS" ELSE "UNKNOWN"

SureIn(p, f, D) == {c \in Calls(p, f) : D[c] = "ALWAYS"}

Solves(p, table, key, D) ==
    D = [f \in Fns(p) |-> IF MemoKey(f, key) \in DOMAIN table THEN table[MemoKey(f, key)]
                          ELSE Judged(p, key, f, SureIn(p, f, D))]

(* There are answers that agree with each other. *)
LEMMA AnswersExist ==
    ASSUME NEW p, IsUnit(p), NEW key
    PROVE  \E D : Solves(p, <<>>, key, D)
<1> DEFINE can(f, A) == /\ f \notin SilentFns(p, key)
                        /\ ~(Cyclic(p, f) \/ ~HasBody(p, f) \/ p[f].recovers)
                        /\ ExitsCovered(p, f, Covering(p, f, key, Calls(p, f) \cap A))
           step == [A \in SUBSET Fns(p) |-> {f \in Fns(p) : can(f, A)}]
<1>1. ASSUME NEW A \in SUBSET Fns(p), NEW B \in SUBSET Fns(p), A \subseteq B, NEW f \in Fns(p), can(f, A)
      PROVE  can(f, B)
  <2>1. p[f].blocks # <<>>
    BY <1>1 DEF HasBody
  <2>2. Covering(p, f, key, Calls(p, f) \cap A) \subseteq Covering(p, f, key, Calls(p, f) \cap B)
    BY <1>1 DEF Covering, Credited
  <2>3. ExitsCovered(p, f, Covering(p, f, key, Calls(p, f) \cap B))
    BY <1>1, <2>1, <2>2, MoreStopsCover
  <2> QED
    BY <1>1, <2>3
<1>2. step \in [SUBSET Fns(p) -> SUBSET Fns(p)] /\ \A A \in SUBSET Fns(p) : step[A] = {f \in Fns(p) : can(f, A)}
  OBVIOUS
<1> HIDE DEF can, step
<1>3. \A A, B \in SUBSET Fns(p) : A \subseteq B => step[A] \subseteq step[B]
  BY <1>1, <1>2
<1>4. PICK A \in SUBSET Fns(p) : step[A] = A
  <2>1. step \in [SUBSET Fns(p) -> SUBSET Fns(p)]
    BY <1>2
  <2> QED
    BY <1>3, <2>1, FixedPoint, Zenon
<1> DEFINE D == [f \in Fns(p) |-> IF f \in SilentFns(p, key) THEN "NEVER"
                                  ELSE IF f \in A THEN "ALWAYS" ELSE "UNKNOWN"]
<1>5. \A f \in Fns(p) : f \in A <=> can(f, A)
  BY <1>2, <1>4
<1>6. \A f \in Fns(p) : D[f] = "ALWAYS" <=> f \in A
  BY <1>5 DEF can
<1>7. \A f \in Fns(p) : SureIn(p, f, D) = Calls(p, f) \cap A
  <2> HIDE DEF D
  <2> QED
    BY <1>6, CallsSeen DEF SureIn
<1>8. \A f \in Fns(p) : D[f] = Judged(p, key, f, SureIn(p, f, D))
  <2>1. ASSUME NEW f \in Fns(p) PROVE D[f] = Judged(p, key, f, Calls(p, f) \cap A)
    BY <1>5 DEF can, Judged
  <2> HIDE DEF D
  <2> QED
    BY <1>7, <2>1
<1>9. Solves(p, <<>>, key, D)
  <2>1. \A x : x \notin DOMAIN <<>>
    OBVIOUS
  <2>2. D = [f \in Fns(p) |-> D[f]]
    OBVIOUS
  <2> HIDE DEF D
  <2> QED
    BY <1>8, <2>1, <2>2 DEF Solves
<1> QED
  BY <1>9

(* A function that is in no cycle is not reached from its callees. *)
LEMMA CalleesLieBelow ==
    ASSUME NEW p, IsFiniteSet(Fns(p)), NEW f \in Fns(p), ~Cyclic(p, f), NEW c \in Calls(p, f)
    PROVE  c \in ReachFrom(p, {f}) /\ f \notin ReachFrom(p, {c})
<1>1. {f} \in SUBSET Fns(p)
  OBVIOUS
<1>2. c \in ReachFrom(p, {f})
  BY <1>1, ReachIs
<1>3. ASSUME f \in ReachFrom(p, {c}) PROVE FALSE
  <2>1. c # f
    BY DEF Cyclic
  <2>2. c \in Component(p, f) /\ f \in Component(p, f)
    BY <1>2, <1>3, ComponentIs DEF Component
  <2>3. Component(p, f) \subseteq Fns(p)
    BY ComponentIs
  <2>4. IsFiniteSet(Component(p, f))
    BY <2>3, FS_Subset
  <2>5. IsFiniteSet({f}) /\ Cardinality({f}) = 1
    BY FS_Singleton
  <2>6. Cardinality({f} \cup {c}) = 2
    <3>1. c \notin {f}
      BY <2>1
    <3>2. Cardinality({f} \cup {c}) = Cardinality({f}) + 1
      BY <2>5, <3>1, FS_AddElement
    <3> QED
      BY <2>5, <3>2
  <2>7. {f} \cup {c} \subseteq Component(p, f)
    BY <2>2
  <2>8. Cardinality({f} \cup {c}) <= Cardinality(Component(p, f)) /\ Cardinality(Component(p, f)) \in Nat
    BY <2>4, <2>7, FS_Subset, FS_CardinalityType
  <2> QED
    BY <2>6, <2>8 DEF Cyclic
<1> QED
  BY <1>2, <1>3

(* A table of right answers changes no answer. *)
LEMMA AnswersUnique ==
    ASSUME NEW p, IsUnit(p), NEW key, NEW table, NEW D, NEW E,
           Solves(p, <<>>, key, D), Solves(p, table, key, E),
           \A f \in Fns(p) : MemoKey(f, key) \in DOMAIN table => table[MemoKey(f, key)] = D[f]
    PROVE  \A f \in Fns(p) : E[f] = D[f]
<1> DEFINE Bad == {f \in Fns(p) : E[f] # D[f]}
<1>1. \A f \in Fns(p) : D[f] = Judged(p, key, f, SureIn(p, f, D))
  <2>1. \A x : x \notin DOMAIN <<>>
    OBVIOUS
  <2> QED
    BY <2>1 DEF Solves
<1>2. \A f \in Fns(p) : MemoKey(f, key) \notin DOMAIN table => E[f] = Judged(p, key, f, SureIn(p, f, E))
  BY DEF Solves
<1>3. \A f \in Fns(p) : MemoKey(f, key) \in DOMAIN table => E[f] = D[f]
  BY DEF Solves
<1>4. ASSUME Bad # {} PROVE FALSE
  <2>1. IsFiniteSet(Fns(p))
    BY DEF IsUnit
  <2>2. PICK f \in Bad : \A g \in ReachFrom(p, {f}) : f \notin ReachFrom(p, {g}) => g \notin Bad
    BY <1>4, <2>1, LowestIn
  <2>3. f \in Fns(p) /\ E[f] = Judged(p, key, f, SureIn(p, f, E)) /\ D[f] = Judged(p, key, f, SureIn(p, f, D))
    BY <1>1, <1>2, <1>3
  <2>4. CASE f \in SilentFns(p, key) \/ Cyclic(p, f)
    BY <2>3, <2>4 DEF Judged
  <2>5. CASE ~Cyclic(p, f)
    <3>1. \A c \in Calls(p, f) : E[c] = D[c]
      BY <2>1, <2>2, <2>3, <2>5, CalleesLieBelow, CallsSeen
    <3>2. SureIn(p, f, E) = SureIn(p, f, D)
      BY <3>1 DEF SureIn
    <3> QED
      BY <2>3, <3>2
  <2> QED
    BY <2>4, <2>5
<1> QED
  BY <1>4

(* Discharges, with tables that are right or with none. *)
LEMMA DischargeAllSolves ==
    ASSUME NEW p, IsUnit(p), NEW key, NEW known, NEW table, RightNev(p, known, key),
           \E D : Solves(p, table, key, D)
    PROVE  Solves(p, table, key, DischargeAll(p, known, table, key))
<1>1. \A f \in Fns(p) : Never(p, known, f, key) = (f \in SilentFns(p, key))
  BY NeversAre DEF Never, IsUnit
<1> DEFINE step(D) == [f \in Fns(p) |->
                IF MemoKey(f, key) \in DOMAIN table THEN table[MemoKey(f, key)]
                ELSE IF Never(p, known, f, key) THEN "NEVER"
                ELSE IF Cyclic(p, f) \/ ~HasBody(p, f) \/ p[f].recovers THEN "UNKNOWN"
                ELSE IF ExitsCovered(p, f, Covering(p, f, key, {c \in Calls(p, f) : D[c] = "ALWAYS"}))
                     THEN "ALWAYS" ELSE "UNKNOWN"]
<1>2. DischargeAll(p, known, table, key) = CHOOSE D : D = step(D)
  BY DEF DischargeAll
<1>3. ASSUME NEW D PROVE Solves(p, table, key, D) <=> D = step(D)
  <2>1. ASSUME NEW f \in Fns(p)
        PROVE  (IF MemoKey(f, key) \in DOMAIN table THEN table[MemoKey(f, key)]
                ELSE Judged(p, key, f, SureIn(p, f, D))) = step(D)[f]
    BY <1>1 DEF Judged, SureIn
  <2>2. step(D) = [f \in Fns(p) |-> step(D)[f]]
    OBVIOUS
  <2> HIDE DEF step
  <2>3. step(D) = [f \in Fns(p) |-> IF MemoKey(f, key) \in DOMAIN table THEN table[MemoKey(f, key)]
                                    ELSE Judged(p, key, f, SureIn(p, f, D))]
    BY <2>1, <2>2
  <2> QED
    BY <2>3 DEF Solves
<1> HIDE DEF step
<1>4. PICK D : D = step(D)
  BY <1>3
<1>5. DischargeAll(p, known, table, key) = step(DischargeAll(p, known, table, key))
  BY <1>2, <1>4
<1> QED
  BY <1>3, <1>5

(* The empty table holds no wrong answer. *)
LEMMA NoTable ==
    ASSUME NEW p, NEW key
    PROVE  RightNev(p, <<>>, key) /\ \A x : x \notin DOMAIN <<>>
BY DEF RightNev

(* Discharges solves its own equations. *)
LEMMA DischargesAre ==
    ASSUME NEW p, IsUnit(p), NEW key
    PROVE  /\ Solves(p, <<>>, key, DischargeAll(p, <<>>, <<>>, key))
           /\ \A f \in Fns(p) : /\ Discharges(p, f, key) = DischargeAll(p, <<>>, <<>>, key)[f]
                                /\ Discharges(p, f, key) = Judged(p, key, f, Calls(p, f) \cap Sure(p, key))
<1> DEFINE D == DischargeAll(p, <<>>, <<>>, key)
<1>1. Solves(p, <<>>, key, D)
  BY AnswersExist, NoTable, DischargeAllSolves
<1>2. \A f \in Fns(p) : Discharges(p, f, key) = D[f]
  BY DEF Discharges, Discharge
<1> HIDE DEF D
<1>3. \A f \in Fns(p) : D[f] = Judged(p, key, f, SureIn(p, f, D))
  BY <1>1, NoTable DEF Solves
<1>4. \A f \in Fns(p) : SureIn(p, f, D) = Calls(p, f) \cap Sure(p, key)
  BY <1>2, CallsSeen DEF SureIn, Sure
<1> QED
  BY <1>1, <1>2, <1>3, <1>4 DEF D

(* Right tables give the answers that none would give. *)
LEMMA TablesChangeNothing ==
    ASSUME NEW p, IsUnit(p), NEW key, NEW known, NEW table, RightNev(p, known, key),
           \A f \in Fns(p) : MemoKey(f, key) \in DOMAIN table => table[MemoKey(f, key)] = Discharges(p, f, key),
           NEW f \in Fns(p)
    PROVE  /\ Never(p, known, f, key) = (f \in SilentFns(p, key))
           /\ Discharge(p, known, table, f, key) = Discharges(p, f, key)
<1> DEFINE D == DischargeAll(p, <<>>, <<>>, key)
           E == DischargeAll(p, known, table, key)
<1>1. Solves(p, <<>>, key, D) /\ \A g \in Fns(p) : Discharges(p, g, key) = D[g]
  BY DischargesAre
<1>2. Discharge(p, known, table, f, key) = E[f]
  BY DEF Discharge
<1>3. E = DischargeAll(p, known, table, key)
  OBVIOUS
<1> HIDE DEF D, E
<1>4. \A g \in Fns(p) : D[g] = Judged(p, key, g, SureIn(p, g, D))
  BY <1>1, NoTable DEF Solves
<1>5. D = [g \in Fns(p) |-> D[g]]
  BY <1>1 DEF Solves
<1>6. Solves(p, table, key, D)
  <2>1. \A g \in Fns(p) : D[g] = IF MemoKey(g, key) \in DOMAIN table THEN table[MemoKey(g, key)]
                                 ELSE Judged(p, key, g, SureIn(p, g, D))
    BY <1>1, <1>4
  <2> QED
    BY <1>5, <2>1 DEF Solves
<1>7. Solves(p, table, key, E)
  BY <1>3, <1>6, DischargeAllSolves
<1>8. E[f] = D[f]
  BY <1>1, <1>7, AnswersUnique
<1>9. Never(p, known, f, key) = (f \in SilentFns(p, key))
  BY NeversAre DEF Never, IsUnit
<1> QED
  BY <1>1, <1>2, <1>8, <1>9

(* entryDominated: who is said to be entered behind the require is entered *)
(* by visible calls only, each covered or from a function of that kind.    *)
EntriesGood(p, f, key, A) ==
    /\ ~AddressTaken(p, f)
    /\ ~(p[f].method # "" /\ DynamicInvokeName(p, p[f].method))
    /\ Entries(p, f) # {}
    /\ \A e \in Entries(p, f) :
          \/ EntryCovered(p, e, key)
          \/ e[1] \notin Component(p, f) /\ e[1] \in A

(* Who is dominated has its entries covered, or dominated above. *)
LEMMA DominatedIs ==
    ASSUME NEW p
    PROVE  \A f \in Dominated(p) : EntriesGood(p, f, "req", Dominated(p))
<1> DEFINE step(E) == [f \in Fns(p) |->
                          /\ ~AddressTaken(p, f)
                          /\ ~(p[f].method # "" /\ DynamicInvokeName(p, p[f].method))
                          /\ Entries(p, f) # {}
                          /\ \A e \in Entries(p, f) :
                                \/ EntryCovered(p, e, "req")
                                \/ e[1] \notin Component(p, f) /\ E[e[1]]]
           next == [A \in SUBSET Fns(p) |-> {f \in Fns(p) : EntriesGood(p, f, "req", A)}]
<1>1. next \in [SUBSET Fns(p) -> SUBSET Fns(p)] /\ \A A \in SUBSET Fns(p) : next[A] = {f \in Fns(p) : EntriesGood(p, f, "req", A)}
  OBVIOUS
<1> HIDE DEF next
<1>2. \A A, B \in SUBSET Fns(p) : A \subseteq B => next[A] \subseteq next[B]
  BY <1>1 DEF EntriesGood
<1>3. PICK A \in SUBSET Fns(p) : next[A] = A
  <2>1. next \in [SUBSET Fns(p) -> SUBSET Fns(p)]
    BY <1>1
  <2> QED
    BY <1>2, <2>1, FixedPoint, Zenon
<1> DEFINE S == [f \in Fns(p) |-> f \in A]
<1>4. \A f \in Fns(p) : \A e \in Entries(p, f) : e[1] \in Fns(p)
  BY DEF Entries
<1>5. S = step(S)
  <2>1. ASSUME NEW f \in Fns(p) PROVE step(S)[f] = (f \in A)
    <3>1. step(S)[f] \in BOOLEAN /\ (f \in A) \in BOOLEAN
      OBVIOUS
    <3>2. step(S)[f] <=> EntriesGood(p, f, "req", A)
      <4>1. \A e \in Entries(p, f) : S[e[1]] = (e[1] \in A)
        BY <1>4
      <4> HIDE DEF S
      <4> QED
        BY <4>1 DEF EntriesGood
    <3>3. EntriesGood(p, f, "req", A) <=> f \in A
      BY <1>1, <1>3
    <3> HIDE DEF step, S
    <3> QED
      BY <3>1, <3>2, <3>3, SameTruth
  <2>2. step(S) = [f \in Fns(p) |-> step(S)[f]]
    OBVIOUS
  <2> HIDE DEF step
  <2> QED
    BY <2>1, <2>2
<1>6. Dominateds(p, "req") = CHOOSE E : E = step(E)
  BY DEF Dominateds
<1> HIDE DEF step, S
<1>7. Dominateds(p, "req") = step(Dominateds(p, "req"))
  BY <1>5, <1>6
<1> DEFINE E == Dominateds(p, "req")
<1>8. \A f \in Fns(p) : E[f] = (/\ ~AddressTaken(p, f)
                                /\ ~(p[f].method # "" /\ DynamicInvokeName(p, p[f].method))
                                /\ Entries(p, f) # {}
                                /\ \A e \in Entries(p, f) :
                                      \/ EntryCovered(p, e, "req")
                                      \/ e[1] \notin Component(p, f) /\ E[e[1]])
  BY <1>7 DEF step
<1>9. \A f \in Fns(p) : f \in Dominated(p) <=> E[f]
  BY DEF Dominated, EntryDominated
<1> HIDE DEF E
<1> QED
  BY <1>4, <1>8, <1>9 DEF EntriesGood, Dominated

-----------------------------------------------------------------------------
(* What the answers say of sites.                                          *)

(* A point is a block and a place in it. *)
LEMMA SitesAre ==
    ASSUME NEW p, IsUnit(p), NEW f \in Fns(p), NEW x \in Points(p, f)
    PROVE  /\ x = <<x[1], x[2]>> /\ x[1] \in BlocksOf(p, f) /\ x[1] \in Nat /\ x[2] \in Nat
           /\ x[2] \in 1..Len(Code(p, f, x[1])) /\ Len(Code(p, f, x[1])) \in Nat
<1>1. PICK b \in BlocksOf(p, f) : \E i \in DOMAIN Code(p, f, b) : x = <<b, i>>
  BY DEF Points
<1>2. IsSeq(Code(p, f, b))
  BY DEF IsUnit
<1>3. DOMAIN Code(p, f, b) = 1..Len(Code(p, f, b)) /\ Len(Code(p, f, b)) \in Nat
  BY <1>2 DEF IsSeq
<1>4. b \in Nat
  BY DEF BlocksOf
<1> QED
  BY <1>1, <1>3, <1>4

(* Who is ALWAYS has a body, recovers from nothing and covers its exits. *)
LEMMA SureIs ==
    ASSUME NEW p, IsUnit(p), NEW key, NEW f \in Sure(p, key)
    PROVE  /\ HasBody(p, f) /\ ~p[f].recovers /\ ExitsCovered(p, f, Covers(p, f, key))
<1>1. f \in Fns(p) /\ Judged(p, key, f, Calls(p, f) \cap Sure(p, key)) = "ALWAYS"
  <2>1. f \in Fns(p) /\ Discharges(p, f, key) = "ALWAYS"
    BY DEF Sure
  <2> QED
    BY <2>1, DischargesAre
<1>2. Covering(p, f, key, Calls(p, f) \cap Sure(p, key)) = Covers(p, f, key)
  <2>1. \A x \in Sites(p, f) : Cands(p, At(p, f, x)) \subseteq Calls(p, f)
    BY DEF Calls
  <2> QED
    BY <2>1 DEF Covering, Covers, Credited
<1> QED
  BY <1>1, <1>2 DEF Judged

(* NEVER is answered of silent functions only. *)
LEMMA NeverIsSilent ==
    ASSUME NEW p, IsUnit(p), NEW key, NEW f \in Fns(p), Discharges(p, f, key) = "NEVER"
    PROVE  f \in SilentFns(p, key)
BY DischargesAre DEF Judged

(* creditCall. *)
LEMMA CreditIs ==
    ASSUME NEW p, NEW in, NEW key
    PROVE  CreditCall(p, in, key) <=> Credited(p, in, Sure(p, key))
BY DEF CreditCall, Credited, Sure, Cands, HasBody

(* A require site is a plain call, and such a call covers. *)
LEMMA RequiresCover ==
    ASSUME NEW p, NEW f, NEW key
    PROVE  RequireSites(p, f, key) \subseteq Covers(p, f, key)
BY CreditIs DEF RequireSites, Covers, Covering, CoveringOp

(* What a silent function calls is in sight, silent and no target. *)
LEMMA SilentCalls ==
    ASSUME NEW p, NEW key, NEW f \in SilentFns(p, key), NEW x \in Sites(p, f)
    PROVE  /\ key \notin At(p, f, x).tags /\ ~Frontier(p, At(p, f, x))
           /\ Cands(p, At(p, f, x)) \subseteq SilentFns(p, key)
<1>1. f \in Fns(p) /\ Clean(p, ReachFrom(p, {f}), key)
  BY DEF SilentFns
<1>2. f \in ReachFrom(p, {f}) /\ Calls(p, f) \subseteq ReachFrom(p, {f})
  <2>1. {f} \in SUBSET Fns(p)
    BY <1>1
  <2> QED
    BY <2>1, ReachIs
<1>3. key \notin At(p, f, x).tags /\ ~Frontier(p, At(p, f, x))
  BY <1>1, <1>2 DEF Clean, Hits
<1>4. ASSUME NEW c \in Cands(p, At(p, f, x)) PROVE c \in SilentFns(p, key)
  <2>1. c \in Calls(p, f)
    BY DEF Calls
  <2>2. c \in Fns(p) /\ ReachFrom(p, {c}) \subseteq ReachFrom(p, {f})
    BY <1>1, <1>2, <2>1, ReachOn
  <2> QED
    BY <1>1, <2>2 DEF SilentFns, Clean
<1> QED
  BY <1>3, <1>4

(* The walk that stops at some points, along an execution: it starts at    *)
(* the entry, goes on past what is no stop, and into the next block; at an *)
(* exit the stops do not cover it.                                         *)
LEMMA NotPastEntry ==
    ASSUME NEW p, IsUnit(p), NEW f \in Fns(p), HasBody(p, f), NEW Stop \in SUBSET Points(p, f)
    PROVE  NotPast(p, f, Stop, <<1, 1>>)
<1>1. {1} \in SUBSET BlocksOf(p, f)
  BY EntryBlock DEF HasBody
<1>2. 1 \in Entered(p, f, BlocksAt(Stop), {1})
  BY <1>1, EnteredIs
<1>3. \A y \in Stop : y[2] \in Nat /\ y[2] >= 1
  BY SitesAre
<1> QED
  BY <1>2, <1>3 DEF NotPast

(* Past an instruction that is no stop. *)
LEMMA NotPastNext ==
    ASSUME NEW p, IsUnit(p), NEW f \in Fns(p), NEW Stop \in SUBSET Points(p, f), NEW at \in Nat \X Nat,
           NotPast(p, f, Stop, at), at \notin Stop
    PROVE  NotPast(p, f, Stop, <<at[1], at[2] + 1>>)
<1>1. ASSUME NEW y \in Stop, y[1] = at[1] PROVE y[2] >= at[2] + 1
  <2>1. y[2] >= at[2] /\ y = <<y[1], y[2]>> /\ at = <<at[1], at[2]>> /\ y[2] \in Nat /\ at[2] \in Nat
    BY <1>1, SitesAre DEF NotPast
  <2>2. y[2] # at[2]
    BY <1>1, <2>1
  <2> QED
    BY <2>1, <2>2
<1> QED
  BY <1>1 DEF NotPast

(* Past the end of a block. *)
LEMMA NotPastEnd ==
    ASSUME NEW p, IsUnit(p), NEW f \in Fns(p), HasBody(p, f), NEW Stop \in SUBSET Points(p, f),
           NEW at \in Nat \X Nat, NotPast(p, f, Stop, at),
           at[1] \in BlocksOf(p, f), at[2] \notin DOMAIN Code(p, f, at[1]), at[2] >= 1
    PROVE  /\ \A b \in SuccsOf(p, f, at[1]) : NotPast(p, f, Stop, <<b, 1>>)
           /\ SuccsOf(p, f, at[1]) = {} => ~ExitsCovered(p, f, Stop)
<1> DEFINE E == Entered(p, f, BlocksAt(Stop), {1})
<1>1. at[1] \in E /\ at[1] \notin BlocksAt(Stop)
  <2>1. ASSUME at[1] \in BlocksAt(Stop) PROVE FALSE
    <3>1. PICK y \in Stop : y[1] = at[1]
      BY <2>1 DEF BlocksAt
    <3>2. y[2] >= at[2]
      BY <3>1 DEF NotPast
    <3>3. y[2] \in 1..Len(Code(p, f, at[1])) /\ Len(Code(p, f, at[1])) \in Nat
      BY <3>1, SitesAre
    <3>4. DOMAIN Code(p, f, at[1]) = 1..Len(Code(p, f, at[1]))
      BY DEF IsUnit, IsSeq
    <3>5. at[2] \in Nat
      OBVIOUS
    <3> QED
      BY <3>2, <3>3, <3>4, <3>5
  <2> QED
    BY <2>1 DEF NotPast
<1>2. {1} \in SUBSET BlocksOf(p, f)
  BY EntryBlock DEF HasBody
<1>3. SuccsOf(p, f, at[1]) \subseteq E
  BY <1>1, <1>2, EnteredIs
<1>4. \A y \in Stop : y[2] \in Nat /\ y[2] >= 1
  BY SitesAre
<1>5. \A b \in SuccsOf(p, f, at[1]) : NotPast(p, f, Stop, <<b, 1>>)
  BY <1>3, <1>4 DEF NotPast
<1>6. SuccsOf(p, f, at[1]) = {} => ~ExitsCovered(p, f, Stop)
  BY <1>1 DEF ExitsCovered
<1> QED
  BY <1>5, <1>6

-----------------------------------------------------------------------------
(* Frames and stacks.                                                      *)

Mark(fr, r)     == [fr EXCEPT !.got = @ \cup r]
Entering(c, req) ==
    [fn |-> c, at |-> <<1, 1>>, defers |-> <<>>, got |-> {}, before |-> req,
     exiting |-> FALSE, panicking |-> FALSE, unwound |-> FALSE, behalf |-> {}]

(* All that a target reached changes of a frame. *)
LEMMA MarkIs ==
    ASSUME NEW p, NEW fr \in FrameSet(p), NEW r \in SUBSET Keys
    PROVE  /\ Mark(fr, r) \in FrameSet(p)
           /\ Mark(fr, r).got = fr.got \cup r
           /\ Mark(fr, r).fn = fr.fn /\ Mark(fr, r).at = fr.at /\ Mark(fr, r).defers = fr.defers
           /\ Mark(fr, r).before = fr.before /\ Mark(fr, r).exiting = fr.exiting
           /\ Mark(fr, r).panicking = fr.panicking /\ Mark(fr, r).unwound = fr.unwound
           /\ Mark(fr, r).behalf = fr.behalf
BY DEF Mark, FrameSet

(* The two are frames of one call. *)
SameCall(fr, gr) == gr.fn = fr.fn /\ gr.behalf = fr.behalf /\ gr.before = fr.before

(* A frame is as quiet before a step of it as after. *)
LEMMA SameQuiet ==
    ASSUME NEW p, NEW fr, NEW gr, SameCall(fr, gr), NEW key
    PROVE  QuietFrame(p, gr, key) <=> QuietFrame(p, fr, key)
BY DEF SameCall, QuietFrame

(* A pending call keeps its site. *)
LEMMA FromKept ==
    ASSUME NEW p, NEW fr, NEW gr, SameCall(fr, gr), NEW in, NEW req \in BOOLEAN, NEW req2 \in BOOLEAN, req => req2,
           From(p, fr, in, req)
    PROVE  From(p, gr, in, req2)
<1>1. PICK h \in Fns(p) : \E y \in Sites(p, h) :
          /\ in = At(p, h, y)
          /\ EntryCovered(p, <<h, y>>, "req") \/ h \in Dominated(p) => req
          /\ \A key \in Keys : QuietFrame(p, fr, key) => h \in SilentFns(p, key)
  BY DEF From
<1>2. PICK y \in Sites(p, h) :
          /\ in = At(p, h, y)
          /\ EntryCovered(p, <<h, y>>, "req") \/ h \in Dominated(p) => req
          /\ \A key \in Keys : QuietFrame(p, fr, key) => h \in SilentFns(p, key)
  BY <1>1
<1>3. \A key \in Keys : QuietFrame(p, gr, key) => h \in SilentFns(p, key)
  BY <1>2, SameQuiet
<1> QED
  BY <1>2, <1>3 DEF From

(* A frame stays one when it reaches, stands and defers as it may. *)
LEMMA FrameKept ==
    ASSUME NEW p, NEW req \in BOOLEAN, NEW req2 \in BOOLEAN, req => req2, NEW fr, FrameOK(p, fr, req),
           NEW gr \in FrameSet(p), SameCall(fr, gr), Placed(p, gr),
           "req" \in gr.got => req2, \A key \in Keys : QuietFrame(p, fr, key) => key \notin gr.got,
           \A i \in DOMAIN gr.defers : From(p, fr, gr.defers[i], req)
    PROVE  FrameOK(p, gr, req2)
<1>1. gr.fn = fr.fn /\ gr.before = fr.before
  BY DEF SameCall
<1>2. gr.before => req2
  BY <1>1 DEF FrameOK
<1>3. gr.fn \in Dominated(p) => gr.before
  BY <1>1 DEF FrameOK
<1>4. \A i \in DOMAIN gr.defers : From(p, gr, gr.defers[i], req2)
  BY FromKept
<1>5. \A key \in Keys : QuietFrame(p, gr, key) => key \notin gr.got
  BY SameQuiet
<1> QED
  BY <1>2, <1>3, <1>4, <1>5 DEF FrameOK

(* The frame on top changes, and nothing that was reached is lost. *)
LEMMA TopKept ==
    ASSUME NEW p, NEW req \in BOOLEAN, NEW s, Nested(p, s, req), s # <<>>,
           NEW gr, FrameOK(p, gr, req), SameCall(s[Len(s)], gr), gr.got = s[Len(s)].got
    PROVE  /\ Nested(p, [s EXCEPT ![Len(s)] = gr], req)
           /\ Len([s EXCEPT ![Len(s)] = gr]) = Len(s) /\ DOMAIN [s EXCEPT ![Len(s)] = gr] = DOMAIN s
<1> DEFINE n == Len(s)
           u == [s EXCEPT ![n] = gr]
<1>1. s \in Seq(FrameSet(p)) /\ DOMAIN s = 1..n /\ n \in Nat /\ n \in DOMAIN s
  BY DEF Nested
<1>2. gr \in FrameSet(p)
  BY DEF FrameOK
<1>3. u \in Seq(FrameSet(p)) /\ Len(u) = n /\ DOMAIN u = DOMAIN s
  BY <1>1, <1>2
<1>4. \A j \in DOMAIN u : u[j] = IF j = n THEN gr ELSE s[j]
  BY <1>1
<1> HIDE DEF n, u
<1>5. \A j \in DOMAIN u : FrameOK(p, u[j], req)
  BY <1>3, <1>4 DEF Nested
<1>6. \A j \in DOMAIN u : u[j].got = s[j].got /\ SameCall(s[j], u[j])
  BY <1>4 DEF n, SameCall
<1>7. \A j \in DOMAIN u : \A key \in Keys : QuietFrame(p, u[j], key) <=> QuietFrame(p, s[j], key)
  BY <1>6, SameQuiet
<1>8. \A j, k \in DOMAIN u : j < k => /\ u[k].got \subseteq u[j].got
                                      /\ \A key \in Keys : QuietFrame(p, u[j], key) => QuietFrame(p, u[k], key)
  BY <1>3, <1>6, <1>7 DEF Nested
<1> QED
  BY <1>3, <1>5, <1>8 DEF Nested, n, u

(* Targets are reached on behalf of every frame. *)
MarkAll(s, r) == [j \in DOMAIN s |-> [s[j] EXCEPT !.got = @ \cup r]]

(* Marking changes the frames, not the stack. *)
LEMMA MarkShape ==
    ASSUME NEW T, NEW s \in Seq(T), NEW r
    PROVE  /\ DOMAIN MarkAll(s, r) = DOMAIN s /\ Len(MarkAll(s, r)) = Len(s)
           /\ \A j \in DOMAIN s : MarkAll(s, r)[j] = Mark(s[j], r)
<1> DEFINE u == MarkAll(s, r)
<1>1. DOMAIN u = 1..Len(s) /\ Len(s) \in Nat
  BY DEF MarkAll
<1>2. \A j \in DOMAIN s : u[j] = Mark(s[j], r)
  BY DEF MarkAll, Mark
<1>3. u = [j \in 1..Len(s) |-> u[j]]
  BY <1>1 DEF MarkAll
<1> HIDE DEF u
<1>4. u \in Seq({u[j] : j \in DOMAIN u}) /\ Len(u) = Len(s)
  BY <1>1, <1>3
<1> QED
  BY <1>1, <1>2, <1>4 DEF u

(* The stack stays nested when none of its frames is quiet on the targets. *)
LEMMA MarkKept ==
    ASSUME NEW p, NEW req \in BOOLEAN, NEW req2 \in BOOLEAN, NEW s, Nested(p, s, req), s # <<>>,
           NEW r \in SUBSET Keys, req => req2, "req" \in r => req2,
           \A key \in r : ~QuietFrame(p, s[Len(s)], key)
    PROVE  Nested(p, MarkAll(s, r), req2)
<1> DEFINE u == MarkAll(s, r)
           n == Len(s)
<1>1. s \in Seq(FrameSet(p)) /\ DOMAIN s = 1..n /\ n \in Nat /\ n \in DOMAIN s
  BY DEF Nested
<1>2. /\ \A j \in DOMAIN s : s[j] \in FrameSet(p) /\ u[j] = Mark(s[j], r)
      /\ DOMAIN u = DOMAIN s /\ Len(u) = Len(s)
  BY <1>1, MarkShape
<1>3. \A j \in DOMAIN s : Mark(s[j], r) \in FrameSet(p) /\ SameCall(s[j], Mark(s[j], r))
  BY <1>2, MarkIs DEF SameCall
<1>4. u \in Seq(FrameSet(p)) /\ DOMAIN u = DOMAIN s /\ Len(u) = Len(s)
  <2>1. DOMAIN u = 1..n
    BY <1>1, <1>2
  <2>2. u = [j \in 1..n |-> u[j]]
    BY <1>1 DEF MarkAll
  <2> HIDE DEF u
  <2>3. u \in [1..n -> FrameSet(p)]
    BY <1>1, <1>2, <1>3, <2>1, <2>2
  <2> QED
    BY <1>1, <2>1, <2>3
<1> HIDE DEF u, n
<1>5. \A j \in DOMAIN u : \A key \in Keys : QuietFrame(p, u[j], key) <=> QuietFrame(p, s[j], key)
  BY <1>2, <1>3, <1>4, SameQuiet
<1>6. ASSUME NEW j \in DOMAIN s, NEW key \in r PROVE ~QuietFrame(p, s[j], key)
  <2>1. key \in Keys /\ ~QuietFrame(p, s[n], key)
    BY DEF n
  <2>2. j < n \/ j = n
    BY <1>1
  <2> QED
    BY <1>1, <2>1, <2>2 DEF Nested
<1>7. ASSUME NEW j \in DOMAIN s PROVE FrameOK(p, u[j], req2)
  <2> DEFINE fr == s[j]
             gr == Mark(s[j], r)
  <2>1. fr \in FrameSet(p) /\ gr \in FrameSet(p) /\ SameCall(fr, gr) /\ u[j] = gr /\ FrameOK(p, fr, req)
    BY <1>2, <1>3 DEF Nested
  <2>2. /\ gr.got = fr.got \cup r /\ gr.at = fr.at /\ gr.defers = fr.defers /\ gr.fn = fr.fn
        /\ gr.exiting = fr.exiting /\ gr.panicking = fr.panicking /\ gr.unwound = fr.unwound
        /\ gr.behalf = fr.behalf
    BY <2>1, MarkIs
  <2>3. \A key \in r : ~QuietFrame(p, fr, key)
    BY <1>6
  <2> HIDE DEF fr, gr
  <2>4. Placed(p, gr)
    BY <2>1, <2>2 DEF FrameOK, Placed
  <2>5. "req" \in gr.got => req2
    BY <2>1, <2>2 DEF FrameOK
  <2>6. \A key \in Keys : QuietFrame(p, fr, key) => key \notin gr.got
    BY <2>1, <2>2, <2>3 DEF FrameOK
  <2>7. \A i \in DOMAIN gr.defers : From(p, fr, gr.defers[i], req)
    BY <2>1, <2>2 DEF FrameOK
  <2> QED
    BY <2>1, <2>4, <2>5, <2>6, <2>7, FrameKept
<1>8. \A j, k \in DOMAIN u : j < k => /\ u[k].got \subseteq u[j].got
                                      /\ \A key \in Keys : QuietFrame(p, u[j], key) => QuietFrame(p, u[k], key)
  <2>1. \A j \in DOMAIN s : u[j].got = s[j].got \cup r
    BY <1>2, MarkIs
  <2> QED
    BY <1>4, <1>5, <2>1 DEF Nested
<1> QED
  BY <1>4, <1>7, <1>8 DEF Nested, u

(* A function is entered. *)
LEMMA PushKept ==
    ASSUME NEW p, NEW req \in BOOLEAN, NEW s, Nested(p, s, req), s # <<>>,
           NEW fr, FrameOK(p, fr, req), fr.got = {},
           \A key \in Keys : QuietFrame(p, s[Len(s)], key) => QuietFrame(p, fr, key)
    PROVE  Nested(p, Append(s, fr), req)
<1> DEFINE n == Len(s)
           u == Append(s, fr)
<1>1. s \in Seq(FrameSet(p)) /\ DOMAIN s = 1..n /\ n \in Nat /\ n \in DOMAIN s /\ fr \in FrameSet(p)
  BY DEF Nested, FrameOK
<1>2. u \in Seq(FrameSet(p)) /\ DOMAIN u = 1..(n + 1) /\ u[n + 1] = fr /\ \A j \in 1..n : u[j] = s[j]
  BY <1>1
<1> HIDE DEF n, u
<1>3. \A j \in 1..n, key \in Keys : QuietFrame(p, s[j], key) => QuietFrame(p, fr, key)
  <2>1. ASSUME NEW j \in 1..n, NEW key \in Keys, QuietFrame(p, s[j], key) PROVE QuietFrame(p, s[n], key)
    <3>1. j < n \/ j = n
      <4>1. n \in Nat
        BY <1>1
      <4> QED
        BY <4>1
    <3> QED
      BY <1>1, <2>1, <3>1 DEF Nested
  <2> QED
    BY <2>1 DEF n
<1>4. \A j \in DOMAIN u : FrameOK(p, u[j], req)
  BY <1>1, <1>2 DEF Nested
<1>5. ASSUME NEW j \in DOMAIN u, NEW k \in DOMAIN u, j < k
      PROVE  /\ u[k].got \subseteq u[j].got
             /\ \A key \in Keys : QuietFrame(p, u[j], key) => QuietFrame(p, u[k], key)
  <2>1. CASE k = n + 1
    <3>1. j \in 1..n
      BY <1>1, <1>2, <1>5, <2>1
    <3> QED
      BY <1>2, <1>3, <2>1, <3>1
  <2>2. CASE k # n + 1
    <3>1. j \in 1..n /\ k \in 1..n
      BY <1>1, <1>2, <1>5, <2>2
    <3> QED
      BY <1>1, <1>2, <1>5, <3>1 DEF Nested
  <2> QED
    BY <2>1, <2>2
<1> QED
  BY <1>2, <1>4, <1>5 DEF Nested, u

(* A frame is left. *)
LEMMA PopKept ==
    ASSUME NEW p, NEW req \in BOOLEAN, NEW s, Nested(p, s, req), s # <<>>
    PROVE  /\ Nested(p, SubSeq(s, 1, Len(s) - 1), req)
           /\ Len(SubSeq(s, 1, Len(s) - 1)) = Len(s) - 1
           /\ DOMAIN SubSeq(s, 1, Len(s) - 1) = 1..(Len(s) - 1)
           /\ \A j \in 1..(Len(s) - 1) : SubSeq(s, 1, Len(s) - 1)[j] = s[j]
<1> DEFINE n == Len(s)
           u == SubSeq(s, 1, n - 1)
<1>1. s \in Seq(FrameSet(p)) /\ DOMAIN s = 1..n /\ n \in Nat /\ n \in DOMAIN s
  BY DEF Nested
<1>2. u \in Seq(FrameSet(p)) /\ Len(u) = n - 1 /\ DOMAIN u = 1..(n - 1) /\ \A j \in 1..(n - 1) : u[j] = s[j]
  BY <1>1
<1>3. 1..(n - 1) \subseteq DOMAIN s
  BY <1>1
<1> HIDE DEF n, u
<1>4. Nested(p, u, req)
  BY <1>2, <1>3 DEF Nested
<1> QED
  BY <1>2, <1>4 DEF n, u

(* What is above a frame can only add to what is made for it. *)
LEMMA CreditMore ==
    ASSUME NEW p, NEW fr, NEW few, NEW many, few \subseteq many, Credit(p, fr, few)
    PROVE  Credit(p, fr, many)
<1>1. \A key, Stop : Made(p, fr, few, key, Stop) => Made(p, fr, many, key, Stop)
  BY DEF Made
<1> QED
  BY <1>1 DEF Credit

(* A target reached takes no credit away. *)
LEMMA CreditMarked ==
    ASSUME NEW p, NEW fr \in FrameSet(p), NEW r \in SUBSET Keys, NEW up, Credit(p, fr, up)
    PROVE  Credit(p, Mark(fr, r), up)
<1> DEFINE gr == Mark(fr, r)
<1>1. /\ gr.got = fr.got \cup r /\ gr.fn = fr.fn /\ gr.at = fr.at /\ gr.defers = fr.defers
      /\ gr.exiting = fr.exiting /\ gr.unwound = fr.unwound
  BY MarkIs
<1> HIDE DEF gr
<1>2. \A key, Stop : Made(p, fr, up, key, Stop) => Made(p, gr, up, key, Stop)
  BY <1>1 DEF Made
<1>3. Credit(p, gr, up)
  BY <1>1, <1>2 DEF Credit
<1> QED
  BY <1>3 DEF gr

(* A frame that is entered stands at the entry, with nothing passed. *)
LEMMA EnteringIs ==
    ASSUME NEW p, IsUnit(p), NEW c \in Fns(p), HasBody(p, c), NEW req \in BOOLEAN, c \in Dominated(p) => req
    PROVE  FrameOK(p, Entering(c, req), req) /\ Credit(p, Entering(c, req), {}) /\ Entering(c, req).got = {}
<1> DEFINE fr == Entering(c, req)
<1>1. /\ fr.fn = c /\ fr.at = <<1, 1>> /\ fr.defers = <<>> /\ fr.got = {} /\ fr.before = req
      /\ fr.exiting = FALSE /\ fr.panicking = FALSE /\ fr.unwound = FALSE /\ fr.behalf = {}
  BY DEF Entering
<1>2. fr \in FrameSet(p)
  <2>1. <<>> \in Seq(Instrs(p)) /\ <<1, 1>> \in Nat \X Nat
    OBVIOUS
  <2> QED
    BY <2>1 DEF Entering, FrameSet
<1>3. DOMAIN fr.defers = {}
  BY <1>1
<1> HIDE DEF fr
<1>4. Placed(p, fr)
  <2>1. 1 \in BlocksOf(p, c)
    BY EntryBlock DEF HasBody
  <2>2. IsSeq(Code(p, c, 1))
    BY <2>1 DEF IsUnit
  <2>3. 1 \in 1..(Len(Code(p, c, 1)) + 1)
    BY <2>2 DEF IsSeq
  <2> QED
    BY <1>1, <2>1, <2>3 DEF Placed
<1>5. FrameOK(p, fr, req)
  BY <1>1, <1>2, <1>3, <1>4 DEF FrameOK
<1>6. Credit(p, fr, {})
  <2>1. ASSUME NEW key \in Keys, NEW Stop \in SUBSET Covers(p, c, key) PROVE NotPast(p, c, Stop, <<1, 1>>)
    <3>1. Stop \in SUBSET Points(p, c)
      BY DEF Covers, Covering, Sites
    <3> QED
      BY <3>1, NotPastEntry
  <2> QED
    BY <1>1, <2>1 DEF Credit
<1> QED
  BY <1>1, <1>5, <1>6 DEF fr

(* A call begins: the frame that makes it is now gr, the targets of r are  *)
(* reached on the way, and the function of enter, if any, is entered.      *)
AfterCall(s, gr, r, enter, req) ==
    LET marked == MarkAll([s EXCEPT ![Len(s)] = gr], r)
    IN  IF enter = {} THEN marked ELSE Append(marked, Entering(CHOOSE g \in enter : TRUE, req))

(* What an outcome of a call made in a frame may be. *)
Fits(p, fr, r, enter, req) ==
    /\ r \in SUBSET Keys /\ \A key \in r : ~QuietFrame(p, fr, key)
    /\ "req" \in r => req
    /\ enter # {} => \E c \in Fns(p) :
          /\ enter = {c} /\ HasBody(p, c) /\ (c \in Dominated(p) => req)
          /\ \A key \in Keys : QuietFrame(p, fr, key) => c \in SilentFns(p, key)

(* The stack stays nested and credited over a call. *)
LEMMA CallKept ==
    ASSUME NEW p, IsUnit(p), NEW req \in BOOLEAN, NEW req2 \in BOOLEAN, req => req2,
           NEW s, Nested(p, s, req), Credits(p, s), s # <<>>,
           NEW gr, FrameOK(p, gr, req), SameCall(s[Len(s)], gr), gr.got = s[Len(s)].got,
           NEW r, NEW enter, Fits(p, gr, r, enter, req2), Credit(p, Mark(gr, r), enter)
    PROVE  Nested(p, AfterCall(s, gr, r, enter, req2), req2) /\ Credits(p, AfterCall(s, gr, r, enter, req2))
<1> DEFINE n == Len(s)
           u == [s EXCEPT ![n] = gr]
           m == MarkAll(u, r)
<1>1. s \in Seq(FrameSet(p)) /\ DOMAIN s = 1..n /\ n \in Nat /\ n \in DOMAIN s /\ gr \in FrameSet(p)
  BY DEF Nested, FrameOK
<1>2. Nested(p, u, req) /\ Len(u) = n /\ DOMAIN u = 1..n /\ u # <<>> /\ \A j \in 1..n : u[j] = IF j = n THEN gr ELSE s[j]
  <2>1. Nested(p, u, req) /\ Len(u) = n /\ DOMAIN u = DOMAIN s
    BY TopKept
  <2>2. \A j \in 1..n : u[j] = IF j = n THEN gr ELSE s[j]
    BY <1>1
  <2>3. u # <<>>
    <3> HIDE DEF u
    <3> QED
      BY <1>1, <2>1
  <2> QED
    BY <1>1, <2>1, <2>2, <2>3
<1>3. r \in SUBSET Keys /\ ("req" \in r => req2) /\ \A key \in r : ~QuietFrame(p, gr, key)
  BY DEF Fits
<1> HIDE DEF u
<1>4. u[Len(u)] = gr
  BY <1>1, <1>2
<1>5. /\ Nested(p, m, req2) /\ Len(m) = n /\ DOMAIN m = 1..n
      /\ \A j \in 1..n : m[j] = Mark(u[j], r)
  <2>1. Nested(p, u, req) /\ u # <<>> /\ Len(u) = n /\ DOMAIN u = 1..n
    BY <1>2
  <2>2. \A key \in r : ~QuietFrame(p, u[Len(u)], key)
    BY <1>3, <1>4
  <2>3. Nested(p, m, req2)
    BY <1>3, <2>1, <2>2, MarkKept
  <2>4. u \in Seq(FrameSet(p))
    BY <1>2 DEF Nested
  <2>5. Len(m) = Len(u) /\ DOMAIN m = DOMAIN u /\ \A j \in DOMAIN u : m[j] = Mark(u[j], r)
    BY <2>4, MarkShape
  <2> HIDE DEF m, n
  <2> QED
    BY <2>1, <2>3, <2>5
<1> HIDE DEF m, n
<1>6. m # <<>> /\ m[Len(m)] = Mark(gr, r) /\ n >= 1 /\ m \in Seq(FrameSet(p))
  BY <1>1, <1>2, <1>5 DEF Nested
<1>7. \A j \in 1..n : m[j].fn = s[j].fn
  <2>1. gr.fn = s[n].fn
    BY DEF SameCall, n
  <2>2. \A j \in 1..n : u[j] \in FrameSet(p) /\ u[j].fn = s[j].fn
    BY <1>1, <1>2, <2>1
  <2> QED
    BY <1>3, <1>5, <2>2, MarkIs
<1>8. \A j \in 1..(n - 1) : Credit(p, m[j], {m[j + 1].fn})
  <2>1. ASSUME NEW j \in 1..(n - 1) PROVE Credit(p, m[j], {m[j + 1].fn})
    <3>1. j \in 1..n /\ j + 1 \in 1..n /\ j # n
      BY <1>1
    <3>2. Credit(p, s[j], {s[j + 1].fn})
      BY <1>1, <3>1 DEF Credits, Above
    <3>3. m[j] = Mark(s[j], r) /\ s[j] \in FrameSet(p)
      BY <1>1, <1>2, <1>5, <3>1
    <3> QED
      BY <1>3, <1>7, <3>1, <3>2, <3>3, CreditMarked
  <2> QED
    BY <2>1
<1>9. CASE enter = {}
  <2>1. AfterCall(s, gr, r, enter, req2) = m
    BY <1>9 DEF AfterCall, m, u, n
  <2>2. ASSUME NEW j \in DOMAIN m PROVE Credit(p, m[j], Above(m, j))
    <3>1. CASE j = n
      <4>1. Above(m, j) = {} /\ m[j] = Mark(gr, r)
        BY <1>1, <1>5, <1>6, <3>1 DEF Above
      <4> QED
        BY <1>9, <4>1
    <3>2. CASE j # n
      <4>1. j \in 1..(n - 1) /\ j + 1 \in DOMAIN m
        BY <1>1, <1>5, <2>2, <3>2
      <4> QED
        BY <1>8, <4>1 DEF Above
    <3> QED
      BY <3>1, <3>2
  <2> QED
    BY <1>5, <2>1, <2>2 DEF Credits
<1>10. CASE enter # {}
  <2>1. PICK c \in Fns(p) :
            /\ enter = {c} /\ HasBody(p, c) /\ (c \in Dominated(p) => req2)
            /\ \A key \in Keys : QuietFrame(p, gr, key) => c \in SilentFns(p, key)
    BY <1>10 DEF Fits
  <2> DEFINE fr == Entering(c, req2)
             w == Append(m, fr)
  <2>2. AfterCall(s, gr, r, enter, req2) = w
    <3>1. (CHOOSE g \in enter : TRUE) = c
      BY <2>1
    <3> QED
      BY <1>10, <3>1 DEF AfterCall, m, u, n
  <2>3. FrameOK(p, fr, req2) /\ Credit(p, fr, {}) /\ fr.got = {}
    BY <2>1, EnteringIs
  <2>4. \A key \in Keys : QuietFrame(p, m[Len(m)], key) => QuietFrame(p, fr, key)
    <3>1. fr.fn = c
      BY DEF Entering
    <3>2. SameCall(gr, Mark(gr, r))
      BY <1>1, <1>3, MarkIs DEF SameCall
    <3> HIDE DEF fr
    <3>3. ASSUME NEW key \in Keys, QuietFrame(p, m[Len(m)], key) PROVE QuietFrame(p, fr, key)
      <4>1. QuietFrame(p, gr, key)
        BY <1>6, <3>2, <3>3, SameQuiet
      <4>2. c \in SilentFns(p, key)
        BY <2>1, <4>1
      <4> QED
        BY <3>1, <4>2 DEF QuietFrame
    <3> QED
      BY <3>3
  <2> HIDE DEF fr
  <2>5. Nested(p, w, req2)
    BY <1>5, <1>6, <2>3, <2>4, PushKept
  <2>6. DOMAIN w = 1..(n + 1) /\ w[n + 1] = fr /\ \A j \in 1..n : w[j] = m[j]
    BY <1>1, <1>5, <1>6
  <2>7. fr.fn = c
    BY DEF fr, Entering
  <2> HIDE DEF w
  <2>8. ASSUME NEW j \in DOMAIN w PROVE Credit(p, w[j], Above(w, j))
    <3>1. CASE j = n + 1
      <4>1. Above(w, j) = {}
        BY <1>1, <2>6, <3>1 DEF Above
      <4> QED
        BY <2>3, <2>6, <3>1, <4>1
    <3>2. CASE j = n
      <4>1. Above(w, j) = {c} /\ w[j] = Mark(gr, r)
        BY <1>1, <1>5, <1>6, <2>6, <2>7, <3>2 DEF Above
      <4> QED
        BY <2>1, <4>1
    <3>3. CASE j # n /\ j # n + 1
      <4>1. j \in 1..(n - 1) /\ j \in 1..n /\ j + 1 \in 1..n /\ j + 1 \in DOMAIN w
        BY <1>1, <2>6, <2>8, <3>3
      <4>2. Above(w, j) = {m[j + 1].fn} /\ w[j] = m[j]
        BY <2>6, <4>1 DEF Above
      <4> QED
        BY <1>8, <4>1, <4>2
    <3> QED
      BY <3>1, <3>2, <3>3
  <2> QED
    BY <2>2, <2>5, <2>8 DEF Credits
<1> QED
  BY <1>9, <1>10

-----------------------------------------------------------------------------
(* The outcomes of a call.                                                 *)

(* A visible callee; beyond the frontier, any targets or an unseen callee. *)
LEMMA OutcomesAre ==
    ASSUME NEW in, NEW o \in Outcomes(in)
    PROVE  \/ \E c \in Cands(prog, in) : o = [enter |-> {c}, reach |-> in.tags \cap Keys]
           \/ /\ Frontier(prog, in)
              /\ \/ \E k \in {{}, Keys} : o = [enter |-> {}, reach |-> (in.tags \cap Keys) \cup k]
                 \/ \E g \in Unseen(in) : o = [enter |-> {g}, reach |-> in.tags \cap Keys]
BY DEF Outcomes

(* An unseen callee is dispatched to or has its address taken, so that its *)
(* entry is not said to be covered; a visible one is covered by its site.  *)
LEMMA EnteredRight ==
    ASSUME NEW req \in BOOLEAN, NEW fr, NEW in, From(prog, fr, in, req),
           NEW c \in Dominated(prog),
           c \in Cands(prog, in) \/ (Frontier(prog, in) /\ c \in Unseen(in))
    PROVE  req
<1>1. PICK h \in Fns(prog) : \E y \in Sites(prog, h) :
          /\ in = At(prog, h, y)
          /\ EntryCovered(prog, <<h, y>>, "req") \/ h \in Dominated(prog) => req
  BY DEF From
<1>2. PICK y \in Sites(prog, h) :
          /\ in = At(prog, h, y)
          /\ EntryCovered(prog, <<h, y>>, "req") \/ h \in Dominated(prog) => req
  BY <1>1
<1>3. EntriesGood(prog, c, "req", Dominated(prog))
  BY DominatedIs
<1>4. CASE c \in Cands(prog, in)
  <2>1. <<h, y>> \in Entries(prog, c)
    BY <1>2, <1>4 DEF Entries
  <2>2. EntryCovered(prog, <<h, y>>, "req") \/ h \in Dominated(prog)
    BY <1>3, <2>1 DEF EntriesGood
  <2> QED
    BY <1>2, <2>2
<1>5. CASE Frontier(prog, in) /\ c \in Unseen(in)
  <2>1. CASE in.invoke # ""
    <3>1. prog[c].method = in.invoke
      BY <1>5, <2>1 DEF Unseen
    <3>2. DynamicInvokeName(prog, prog[c].method)
      BY <1>2, <1>5, <3>1 DEF DynamicInvokeName
    <3> QED
      BY <1>3, <2>1, <3>1, <3>2 DEF EntriesGood
  <2>2. CASE in.invoke = ""
    <3>1. AddressTaken(prog, c)
      BY <1>5, <2>2 DEF Unseen, AddressTaken
    <3> QED
      BY <1>3, <3>1 DEF EntriesGood
  <2> QED
    BY <2>1, <2>2
<1> QED
  BY <1>4, <1>5

(* An outcome of a pending call may happen in the frame it is pending in. *)
LEMMA OutcomeFits ==
    ASSUME NEW req \in BOOLEAN, NEW req2 \in BOOLEAN, NEW fr, NEW in, From(prog, fr, in, req),
           NEW o \in Outcomes(in), req => req2, "req" \in o.reach => req2
    PROVE  Fits(prog, fr, o.reach, o.enter, req2)
<1>1. PICK h \in Fns(prog) : \E y \in Sites(prog, h) :
          /\ in = At(prog, h, y)
          /\ \A key \in Keys : QuietFrame(prog, fr, key) => h \in SilentFns(prog, key)
  BY DEF From
<1>2. PICK y \in Sites(prog, h) :
          /\ in = At(prog, h, y)
          /\ \A key \in Keys : QuietFrame(prog, fr, key) => h \in SilentFns(prog, key)
  BY <1>1
<1>3. \A key \in Keys : QuietFrame(prog, fr, key) =>
          key \notin in.tags /\ ~Frontier(prog, in) /\ Cands(prog, in) \subseteq SilentFns(prog, key)
  BY <1>2, SilentCalls
<1>4. CASE \E c \in Cands(prog, in) : o = [enter |-> {c}, reach |-> in.tags \cap Keys]
  <2>1. PICK c \in Cands(prog, in) : o = [enter |-> {c}, reach |-> in.tags \cap Keys]
    BY <1>4
  <2>2. c \in Fns(prog) /\ HasBody(prog, c)
    BY DEF Cands, HasBody
  <2>3. c \in Dominated(prog) => req2
    BY EnteredRight
  <2>4. o.enter = {c} /\ o.reach = in.tags \cap Keys
    BY <2>1
  <2>5. \A key \in Keys : QuietFrame(prog, fr, key) => c \in SilentFns(prog, key)
    BY <1>3
  <2>6. \A key \in o.reach : ~QuietFrame(prog, fr, key)
    BY <1>3, <2>4
  <2> QED
    BY <2>2, <2>3, <2>4, <2>5, <2>6 DEF Fits
<1>5. CASE Frontier(prog, in) /\ \E k \in {{}, Keys} : o = [enter |-> {}, reach |-> (in.tags \cap Keys) \cup k]
  <2>1. o.enter = {} /\ o.reach \in SUBSET Keys
    BY <1>5
  <2>2. \A key \in Keys : ~QuietFrame(prog, fr, key)
    BY <1>3, <1>5
  <2> QED
    BY <2>1, <2>2 DEF Fits
<1>6. CASE Frontier(prog, in) /\ \E g \in Unseen(in) : o = [enter |-> {g}, reach |-> in.tags \cap Keys]
  <2>1. PICK g \in Unseen(in) : o = [enter |-> {g}, reach |-> in.tags \cap Keys]
    BY <1>6
  <2>2. g \in Fns(prog) /\ HasBody(prog, g)
    BY DEF Unseen
  <2>3. g \in Dominated(prog) => req2
    BY <1>6, EnteredRight
  <2>4. o.enter = {g} /\ o.reach = in.tags \cap Keys
    BY <2>1
  <2>5. \A key \in Keys : ~QuietFrame(prog, fr, key)
    BY <1>3, <1>6
  <2> QED
    BY <2>2, <2>3, <2>4, <2>5 DEF Fits
<1> QED
  BY <1>4, <1>5, <1>6, OutcomesAre

(* A call that covers makes the call to the target, or enters a function   *)
(* that will.                                                              *)
LEMMA OutcomeReaches ==
    ASSUME NEW in, NEW o \in Outcomes(in), NEW key \in Keys,
           Hits(in, key) \/ Credited(prog, in, Sure(prog, key))
    PROVE  key \in o.reach \/ o.enter \cap Sure(prog, key) # {}
<1>1. CASE Hits(in, key)
  <2>1. key \in in.tags \cap Keys
    BY <1>1 DEF Hits
  <2>2. in.tags \cap Keys \subseteq o.reach
    BY OutcomesAre
  <2> QED
    BY <2>1, <2>2
<1>2. CASE Credited(prog, in, Sure(prog, key))
  <2>1. PICK c \in Cands(prog, in) : o = [enter |-> {c}, reach |-> in.tags \cap Keys]
    BY <1>2, OutcomesAre DEF Credited
  <2>2. c \in Sure(prog, key) /\ o.enter = {c}
    BY <1>2, <2>1 DEF Credited
  <2> QED
    BY <2>2
<1> QED
  BY <1>1, <1>2

-----------------------------------------------------------------------------
(* The frame that runs.                                                    *)

(* Only the place changes. *)
LEMMA AdvanceIs ==
    ASSUME NEW p, NEW fr \in FrameSet(p)
    PROVE  /\ Advance(fr) \in FrameSet(p) /\ SameCall(fr, Advance(fr))
           /\ Advance(fr).at = <<fr.at[1], fr.at[2] + 1>>
           /\ Advance(fr).got = fr.got /\ Advance(fr).defers = fr.defers
           /\ Advance(fr).exiting = fr.exiting /\ Advance(fr).panicking = fr.panicking
           /\ Advance(fr).unwound = fr.unwound
<1>1. fr.at = <<fr.at[1], fr.at[2]>> /\ fr.at[1] \in Nat /\ fr.at[2] \in Nat
  BY DEF FrameSet
<1> DEFINE a == <<fr.at[1], fr.at[2] + 1>>
<1>2. a \in Nat \X Nat
  BY <1>1
<1>3. Advance(fr) = [fr EXCEPT !.at = a]
  BY <1>1 DEF Advance, FrameSet
<1> HIDE DEF a
<1>4. /\ Advance(fr) \in FrameSet(p) /\ SameCall(fr, Advance(fr)) /\ Advance(fr).at = a
      /\ Advance(fr).got = fr.got /\ Advance(fr).defers = fr.defers
      /\ Advance(fr).exiting = fr.exiting /\ Advance(fr).panicking = fr.panicking
      /\ Advance(fr).unwound = fr.unwound
  BY <1>2, <1>3 DEF FrameSet, SameCall
<1> QED
  BY <1>4 DEF a

(* A frame that runs is of a function with a body, and what it stands      *)
(* before is an instruction of it.                                         *)
LEMMA StandsAt ==
    ASSUME IsUnit(prog), NEW req, NEW fr, FrameOK(prog, fr, req), ~fr.exiting
    PROVE  /\ fr.fn \in Fns(prog) /\ HasBody(prog, fr.fn) /\ fr.behalf = {} /\ fr.exiting = FALSE
           /\ fr.at \in Nat \X Nat /\ fr.at[1] \in BlocksOf(prog, fr.fn) /\ fr.at[2] >= 1 /\ fr.unwound = FALSE
           /\ DOMAIN Code(prog, fr.fn, fr.at[1]) = 1..Len(Code(prog, fr.fn, fr.at[1]))
           /\ Len(Code(prog, fr.fn, fr.at[1])) \in Nat
           /\ fr.at[2] \in 1..(Len(Code(prog, fr.fn, fr.at[1])) + 1)
           /\ AtPoint(fr) => fr.at \in Points(prog, fr.fn)
           /\ AtPoint(fr) /\ InstrOf(fr).op \in SiteOps => fr.at \in Sites(prog, fr.fn)
<1>1. fr \in FrameSet(prog) /\ Placed(prog, fr)
  BY DEF FrameOK
<1>2. fr.fn \in Fns(prog) /\ fr.at \in Nat \X Nat /\ fr.exiting = FALSE /\ fr.unwound = FALSE
  BY <1>1 DEF Placed, FrameSet
<1>3. /\ fr.behalf = {} /\ fr.at[1] \in BlocksOf(prog, fr.fn)
      /\ fr.at[2] \in 1..(Len(Code(prog, fr.fn, fr.at[1])) + 1)
  BY <1>1, <1>2 DEF Placed
<1>4. IsSeq(Code(prog, fr.fn, fr.at[1]))
  BY <1>2, <1>3 DEF IsUnit
<1>5. /\ DOMAIN Code(prog, fr.fn, fr.at[1]) = 1..Len(Code(prog, fr.fn, fr.at[1]))
      /\ Len(Code(prog, fr.fn, fr.at[1])) \in Nat
  BY <1>4 DEF IsSeq
<1>6. HasBody(prog, fr.fn)
  <2>1. ASSUME prog[fr.fn].blocks = <<>> PROVE FALSE
    BY <1>3, <2>1 DEF BlocksOf
  <2> QED
    BY <1>2, <2>1 DEF HasBody
<1>7. AtPoint(fr) => fr.at \in Points(prog, fr.fn)
  <2> DEFINE W == {<<fr.at[1], i>> : i \in DOMAIN Code(prog, fr.fn, fr.at[1])}
  <2>1. fr.at = <<fr.at[1], fr.at[2]>>
    BY <1>2
  <2>2. AtPoint(fr) => fr.at \in W
    BY <2>1 DEF AtPoint
  <2>3. W \subseteq Points(prog, fr.fn)
    BY <1>3 DEF Points
  <2> QED
    BY <2>2, <2>3
<1>8. AtPoint(fr) /\ InstrOf(fr).op \in SiteOps => fr.at \in Sites(prog, fr.fn)
  BY <1>7 DEF InstrOf, Sites
<1>9. fr.at[2] >= 1
  BY <1>3, <1>5
<1> QED
  BY <1>2, <1>3, <1>5, <1>6, <1>7, <1>8, <1>9

(* Where a frame runs, a plain call that must come first has been made, or *)
(* the walk that stops there comes here.                                   *)
LEMMA RunsBehind ==
    ASSUME NEW p, NEW fr, fr.fn \in Fns(p), Credit(p, fr, {}), ~fr.exiting, NEW key \in Keys,
           NEW Stop \in SUBSET RequireSites(p, fr.fn, key)
    PROVE  key \in fr.got \/ NotPast(p, fr.fn, Stop, fr.at)
<1>1. Stop \in SUBSET Covers(p, fr.fn, key)
  BY RequiresCover
<1>2. NotPast(p, fr.fn, Stop, fr.at) \/ Made(p, fr, {}, key, Stop)
  BY <1>1 DEF Credit
<1>3. \A y \in Stop : At(p, fr.fn, y).op = "call"
  BY DEF RequireSites
<1> QED
  BY <1>2, <1>3 DEF Made

(* entryCovered: the require has run where a covered call is made. *)
LEMMA CoveredRan ==
    ASSUME IsUnit(prog), NEW req \in BOOLEAN, NEW fr, FrameOK(prog, fr, req), Credit(prog, fr, {}), ~fr.exiting,
           EntryCovered(prog, <<fr.fn, fr.at>>, "req")
    PROVE  req
<1> DEFINE Stop == RequireSites(prog, fr.fn, "req")
<1>1. fr.fn \in Fns(prog)
  BY StandsAt
<1>2. "req" \in fr.got \/ NotPast(prog, fr.fn, Stop, fr.at)
  BY <1>1, RunsBehind DEF Keys
<1>3. ASSUME NotPast(prog, fr.fn, Stop, fr.at) PROVE FALSE
  <2>1. PICK i \in 1..(fr.at[2] - 1) : <<fr.at[1], i>> \in Stop
    BY <1>3 DEF EntryCovered, NotPast
  <2>2. i >= fr.at[2]
    <3> HIDE DEF Stop
    <3> QED
      BY <1>3, <2>1 DEF NotPast
  <2>3. fr.at[2] \in Nat
    BY DEF FrameOK, FrameSet
  <2> QED
    BY <2>1, <2>2, <2>3
<1> QED
  BY <1>2, <1>3 DEF FrameOK

(* The call a frame stands before is one it may have pending. *)
LEMMA SiteFrom ==
    ASSUME IsUnit(prog), NEW req \in BOOLEAN, NEW fr, FrameOK(prog, fr, req), Credit(prog, fr, {}), ~fr.exiting,
           AtPoint(fr), InstrOf(fr).op \in SiteOps
    PROVE  From(prog, fr, InstrOf(fr), req)
<1>1. fr.fn \in Fns(prog) /\ fr.at \in Sites(prog, fr.fn) /\ fr.behalf = {}
  BY StandsAt
<1>2. InstrOf(fr) = At(prog, fr.fn, fr.at)
  BY DEF InstrOf
<1>3. EntryCovered(prog, <<fr.fn, fr.at>>, "req") => req
  BY CoveredRan
<1>4. fr.fn \in Dominated(prog) => req
  BY DEF FrameOK
<1>5. \A key \in Keys : QuietFrame(prog, fr, key) => fr.fn \in SilentFns(prog, key)
  BY <1>1 DEF QuietFrame
<1> QED
  BY <1>1, <1>2, <1>3, <1>4, <1>5 DEF From

(* A frame goes on past an instruction; when that was a stop, the call to  *)
(* the target is made.                                                     *)
LEMMA GoesOn ==
    ASSUME IsUnit(prog), NEW req, NEW fr, FrameOK(prog, fr, req), Credit(prog, fr, {}), ~fr.exiting,
           NEW gr, NEW up, gr.fn = fr.fn, gr.at = <<fr.at[1], fr.at[2] + 1>>, gr.exiting = FALSE,
           fr.got \subseteq gr.got,
           \A i \in DOMAIN fr.defers : \E k \in DOMAIN gr.defers : gr.defers[k] = fr.defers[i],
           \A key \in Keys : \A Stop \in SUBSET Covers(prog, fr.fn, key) :
               fr.at \in Stop => Made(prog, gr, up, key, Stop)
    PROVE  Credit(prog, gr, up)
<1>1. /\ fr.fn \in Fns(prog) /\ fr.at \in Nat \X Nat
  BY StandsAt
<1>2. ASSUME NEW key \in Keys, NEW Stop \in SUBSET Covers(prog, fr.fn, key)
      PROVE  NotPast(prog, gr.fn, Stop, gr.at) \/ Made(prog, gr, up, key, Stop)
  <2>1. Stop \in SUBSET Points(prog, fr.fn)
    BY DEF Covers, Covering, Sites
  <2>2. NotPast(prog, fr.fn, Stop, fr.at) \/ Made(prog, fr, {}, key, Stop)
    BY <1>1 DEF Credit
  <2>3. CASE fr.at \in Stop
    BY <2>3
  <2>4. CASE fr.at \notin Stop /\ NotPast(prog, fr.fn, Stop, fr.at)
    <3>1. NotPast(prog, fr.fn, Stop, <<fr.at[1], fr.at[2] + 1>>)
      BY <1>1, <2>1, <2>4, NotPastNext
    <3> QED
      BY <3>1
  <2>5. CASE Made(prog, fr, {}, key, Stop)
    BY <2>5 DEF Made
  <2> QED
    BY <2>2, <2>3, <2>4, <2>5
<1> QED
  BY <1>2 DEF Credit

(* A covering site reaches the target by what it calls. *)
LEMMA CoversIs ==
    ASSUME NEW p, NEW f, NEW key, NEW x \in Covers(p, f, key)
    PROVE  /\ x \in Sites(p, f) /\ CoveringOp(At(p, f, x))
           /\ Hits(At(p, f, x), key) \/ Credited(p, At(p, f, x), Sure(p, key))
BY DEF Covers, Covering

(* The credit of a frame whose call begins. *)
LEMMA CallCredit ==
    ASSUME IsUnit(prog), NEW req, NEW fr, FrameOK(prog, fr, req), Credit(prog, fr, {}), ~fr.exiting,
           NEW o \in Outcomes(InstrOf(fr)), o.reach \in SUBSET Keys
    PROVE  Credit(prog, Mark(Advance(fr), o.reach), o.enter)
<1> DEFINE gr == Mark(Advance(fr), o.reach)
<1>1. fr \in FrameSet(prog) /\ fr.exiting = FALSE
  BY StandsAt DEF FrameOK
<1>2. /\ Advance(fr) \in FrameSet(prog) /\ Advance(fr).fn = fr.fn
      /\ Advance(fr).at = <<fr.at[1], fr.at[2] + 1>> /\ Advance(fr).exiting = FALSE
      /\ Advance(fr).got = fr.got /\ Advance(fr).defers = fr.defers
  BY <1>1, AdvanceIs DEF SameCall
<1>3. /\ gr.fn = fr.fn /\ gr.at = <<fr.at[1], fr.at[2] + 1>> /\ gr.exiting = FALSE
      /\ gr.got = fr.got \cup o.reach /\ gr.defers = fr.defers
  BY <1>2, MarkIs
<1> HIDE DEF gr
<1>4. ASSUME NEW key \in Keys, NEW Stop \in SUBSET Covers(prog, fr.fn, key), fr.at \in Stop
      PROVE  Made(prog, gr, o.enter, key, Stop)
  <2>1. Hits(InstrOf(fr), key) \/ Credited(prog, InstrOf(fr), Sure(prog, key))
    BY <1>4, CoversIs DEF InstrOf
  <2>2. key \in o.reach \/ o.enter \cap Sure(prog, key) # {}
    BY <2>1, OutcomeReaches
  <2> QED
    BY <1>3, <2>2 DEF Made
<1>5. Credit(prog, gr, o.enter)
  BY <1>3, <1>4, GoesOn
<1> QED
  BY <1>5 DEF gr

(* What a plain instruction leaves behind is a frame. *)
LEMMA AdvanceOK ==
    ASSUME IsUnit(prog), NEW req \in BOOLEAN, NEW fr, FrameOK(prog, fr, req), ~fr.exiting, AtPoint(fr)
    PROVE  FrameOK(prog, Advance(fr), req)
<1>1. fr \in FrameSet(prog) /\ fr.exiting = FALSE
  BY StandsAt DEF FrameOK
<1>2. /\ fr.fn \in Fns(prog) /\ fr.behalf = {} /\ fr.at[1] \in BlocksOf(prog, fr.fn) /\ fr.unwound = FALSE
      /\ fr.at[2] \in 1..Len(Code(prog, fr.fn, fr.at[1])) /\ Len(Code(prog, fr.fn, fr.at[1])) \in Nat
  BY StandsAt DEF AtPoint
<1> DEFINE gr == Advance(fr)
<1>3. /\ gr \in FrameSet(prog) /\ SameCall(fr, gr) /\ gr.at = <<fr.at[1], fr.at[2] + 1>>
      /\ gr.got = fr.got /\ gr.defers = fr.defers /\ gr.exiting = fr.exiting /\ gr.unwound = fr.unwound
      /\ gr.panicking = fr.panicking
  BY <1>1, AdvanceIs
<1> HIDE DEF gr
<1>4. gr.at[2] \in 1..(Len(Code(prog, fr.fn, fr.at[1])) + 1) /\ gr.at[1] = fr.at[1]
  BY <1>2, <1>3
<1>5. Placed(prog, gr)
  BY <1>2, <1>3, <1>4 DEF Placed, SameCall
<1>6. "req" \in gr.got => req
  BY <1>3 DEF FrameOK
<1>7. \A key \in Keys : QuietFrame(prog, fr, key) => key \notin gr.got
  BY <1>3 DEF FrameOK
<1>8. \A i \in DOMAIN gr.defers : From(prog, fr, gr.defers[i], req)
  BY <1>3 DEF FrameOK
<1>9. FrameOK(prog, gr, req)
  BY <1>3, <1>5, <1>6, <1>7, <1>8, FrameKept
<1> QED
  BY <1>9 DEF gr

-----------------------------------------------------------------------------
(* The state.                                                              *)

(* A thread with something on its stack. *)
LEMMA ThreadIs ==
    ASSUME RunIInv, NEW t \in DOMAIN threads, threads[t] # <<>>
    PROVE  /\ prog # NoProgram /\ IsUnit(prog) /\ required \in BOOLEAN
           /\ Nested(prog, threads[t], required) /\ Credits(prog, threads[t])
           /\ DOMAIN threads[t] = 1..Len(threads[t]) /\ Len(threads[t]) \in Nat /\ Len(threads[t]) >= 1
           /\ FrameOK(prog, Top(t), required) /\ Credit(prog, Top(t), {}) /\ Top(t) \in FrameSet(prog)
<1>1. prog # NoProgram
  BY DEF RunIInv
<1>2. /\ IsUnit(prog) /\ required \in BOOLEAN /\ Nested(prog, threads[t], required) /\ Credits(prog, threads[t])
  BY <1>1, UnitsOK DEF RunIInv
<1>3. threads[t] \in Seq(FrameSet(prog))
  BY <1>2 DEF Nested
<1>4. /\ DOMAIN threads[t] = 1..Len(threads[t]) /\ Len(threads[t]) \in Nat /\ Len(threads[t]) >= 1
  BY <1>3
<1>5. Len(threads[t]) \in DOMAIN threads[t] /\ Len(threads[t]) + 1 \notin DOMAIN threads[t]
  BY <1>4
<1>6. FrameOK(prog, Top(t), required)
  BY <1>2, <1>5 DEF Nested, Top
<1>7. Credit(prog, Top(t), {})
  BY <1>2, <1>5 DEF Credits, Above, Top
<1> QED
  BY <1>1, <1>2, <1>4, <1>6, <1>7 DEF FrameOK

(* A stack stays nested when the require runs elsewhere. *)
LEMMA NestedMore ==
    ASSUME NEW p, NEW req \in BOOLEAN, NEW req2 \in BOOLEAN, req => req2, NEW s, Nested(p, s, req)
    PROVE  Nested(p, s, req2)
<1>1. ASSUME NEW j \in DOMAIN s PROVE FrameOK(p, s[j], req2)
  <2>1. FrameOK(p, s[j], req) /\ SameCall(s[j], s[j])
    BY DEF Nested, SameCall
  <2>2. s[j] \in FrameSet(p) /\ Placed(p, s[j])
    BY <2>1 DEF FrameOK
  <2>3. "req" \in s[j].got => req2
    BY <2>1 DEF FrameOK
  <2>4. /\ \A key \in Keys : QuietFrame(p, s[j], key) => key \notin s[j].got
        /\ \A i \in DOMAIN s[j].defers : From(p, s[j], s[j].defers[i], req)
    BY <2>1 DEF FrameOK
  <2> QED
    BY <2>1, <2>2, <2>3, <2>4, FrameKept
<1> QED
  BY <1>1 DEF Nested

(* A step of one thread. *)
LEMMA ThreadKept ==
    ASSUME RunIInv, NEW t \in DOMAIN threads, prog # NoProgram, required' \in BOOLEAN, required => required',
           NEW s, Nested(prog, s, required'), Credits(prog, s),
           threads' = [threads EXCEPT ![t] = s], UNCHANGED <<prog, report, nev, disch>>
    PROVE  RunIInv'
<1>1. threads \in Seq(Seq(FrameSet(prog))) /\ s \in Seq(FrameSet(prog))
  BY DEF RunIInv, Nested
<1>2. threads' \in Seq(Seq(FrameSet(prog))) /\ DOMAIN threads' = DOMAIN threads
  BY <1>1
<1>3. ASSUME NEW u \in DOMAIN threads PROVE Nested(prog, threads'[u], required') /\ Credits(prog, threads'[u])
  <2>1. CASE u = t
    BY <2>1
  <2>2. CASE u # t
    <3>1. threads'[u] = threads[u] /\ Nested(prog, threads[u], required) /\ Credits(prog, threads[u])
      BY <2>2 DEF RunIInv
    <3>2. required \in BOOLEAN
      BY DEF RunIInv
    <3> QED
      BY <3>1, <3>2, NestedMore
  <2> QED
    BY <2>1, <2>2
<1>4. prog' = prog /\ report' = report /\ MemoOK'
  BY DEF RunIInv, MemoOK
<1> QED
  BY <1>2, <1>3, <1>4 DEF RunIInv

-----------------------------------------------------------------------------
(* The steps of a goroutine.                                               *)

(* A frame that is entered when the require has run, or not. *)
LEMMA FrameIs ==
    ASSUME NEW c, NEW r
    PROVE  [Frame(c) EXCEPT !.before = r] = Entering(c, r)
<1> DEFINE R == [fn : {c}, at : {<<1, 1>>}, defers : {<<>>}, got : {{}}, before : {required, r},
                 exiting : {FALSE}, panicking : {FALSE}, unwound : {FALSE}, behalf : {{}}]
           g == Frame(c)
           h == Entering(c, r)
           k == [g EXCEPT !.before = r]
<1>1. g \in R
  BY DEF Frame
<1>2. h \in R /\ h.before = r
  BY DEF Entering
<1> HIDE DEF g, h
<1>3. k \in R /\ k.before = r
  BY <1>1
<1>4. ASSUME NEW u \in R, NEW v \in R, u.before = v.before PROVE u = v
  <2>1. /\ u.fn = v.fn /\ u.at = v.at /\ u.defers = v.defers /\ u.got = v.got /\ u.exiting = v.exiting
        /\ u.panicking = v.panicking /\ u.unwound = v.unwound /\ u.behalf = v.behalf
    OBVIOUS
  <2> QED
    BY <1>4, <2>1
<1> HIDE DEF R, k
<1>5. k = h
  BY <1>2, <1>3, <1>4
<1> QED
  BY <1>5 DEF g, h, k

(* What a call does to the stack. *)
LEMMA PerformIs ==
    ASSUME NEW t, NEW gr, NEW o, Perform(t, SetTop(t, gr), o)
    PROVE  /\ required' = (required \/ "req" \in o.reach)
           /\ threads' = [threads EXCEPT ![t] = AfterCall(threads[t], gr, o.reach, o.enter, required')]
           /\ UNCHANGED <<prog, report, nev, disch>>
<1>1. \A c : [Frame(c) EXCEPT !.before = required'] = Entering(c, required')
  BY FrameIs
<1> QED
  BY <1>1 DEF Perform, SetTop, AfterCall, MarkAll

(* A call that a frame makes, or that it had deferred. *)
LEMMA CallStep ==
    ASSUME RunIInv, NEW t \in DOMAIN threads, threads[t] # <<>>,
           NEW gr, FrameOK(prog, gr, required), SameCall(Top(t), gr), gr.got = Top(t).got,
           NEW in, From(prog, Top(t), in, required), NEW o \in Outcomes(in),
           Credit(prog, Mark(gr, o.reach), o.enter), Perform(t, SetTop(t, gr), o)
    PROVE  RunIInv'
<1>1. /\ prog # NoProgram /\ IsUnit(prog) /\ required \in BOOLEAN
      /\ Nested(prog, threads[t], required) /\ Credits(prog, threads[t])
  BY ThreadIs
<1>2. /\ required' = (required \/ "req" \in o.reach)
      /\ threads' = [threads EXCEPT ![t] = AfterCall(threads[t], gr, o.reach, o.enter, required')]
      /\ UNCHANGED <<prog, report, nev, disch>>
  BY PerformIs
<1>3. required' \in BOOLEAN /\ (required => required') /\ ("req" \in o.reach => required')
  BY <1>1, <1>2
<1>4. From(prog, gr, in, required)
  BY <1>1, FromKept
<1>5. Fits(prog, gr, o.reach, o.enter, required')
  BY <1>1, <1>3, <1>4, OutcomeFits
<1>6. SameCall(threads[t][Len(threads[t])], gr) /\ gr.got = threads[t][Len(threads[t])].got
  BY DEF Top
<1>7. /\ Nested(prog, AfterCall(threads[t], gr, o.reach, o.enter, required'), required')
      /\ Credits(prog, AfterCall(threads[t], gr, o.reach, o.enter, required'))
  BY <1>1, <1>3, <1>5, <1>6, CallKept
<1> QED
  BY <1>1, <1>2, <1>3, <1>7, ThreadKept

(* A plain call. *)
LEMMA CallOK ==
    ASSUME RunIInv, NEW t \in DOMAIN threads, RunCall(t)
    PROVE  RunIInv'
<1>1. threads[t] # <<>> /\ ~Top(t).exiting /\ AtPoint(Top(t)) /\ InstrOf(Top(t)).op \in SiteOps
  BY DEF RunCall, Running, SiteOps
<1>2. /\ IsUnit(prog) /\ required \in BOOLEAN
      /\ FrameOK(prog, Top(t), required) /\ Credit(prog, Top(t), {}) /\ Top(t) \in FrameSet(prog)
  BY <1>1, ThreadIs
<1>3. PICK o \in Outcomes(InstrOf(Top(t))) : Perform(t, SetTop(t, Advance(Top(t))), o)
  BY DEF RunCall
<1>4. From(prog, Top(t), InstrOf(Top(t)), required)
  BY <1>1, <1>2, SiteFrom
<1>5. /\ FrameOK(prog, Advance(Top(t)), required) /\ SameCall(Top(t), Advance(Top(t)))
      /\ Advance(Top(t)).got = Top(t).got
  BY <1>1, <1>2, AdvanceOK, AdvanceIs
<1>6. o.reach \in SUBSET Keys
  BY OutcomesAre
<1>7. Credit(prog, Mark(Advance(Top(t)), o.reach), o.enter)
  BY <1>1, <1>2, <1>6, CallCredit
<1> QED
  BY <1>1, <1>3, <1>4, <1>5, <1>7, CallStep

(* Only the frame on top changes. *)
LEMMA TopCredits ==
    ASSUME NEW p, NEW req \in BOOLEAN, NEW s, Nested(p, s, req), s # <<>>,
           \A j \in DOMAIN s : j # Len(s) => Credit(p, s[j], Above(s, j)),
           NEW gr, FrameOK(p, gr, req), SameCall(s[Len(s)], gr), gr.got = s[Len(s)].got, Credit(p, gr, {})
    PROVE  /\ Nested(p, [s EXCEPT ![Len(s)] = gr], req)
           /\ Credits(p, [s EXCEPT ![Len(s)] = gr])
<1> DEFINE w == [s EXCEPT ![Len(s)] = gr]
<1>1. s \in Seq(FrameSet(p))
  BY DEF Nested
<1>2. DOMAIN s = 1..Len(s) /\ Len(s) \in Nat /\ Len(s) >= 1
  BY <1>1
<1>3. Nested(p, w, req) /\ DOMAIN w = DOMAIN s
  BY TopKept
<1>4. ASSUME NEW j \in DOMAIN w PROVE Credit(p, w[j], Above(w, j))
  <2>1. CASE j = Len(s)
    <3>1. j + 1 \notin DOMAIN w
      BY <1>2, <1>3, <2>1
    <3>2. Above(w, j) = {}
      BY <3>1 DEF Above
    <3>3. w[j] = gr
      BY <1>2, <2>1
    <3> QED
      BY <3>2, <3>3
  <2>2. CASE j # Len(s)
    <3>1. j \in DOMAIN s /\ j + 1 \in DOMAIN s /\ j + 1 \in DOMAIN w /\ w[j] = s[j]
      BY <1>2, <1>3, <1>4, <2>2
    <3>2. w[j + 1].fn = s[j + 1].fn
      <4>1. CASE j + 1 = Len(s)
        BY <1>2, <3>1, <4>1 DEF SameCall
      <4>2. CASE j + 1 # Len(s)
        BY <3>1, <4>2
      <4> QED
        BY <4>1, <4>2
    <3>3. Above(w, j) = Above(s, j)
      BY <3>1, <3>2 DEF Above
    <3> QED
      BY <2>2, <3>1, <3>3
  <2> QED
    BY <2>1, <2>2
<1> QED
  BY <1>3, <1>4 DEF Credits

(* The stack stays nested and credited when its top does. *)
LEMMA TopStep ==
    ASSUME RunIInv, NEW t \in DOMAIN threads, threads[t] # <<>>,
           NEW gr, FrameOK(prog, gr, required), SameCall(Top(t), gr), gr.got = Top(t).got,
           Credit(prog, gr, {})
    PROVE  Nested(prog, SetTop(t, gr), required) /\ Credits(prog, SetTop(t, gr))
<1> DEFINE s == threads[t]
<1>1. /\ required \in BOOLEAN /\ Nested(prog, s, required)
      /\ \A j \in DOMAIN s : Credit(prog, s[j], Above(s, j))
  BY ThreadIs DEF Credits
<1>2. SameCall(s[Len(s)], gr) /\ gr.got = s[Len(s)].got
  BY DEF Top
<1> QED
  BY <1>1, <1>2, TopCredits DEF SetTop

(* The step that does that. *)
LEMMA TopOK ==
    ASSUME RunIInv, NEW t \in DOMAIN threads, threads[t] # <<>>,
           NEW gr, FrameOK(prog, gr, required), SameCall(Top(t), gr), gr.got = Top(t).got,
           Credit(prog, gr, {}),
           threads' = [threads EXCEPT ![t] = SetTop(t, gr)], UNCHANGED <<prog, report, nev, disch, required>>
    PROVE  RunIInv'
<1>1. prog # NoProgram /\ required \in BOOLEAN
  BY ThreadIs
<1>2. Nested(prog, SetTop(t, gr), required) /\ Credits(prog, SetTop(t, gr))
  BY TopStep
<1> QED
  BY <1>1, <1>2, ThreadKept

(* Taking a function as a value. *)
LEMMA UseOK ==
    ASSUME RunIInv, NEW t \in DOMAIN threads, RunUse(t)
    PROVE  RunIInv'
<1> DEFINE fr == Top(t)
           gr == Advance(Top(t))
<1>1. threads[t] # <<>> /\ ~fr.exiting /\ AtPoint(fr) /\ InstrOf(fr).op \notin SiteOps
  BY DEF RunUse, Running, SiteOps
<1>2. IsUnit(prog) /\ required \in BOOLEAN /\ FrameOK(prog, fr, required) /\ Credit(prog, fr, {})
  BY <1>1, ThreadIs
<1>3. fr \in FrameSet(prog) /\ fr.exiting = FALSE
  BY <1>1, <1>2, StandsAt DEF FrameOK
<1>4. FrameOK(prog, gr, required)
  BY <1>1, <1>2, AdvanceOK
<1>5. /\ SameCall(fr, gr) /\ gr.at = <<fr.at[1], fr.at[2] + 1>> /\ gr.got = fr.got
      /\ gr.defers = fr.defers /\ gr.exiting = FALSE
  BY <1>3, AdvanceIs
<1>6. \A key \in Keys : \A Stop \in SUBSET Covers(prog, fr.fn, key) : fr.at \notin Stop
  <2>1. ASSUME NEW key \in Keys, fr.at \in Covers(prog, fr.fn, key) PROVE FALSE
    <3>1. fr.at \in Sites(prog, fr.fn)
      BY <2>1, CoversIs
    <3> QED
      BY <1>1, <3>1 DEF Sites, InstrOf
  <2> QED
    BY <2>1
<1>7. gr.fn = fr.fn
  BY <1>5 DEF SameCall
<1>8. threads' = [threads EXCEPT ![t] = SetTop(t, gr)] /\ UNCHANGED <<prog, report, nev, disch, required>>
  BY DEF RunUse
<1> HIDE DEF gr, fr
<1>9. Credit(prog, gr, {})
  BY <1>1, <1>2, <1>5, <1>6, <1>7, GoesOn
<1> QED
  BY <1>1, <1>4, <1>5, <1>8, <1>9, TopOK DEF fr

(* Deferring a call: what it covers is now pending. *)
LEMMA DeferOK ==
    ASSUME RunIInv, NEW t \in DOMAIN threads, RunDefer(t)
    PROVE  RunIInv'
<1> DEFINE fr == Top(t)
           ad == Advance(fr)
           in == InstrOf(fr)
           ds == Append(fr.defers, in)
           gr == [ad EXCEPT !.defers = ds]
<1>1. threads[t] # <<>> /\ ~fr.exiting /\ AtPoint(fr) /\ in.op \in SiteOps /\ in.op = "defer"
  BY DEF RunDefer, Running, SiteOps
<1>2. IsUnit(prog) /\ required \in BOOLEAN /\ FrameOK(prog, fr, required) /\ Credit(prog, fr, {})
  BY <1>1, ThreadIs
<1>3. /\ fr \in FrameSet(prog) /\ fr.exiting = FALSE /\ fr.fn \in Fns(prog) /\ fr.at \in Sites(prog, fr.fn)
  BY <1>1, <1>2, StandsAt DEF FrameOK
<1>4. in = At(prog, fr.fn, fr.at) /\ in \in Instrs(prog) /\ From(prog, fr, in, required)
  <2>1. in = At(prog, fr.fn, fr.at)
    BY DEF InstrOf
  <2>2. From(prog, fr, in, required)
    BY <1>1, <1>2, SiteFrom
  <2> QED
    BY <1>3, <2>1, <2>2 DEF Instrs
<1>5. FrameOK(prog, ad, required)
  BY <1>1, <1>2, AdvanceOK
<1>6. /\ ad \in FrameSet(prog) /\ SameCall(fr, ad) /\ ad.at = <<fr.at[1], fr.at[2] + 1>> /\ ad.got = fr.got
      /\ ad.defers = fr.defers /\ ad.exiting = FALSE
  BY <1>3, AdvanceIs
<1>7. gr = [Advance(Top(t)) EXCEPT !.defers = Append(@, InstrOf(Top(t)))]
  BY <1>6
<1>8. threads' = [threads EXCEPT ![t] = SetTop(t, gr)] /\ UNCHANGED <<prog, report, nev, disch, required>>
  BY <1>7 DEF RunDefer
<1>9. /\ fr.defers \in Seq(Instrs(prog)) /\ ds \in Seq(Instrs(prog)) /\ Len(fr.defers) \in Nat
      /\ DOMAIN fr.defers = 1..Len(fr.defers) /\ DOMAIN ds = 1..(Len(fr.defers) + 1)
      /\ ds[Len(fr.defers) + 1] = in /\ \A i \in 1..Len(fr.defers) : ds[i] = fr.defers[i]
  <2>1. fr.defers \in Seq(Instrs(prog))
    BY <1>3 DEF FrameSet
  <2> HIDE DEF fr, in
  <2> QED
    BY <1>4, <2>1
<1> HIDE DEF ds, ad, in, fr
<1>10. /\ gr \in FrameSet(prog) /\ gr.fn = ad.fn /\ gr.at = ad.at /\ gr.got = ad.got /\ gr.defers = ds
       /\ gr.exiting = ad.exiting /\ gr.unwound = ad.unwound /\ gr.panicking = ad.panicking
       /\ gr.behalf = ad.behalf /\ gr.before = ad.before
  BY <1>6, <1>9 DEF FrameSet
<1> HIDE DEF gr
<1>11. SameCall(fr, gr)
  BY <1>6, <1>10 DEF SameCall
<1>12. Placed(prog, gr)
  BY <1>5, <1>10 DEF FrameOK, Placed
<1>13. ASSUME NEW i \in DOMAIN gr.defers PROVE From(prog, fr, gr.defers[i], required)
  <2>1. CASE i = Len(fr.defers) + 1
    BY <1>4, <1>9, <1>10, <2>1
  <2>2. CASE i \in 1..Len(fr.defers)
    BY <1>2, <1>9, <1>10, <2>2 DEF FrameOK
  <2> QED
    BY <1>9, <1>10, <2>1, <2>2
<1>14. FrameOK(prog, gr, required)
  <2>1. "req" \in gr.got => required
    BY <1>2, <1>6, <1>10 DEF FrameOK
  <2>2. \A key \in Keys : QuietFrame(prog, fr, key) => key \notin gr.got
    BY <1>2, <1>6, <1>10 DEF FrameOK
  <2> QED
    BY <1>2, <1>10, <1>11, <1>12, <1>13, <2>1, <2>2, FrameKept
<1>15. Credit(prog, gr, {})
  <2>1. ASSUME NEW i \in DOMAIN fr.defers PROVE \E k \in DOMAIN gr.defers : gr.defers[k] = fr.defers[i]
    BY <1>9, <1>10
  <2>2. ASSUME NEW key \in Keys, NEW Stop \in SUBSET Covers(prog, fr.fn, key), fr.at \in Stop
        PROVE  Made(prog, gr, {}, key, Stop)
    <3>1. /\ At(prog, gr.fn, fr.at) = in /\ in.op = "defer"
          /\ Len(fr.defers) + 1 \in DOMAIN gr.defers /\ gr.defers[Len(fr.defers) + 1] = in
      BY <1>1, <1>4, <1>9, <1>10, <1>11 DEF SameCall
    <3> QED
      BY <2>2, <3>1 DEF Made
  <2>3. gr.fn = fr.fn /\ gr.at = <<fr.at[1], fr.at[2] + 1>> /\ gr.exiting = FALSE /\ fr.got \subseteq gr.got
    BY <1>6, <1>10, <1>11 DEF SameCall
  <2> QED
    BY <1>1, <1>2, <2>1, <2>2, <2>3, GoesOn
<1>16. gr.got = fr.got
  BY <1>6, <1>10
<1> QED
  BY <1>1, <1>8, <1>11, <1>14, <1>15, <1>16, TopOK DEF fr

(* The first frame of a goroutine. *)
Spawned(in, req, spawners) ==
    [fn |-> "goroutine", at |-> <<1, 1>>, defers |-> <<in>>, got |-> {}, before |-> req,
     exiting |-> TRUE, panicking |-> FALSE, unwound |-> FALSE, behalf |-> spawners]

Spawners(s) == UNION {{s[j].fn} \cup s[j].behalf : j \in DOMAIN s}

(* The frame RunGo builds. *)
LEMMA SpawnedIs ==
    ASSUME NEW in, NEW B
    PROVE  [Frame("goroutine") EXCEPT !.exiting = TRUE, !.defers = <<in>>, !.behalf = B] = Spawned(in, required, B)
<1> DEFINE R == [fn : {"goroutine"}, at : {<<1, 1>>}, defers : {<<>>, <<in>>}, got : {{}}, before : {required},
                 exiting : {FALSE, TRUE}, panicking : {FALSE}, unwound : {FALSE}, behalf : {{}, B}]
           g == Frame("goroutine")
           h == Spawned(in, required, B)
           k == [g EXCEPT !.exiting = TRUE, !.defers = <<in>>, !.behalf = B]
<1>1. g \in R
  BY DEF Frame
<1>2. h \in R /\ h.exiting = TRUE /\ h.defers = <<in>> /\ h.behalf = B
  BY DEF Spawned
<1> HIDE DEF g, h
<1>3. k \in R /\ k.exiting = TRUE /\ k.defers = <<in>> /\ k.behalf = B
  BY <1>1
<1>4. ASSUME NEW u \in R, NEW v \in R, u.exiting = v.exiting, u.defers = v.defers, u.behalf = v.behalf PROVE u = v
  <2>1. /\ u.fn = v.fn /\ u.at = v.at /\ u.before = v.before /\ u.got = v.got
        /\ u.panicking = v.panicking /\ u.unwound = v.unwound
    OBVIOUS
  <2> QED
    BY <1>4, <2>1
<1> HIDE DEF R, k
<1>5. k = h
  BY <1>2, <1>3, <1>4
<1> QED
  BY <1>5 DEF g, h, k

(* The spawned call is at a site of the spawner; who is quiet on behalf of *)
(* the goroutine was quiet on the spawner's stack.                         *)
LEMMA SpawnKept ==
    ASSUME NEW p, IsUnit(p), NEW req \in BOOLEAN, NEW s, Nested(p, s, req), s # <<>>,
           NEW in \in Instrs(p), From(p, s[Len(s)], in, req)
    PROVE  Nested(p, <<Spawned(in, req, Spawners(s))>>, req) /\ Credits(p, <<Spawned(in, req, Spawners(s))>>)
<1> DEFINE B  == Spawners(s)
           gr == Spawned(in, req, Spawners(s))
<1>1. s \in Seq(FrameSet(p))
  BY DEF Nested
<1>2. DOMAIN s = 1..Len(s) /\ Len(s) \in DOMAIN s /\ Len(s) \in Nat
  BY <1>1
<1>3. B \in SUBSET (Fns(p) \cup {"goroutine"})
  <2>1. ASSUME NEW j \in DOMAIN s
        PROVE  s[j].fn \in Fns(p) \cup {"goroutine"} /\ s[j].behalf \subseteq Fns(p) \cup {"goroutine"}
    <3>1. s[j] \in FrameSet(p)
      BY <1>1
    <3> QED
      BY <3>1 DEF FrameSet
  <2> QED
    BY <2>1 DEF Spawners
<1>4. /\ gr.fn = "goroutine" /\ gr.at = <<1, 1>> /\ gr.defers = <<in>> /\ gr.got = {} /\ gr.before = req
      /\ gr.exiting = TRUE /\ gr.panicking = FALSE /\ gr.unwound = FALSE /\ gr.behalf = B
  BY DEF Spawned
<1>5. gr \in FrameSet(p)
  <2> HIDE DEF B
  <2>1. <<1, 1>> \in Nat \X Nat /\ <<in>> \in Seq(Instrs(p))
    OBVIOUS
  <2>2. gr = [fn |-> "goroutine", at |-> <<1, 1>>, defers |-> <<in>>, got |-> {}, before |-> req,
              exiting |-> TRUE, panicking |-> FALSE, unwound |-> FALSE, behalf |-> B]
    BY DEF Spawned, B
  <2> HIDE DEF gr
  <2> QED
    BY <1>3, <2>1, <2>2 DEF FrameSet
<1>6. gr.fn \notin Fns(p)
  BY <1>4 DEF IsUnit
<1>7. ASSUME NEW key \in Keys, QuietFrame(p, gr, key) PROVE QuietFrame(p, s[Len(s)], key)
  <2>1. SilentFns(p, key) \subseteq Fns(p)
    BY DEF SilentFns
  <2>2. PICK x \in B : x \in SilentFns(p, key)
    BY <1>4, <1>6, <1>7, <2>1 DEF QuietFrame
  <2>3. PICK j \in DOMAIN s : x \in {s[j].fn} \cup s[j].behalf
    BY <2>2 DEF Spawners
  <2>4. QuietFrame(p, s[j], key)
    BY <2>2, <2>3 DEF QuietFrame
  <2>5. CASE j = Len(s)
    BY <2>4, <2>5
  <2>6. CASE j < Len(s)
    BY <1>2, <2>4, <2>6 DEF Nested
  <2> QED
    BY <1>2, <2>5, <2>6
<1> HIDE DEF B, gr
<1>8. From(p, gr, in, req)
  <2>1. PICK h \in Fns(p) : \E y \in Sites(p, h) :
            /\ in = At(p, h, y)
            /\ EntryCovered(p, <<h, y>>, "req") \/ h \in Dominated(p) => req
            /\ \A key \in Keys : QuietFrame(p, s[Len(s)], key) => h \in SilentFns(p, key)
    BY DEF From
  <2> QED
    BY <1>7, <2>1 DEF From
<1>9. FrameOK(p, gr, req)
  <2>1. Placed(p, gr)
    BY <1>4, <1>6 DEF Placed
  <2>2. gr.fn \notin Dominated(p)
    BY <1>6 DEF Dominated
  <2>3. \A i \in DOMAIN gr.defers : From(p, gr, gr.defers[i], req)
    BY <1>4, <1>8
  <2>4. /\ gr.before => req
        /\ "req" \in gr.got => req
        /\ \A key \in Keys : QuietFrame(p, gr, key) => key \notin gr.got
    BY <1>4
  <2> QED
    BY <1>5, <2>1, <2>2, <2>3, <2>4 DEF FrameOK
<1>10. DOMAIN <<gr>> = {1} /\ <<gr>>[1] = gr /\ <<gr>> \in Seq(FrameSet(p))
  BY <1>5
<1>11. Nested(p, <<gr>>, req)
  BY <1>9, <1>10 DEF Nested
<1>12. Credits(p, <<gr>>)
  BY <1>6, <1>10 DEF Credits, Credit
<1> QED
  BY <1>11, <1>12 DEF gr

(* Spawning a goroutine, which covers nothing. *)
LEMMA GoOK ==
    ASSUME RunIInv, NEW t \in DOMAIN threads, RunGo(t)
    PROVE  RunIInv'
<1> DEFINE fr == Top(t)
           gr == Advance(Top(t))
           in == InstrOf(Top(t))
           s  == SetTop(t, gr)
           new == <<Spawned(in, required, Spawners(threads[t]))>>
<1>1. threads[t] # <<>> /\ ~fr.exiting /\ AtPoint(fr) /\ in.op \in SiteOps /\ in.op = "go"
  BY DEF RunGo, Running, SiteOps
<1>2. /\ IsUnit(prog) /\ required \in BOOLEAN /\ FrameOK(prog, fr, required) /\ Credit(prog, fr, {})
      /\ prog # NoProgram /\ Nested(prog, threads[t], required)
  BY <1>1, ThreadIs
<1>3. fr \in FrameSet(prog) /\ fr.exiting = FALSE /\ fr.fn \in Fns(prog) /\ fr.at \in Sites(prog, fr.fn)
  BY <1>1, <1>2, StandsAt DEF FrameOK
<1>4. in = At(prog, fr.fn, fr.at) /\ in \in Instrs(prog) /\ From(prog, fr, in, required)
  <2>1. in = At(prog, fr.fn, fr.at)
    BY DEF InstrOf
  <2>2. From(prog, fr, in, required)
    BY <1>1, <1>2, SiteFrom
  <2> QED
    BY <1>3, <2>1, <2>2 DEF Instrs
<1>5. FrameOK(prog, gr, required)
  BY <1>1, <1>2, AdvanceOK
<1>6. /\ SameCall(fr, gr) /\ gr.at = <<fr.at[1], fr.at[2] + 1>> /\ gr.got = fr.got
      /\ gr.defers = fr.defers /\ gr.exiting = FALSE
  BY <1>3, AdvanceIs
<1>7. Credit(prog, gr, {})
  <2>1. \A key \in Keys : \A Stop \in SUBSET Covers(prog, fr.fn, key) : fr.at \notin Stop
    <3>1. ASSUME NEW key \in Keys, fr.at \in Covers(prog, fr.fn, key) PROVE FALSE
      <4>1. in.op \in {"call", "defer"}
        BY <1>4, <3>1, CoversIs DEF CoveringOp
      <4> QED
        BY <1>1, <4>1
    <3> QED
      BY <3>1
  <2>2. gr.fn = fr.fn
    BY <1>6 DEF SameCall
  <2> HIDE DEF gr, fr
  <2> QED
    BY <1>1, <1>2, <1>6, <2>1, <2>2, GoesOn
<1>8. Nested(prog, s, required) /\ Credits(prog, s)
  BY <1>1, <1>5, <1>6, <1>7, TopStep
<1>9. Nested(prog, new, required) /\ Credits(prog, new)
  BY <1>1, <1>2, <1>4, SpawnKept DEF Top
<1>10. threads' = Append([threads EXCEPT ![t] = s], new) /\ UNCHANGED <<prog, report, nev, disch, required>>
  <2>1. \A B : [Frame("goroutine") EXCEPT !.exiting = TRUE, !.defers = <<in>>, !.behalf = B] = Spawned(in, required, B)
    BY SpawnedIs
  <2> QED
    BY <2>1 DEF RunGo, Spawners
<1> HIDE DEF s, new
<1>11. threads \in Seq(Seq(FrameSet(prog))) /\ s \in Seq(FrameSet(prog)) /\ new \in Seq(FrameSet(prog))
  BY <1>2, <1>8, <1>9 DEF RunIInv, Nested
<1>12. /\ threads' \in Seq(Seq(FrameSet(prog))) /\ Len(threads) \in Nat /\ DOMAIN threads = 1..Len(threads)
       /\ DOMAIN threads' = 1..(Len(threads) + 1) /\ threads'[Len(threads) + 1] = new
       /\ \A u \in 1..Len(threads) : threads'[u] = IF u = t THEN s ELSE threads[u]
  BY <1>10, <1>11
<1>13. ASSUME NEW u \in DOMAIN threads' PROVE Nested(prog, threads'[u], required) /\ Credits(prog, threads'[u])
  <2>1. CASE u = Len(threads) + 1
    BY <1>9, <1>12, <2>1
  <2>2. CASE u \in DOMAIN threads /\ u = t
    BY <1>8, <1>12, <2>2
  <2>3. CASE u \in DOMAIN threads /\ u # t
    <3>1. threads'[u] = threads[u]
      BY <1>12, <2>3
    <3> QED
      BY <1>2, <2>3, <3>1 DEF RunIInv
  <2> QED
    BY <1>12, <2>1, <2>2, <2>3
<1>14. prog' = prog /\ report' = report /\ required' = required /\ MemoOK'
  BY <1>2, <1>10 DEF RunIInv, MemoOK
<1> QED
  BY <1>2, <1>12, <1>13, <1>14 DEF RunIInv

(* The end of a block: into the next, or out of the function. *)
LEMMA BlockEndOK ==
    ASSUME RunIInv, NEW t \in DOMAIN threads, RunBlockEnd(t)
    PROVE  RunIInv'
<1> DEFINE fr == Top(t)
<1>1. threads[t] # <<>> /\ ~fr.exiting /\ ~AtPoint(fr)
  BY DEF RunBlockEnd, Running
<1>2. IsUnit(prog) /\ required \in BOOLEAN /\ FrameOK(prog, fr, required) /\ Credit(prog, fr, {})
  BY <1>1, ThreadIs
<1>3. /\ fr \in FrameSet(prog) /\ fr.exiting = FALSE /\ fr.unwound = FALSE /\ fr.fn \in Fns(prog)
      /\ HasBody(prog, fr.fn) /\ fr.at \in Nat \X Nat /\ fr.at[1] \in BlocksOf(prog, fr.fn) /\ fr.at[2] >= 1
      /\ fr.behalf = {}
  BY <1>1, <1>2, StandsAt DEF FrameOK
<1>4. fr.at[2] \notin DOMAIN Code(prog, fr.fn, fr.at[1])
  BY <1>1 DEF AtPoint
<1>5. \A key \in Keys : \A Stop \in SUBSET Covers(prog, fr.fn, key) :
          /\ Stop \in SUBSET Points(prog, fr.fn)
          /\ NotPast(prog, fr.fn, Stop, fr.at) \/ Made(prog, fr, {}, key, Stop)
  <2>1. \A key : Covers(prog, fr.fn, key) \subseteq Points(prog, fr.fn)
    BY DEF Covers, Covering, Sites
  <2> QED
    BY <1>1, <1>2, <1>3, <2>1 DEF Credit
<1>6. UNCHANGED <<prog, report, nev, disch, required>>
  BY DEF RunBlockEnd
<1>7. ASSUME NEW b \in SuccsOf(prog, fr.fn, fr.at[1]),
             threads' = [threads EXCEPT ![t] = SetTop(t, [fr EXCEPT !.at = <<b, 1>>])]
      PROVE  RunIInv'
  <2> DEFINE gr == [fr EXCEPT !.at = <<b, 1>>]
  <2>1. b \in BlocksOf(prog, fr.fn) /\ b \in Nat /\ IsSeq(Code(prog, fr.fn, b))
    <3>1. Next1(prog, fr.fn, fr.at[1]) \in Seq(BlocksOf(prog, fr.fn))
      BY <1>2, <1>3 DEF IsUnit
    <3>2. b \in BlocksOf(prog, fr.fn)
      BY <3>1 DEF SuccsOf
    <3> QED
      BY <1>2, <1>3, <3>2 DEF IsUnit, BlocksOf
  <2>2. Len(Code(prog, fr.fn, b)) \in Nat
    BY <2>1 DEF IsSeq
  <2> DEFINE a == <<b, 1>>
  <2>3. a \in Nat \X Nat /\ a[1] = b /\ a[2] = 1
    BY <2>1
  <2>4. gr = [fr EXCEPT !.at = a]
    OBVIOUS
  <2> HIDE DEF gr, fr, a
  <2>5. /\ gr \in FrameSet(prog) /\ gr.fn = fr.fn /\ gr.at = a /\ gr.got = fr.got /\ gr.defers = fr.defers
        /\ gr.exiting = FALSE /\ gr.unwound = FALSE /\ gr.behalf = fr.behalf /\ gr.before = fr.before
    BY <1>3, <2>3, <2>4 DEF FrameSet
  <2>6. SameCall(fr, gr)
    BY <2>5 DEF SameCall
  <2>7. Placed(prog, gr)
    BY <1>3, <2>1, <2>2, <2>3, <2>5 DEF Placed
  <2>8. FrameOK(prog, gr, required)
    <3>1. "req" \in gr.got => required
      BY <1>2, <2>5 DEF FrameOK
    <3>2. \A key \in Keys : QuietFrame(prog, fr, key) => key \notin gr.got
      BY <1>2, <2>5 DEF FrameOK
    <3>3. \A i \in DOMAIN gr.defers : From(prog, fr, gr.defers[i], required)
      BY <1>2, <2>5 DEF FrameOK
    <3> QED
      BY <1>2, <2>5, <2>6, <2>7, <3>1, <3>2, <3>3, FrameKept
  <2>9. Credit(prog, gr, {})
    <3>1. ASSUME NEW key \in Keys, NEW Stop \in SUBSET Covers(prog, fr.fn, key)
          PROVE  NotPast(prog, gr.fn, Stop, gr.at) \/ Made(prog, gr, {}, key, Stop)
      <4>1. CASE NotPast(prog, fr.fn, Stop, fr.at)
        <5>1. NotPast(prog, fr.fn, Stop, <<b, 1>>)
          BY <1>2, <1>3, <1>4, <1>5, <4>1, NotPastEnd
        <5> QED
          BY <2>5, <5>1 DEF a
      <4>2. CASE Made(prog, fr, {}, key, Stop)
        BY <2>5, <4>2 DEF Made
      <4> QED
        BY <1>5, <4>1, <4>2
    <3> QED
      BY <2>5, <3>1 DEF Credit
  <2>10. threads' = [threads EXCEPT ![t] = SetTop(t, gr)]
    BY <1>7 DEF gr
  <2> QED
    BY <1>1, <1>6, <2>5, <2>6, <2>8, <2>9, <2>10, TopOK DEF fr
<1>8. ASSUME SuccsOf(prog, fr.fn, fr.at[1]) = {},
             threads' = [threads EXCEPT ![t] =
                 SetTop(t, [fr EXCEPT !.exiting = TRUE, !.panicking = prog[fr.fn].panics])]
      PROVE  RunIInv'
  <2> DEFINE ends == prog[fr.fn].panics
             gr   == [fr EXCEPT !.exiting = TRUE, !.panicking = ends]
  <2>1. ends \in BOOLEAN
    BY <1>2, <1>3 DEF IsUnit
  <2>2. threads' = [threads EXCEPT ![t] = SetTop(t, gr)]
    BY <1>8
  <2> HIDE DEF fr, ends
  <2>3. /\ gr \in FrameSet(prog) /\ gr.fn = fr.fn /\ gr.at = fr.at /\ gr.got = fr.got /\ gr.defers = fr.defers
        /\ gr.exiting = TRUE /\ gr.unwound = FALSE /\ gr.behalf = fr.behalf /\ gr.before = fr.before
    BY <1>3, <2>1 DEF FrameSet
  <2> HIDE DEF gr
  <2>4. SameCall(fr, gr)
    BY <2>3 DEF SameCall
  <2>5. Placed(prog, gr)
    BY <1>2, <1>3, <2>3 DEF FrameOK, Placed
  <2>6. FrameOK(prog, gr, required)
    <3>1. "req" \in gr.got => required
      BY <1>2, <2>3 DEF FrameOK
    <3>2. \A key \in Keys : QuietFrame(prog, fr, key) => key \notin gr.got
      BY <1>2, <2>3 DEF FrameOK
    <3>3. \A i \in DOMAIN gr.defers : From(prog, fr, gr.defers[i], required)
      BY <1>2, <2>3 DEF FrameOK
    <3> QED
      BY <1>2, <2>3, <2>4, <2>5, <3>1, <3>2, <3>3, FrameKept
  <2>7. Credit(prog, gr, {})
    <3>1. ASSUME NEW key \in Keys, NEW Stop \in SUBSET Covers(prog, fr.fn, key), ExitsCovered(prog, fr.fn, Stop)
          PROVE  Made(prog, gr, {}, key, Stop)
      <4>1. ~NotPast(prog, fr.fn, Stop, fr.at)
        BY <1>2, <1>3, <1>4, <1>5, <1>8, <3>1, NotPastEnd
      <4>2. Made(prog, fr, {}, key, Stop)
        BY <1>5, <4>1
      <4> QED
        BY <2>3, <4>2 DEF Made
    <3> QED
      BY <2>3, <3>1 DEF Credit
  <2> QED
    BY <1>1, <1>6, <2>2, <2>3, <2>4, <2>6, <2>7, TopOK DEF fr
<1> QED
  BY <1>7, <1>8 DEF RunBlockEnd

(* A deferred call that covered the exits is made when its turn comes. *)
LEMMA DeferredOK ==
    ASSUME RunIInv, NEW t \in DOMAIN threads, RunDeferred(t)
    PROVE  RunIInv'
<1> DEFINE fr == Top(t)
           n  == Len(fr.defers)
           in == fr.defers[n]
           ds == SubSeq(fr.defers, 1, n - 1)
           gr == [fr EXCEPT !.defers = ds]
<1>1. threads[t] # <<>> /\ fr.exiting /\ fr.defers # <<>>
  BY DEF RunDeferred
<1>2. /\ IsUnit(prog) /\ required \in BOOLEAN /\ FrameOK(prog, fr, required) /\ Credit(prog, fr, {})
      /\ fr \in FrameSet(prog)
  BY <1>1, ThreadIs
<1>3. fr.defers \in Seq(Instrs(prog)) /\ fr.exiting \in BOOLEAN
  BY <1>2 DEF FrameSet
<1>4. /\ n \in Nat /\ n >= 1 /\ DOMAIN fr.defers = 1..n /\ n \in DOMAIN fr.defers
      /\ ds \in Seq(Instrs(prog)) /\ DOMAIN ds = 1..(n - 1) /\ \A i \in 1..(n - 1) : ds[i] = fr.defers[i]
  <2> DEFINE d == fr.defers
  <2>1. d \in Seq(Instrs(prog)) /\ d # <<>>
    BY <1>1, <1>3
  <2> HIDE DEF d
  <2>2. Len(d) \in Nat /\ Len(d) >= 1 /\ DOMAIN d = 1..Len(d) /\ Len(d) \in DOMAIN d
    BY <2>1
  <2>3. Len(SubSeq(d, 1, Len(d) - 1)) = Len(d) - 1 /\ \A i \in 1..(Len(d) - 1) : SubSeq(d, 1, Len(d) - 1)[i] = d[i]
    BY <2>1, <2>2
  <2>4. SubSeq(d, 1, Len(d) - 1) \in Seq(Instrs(prog))
    BY <2>1, <2>2
  <2>5. DOMAIN SubSeq(d, 1, Len(d) - 1) = 1..(Len(d) - 1)
    BY <2>3, <2>4
  <2> QED
    BY <2>2, <2>3, <2>4, <2>5 DEF d
<1>5. PICK o \in Outcomes(in) : Perform(t, SetTop(t, gr), o)
  BY DEF RunDeferred
<1>6. From(prog, fr, in, required)
  BY <1>2, <1>4 DEF FrameOK
<1>7. o.reach \in SUBSET Keys
  BY OutcomesAre
<1> HIDE DEF fr, n, in, ds
<1>8. /\ gr \in FrameSet(prog) /\ gr.fn = fr.fn /\ gr.at = fr.at /\ gr.got = fr.got /\ gr.defers = ds
      /\ gr.exiting = fr.exiting /\ gr.unwound = fr.unwound /\ gr.panicking = fr.panicking
      /\ gr.behalf = fr.behalf /\ gr.before = fr.before
  BY <1>2, <1>4 DEF FrameSet
<1> HIDE DEF gr
<1>9. SameCall(fr, gr)
  BY <1>8 DEF SameCall
<1>10. FrameOK(prog, gr, required)
  <2>1. Placed(prog, gr)
    BY <1>2, <1>8 DEF FrameOK, Placed
  <2>2. "req" \in gr.got => required
    BY <1>2, <1>8 DEF FrameOK
  <2>3. \A key \in Keys : QuietFrame(prog, fr, key) => key \notin gr.got
    BY <1>2, <1>8 DEF FrameOK
  <2>4. ASSUME NEW i \in DOMAIN gr.defers PROVE From(prog, fr, gr.defers[i], required)
    <3>1. i \in DOMAIN fr.defers /\ gr.defers[i] = fr.defers[i]
      BY <1>4, <1>8
    <3> QED
      BY <1>2, <3>1 DEF FrameOK
  <2> QED
    BY <1>2, <1>8, <1>9, <2>1, <2>2, <2>3, <2>4, FrameKept
<1> DEFINE hr == Mark(gr, o.reach)
<1>11. /\ hr.fn = fr.fn /\ hr.got = fr.got \cup o.reach /\ hr.defers = ds /\ hr.exiting = fr.exiting
       /\ hr.unwound = fr.unwound
  BY <1>7, <1>8, MarkIs
<1> HIDE DEF hr
<1>12. ASSUME fr.fn \in Fns(prog), NEW key \in Keys, NEW Stop \in SUBSET Covers(prog, fr.fn, key),
              Made(prog, fr, {}, key, Stop)
       PROVE  Made(prog, hr, o.enter, key, Stop)
  <2>1. CASE key \in fr.got
    BY <1>11, <2>1 DEF Made
  <2>2. ASSUME NEW y \in Stop, At(prog, fr.fn, y).op = "defer",
               NEW i \in DOMAIN fr.defers, fr.defers[i] = At(prog, fr.fn, y)
        PROVE  Made(prog, hr, o.enter, key, Stop)
    <3>1. CASE i = n
      <4>1. in = At(prog, fr.fn, y)
        BY <2>2, <3>1 DEF in
      <4>2. Hits(in, key) \/ Credited(prog, in, Sure(prog, key))
        BY <4>1, CoversIs
      <4>3. key \in o.reach \/ o.enter \cap Sure(prog, key) # {}
        BY <4>2, OutcomeReaches
      <4> QED
        BY <1>11, <4>3 DEF Made
    <3>2. CASE i # n
      <4>1. i \in DOMAIN hr.defers /\ hr.defers[i] = At(prog, hr.fn, y)
        BY <1>4, <1>11, <2>2, <3>2
      <4> QED
        BY <1>11, <2>2, <4>1 DEF Made
    <3> QED
      BY <3>1, <3>2
  <2> QED
    BY <1>12, <2>1, <2>2 DEF Made
<1>13. Credit(prog, hr, o.enter)
  <2>1. ASSUME fr.fn \in Fns(prog), NEW key \in Keys, NEW Stop \in SUBSET Covers(prog, fr.fn, key),
               ~hr.unwound, ExitsCovered(prog, fr.fn, Stop)
        PROVE  Made(prog, hr, o.enter, key, Stop)
    <3>1. fr.exiting /\ ~fr.unwound
      BY <1>1, <1>11, <2>1 DEF fr
    <3>2. Made(prog, fr, {}, key, Stop)
      BY <1>2, <2>1, <3>1 DEF Credit
    <3> QED
      BY <1>12, <2>1, <3>2
  <2>2. hr.exiting
    BY <1>1, <1>11 DEF fr
  <2> QED
    BY <1>11, <2>1, <2>2 DEF Credit
<1>14. gr.got = Top(t).got /\ SameCall(Top(t), gr) /\ From(prog, Top(t), in, required)
  BY <1>6, <1>8, <1>9 DEF fr
<1> QED
  BY <1>1, <1>5, <1>10, <1>13, <1>14, CallStep DEF hr

(* A frame that ends without a panic in it has made what is ALWAYS made. *)
LEMMA EndsSure ==
    ASSUME NEW p, IsUnit(p), NEW req, NEW fr, FrameOK(p, fr, req), Credit(p, fr, {}),
           fr.exiting, fr.defers = <<>>, ~fr.unwound, NEW key \in Keys, fr.fn \in Sure(p, key)
    PROVE  key \in fr.got
<1>1. fr.fn \in Fns(p) /\ ExitsCovered(p, fr.fn, Covers(p, fr.fn, key))
  BY SureIs DEF Sure
<1>2. Covers(p, fr.fn, key) \in SUBSET Covers(p, fr.fn, key)
  OBVIOUS
<1>3. Made(p, fr, {}, key, Covers(p, fr.fn, key))
  BY <1>1, <1>2 DEF Credit
<1> QED
  BY <1>3 DEF Made

Popped(s)  == SubSeq(s, 1, Len(s) - 1)
Unwound(s) == [s EXCEPT ![Len(s)].exiting = TRUE, ![Len(s)].panicking = TRUE, ![Len(s)].unwound = TRUE]

(* The stack that is left, when the panic of the frame above does not go   *)
(* on.                                                                     *)
LEMMA BelowKept ==
    ASSUME NEW p, IsUnit(p), NEW req \in BOOLEAN, NEW s, Nested(p, s, req), Credits(p, s), s # <<>>,
           s[Len(s)].exiting, s[Len(s)].defers = <<>>
    PROVE  /\ \A j \in DOMAIN Popped(s) : j # Len(Popped(s)) => Credit(p, Popped(s)[j], Above(Popped(s), j))
           /\ ~s[Len(s)].unwound \/ s[Len(s)].fn \notin Fns(p) \/ p[s[Len(s)].fn].recovers
                 => Credits(p, Popped(s))
<1> DEFINE n  == Len(s)
           fr == s[n]
           below == Popped(s)
<1>1. s \in Seq(FrameSet(p)) /\ DOMAIN s = 1..n /\ n \in Nat /\ n \in DOMAIN s
  BY DEF Nested
<1>2. Len(below) = n - 1 /\ DOMAIN below = 1..(n - 1) /\ \A j \in 1..(n - 1) : below[j] = s[j]
  BY PopKept DEF Popped
<1>3. n \in DOMAIN s /\ fr.exiting /\ fr.defers = <<>> /\ FrameOK(p, fr, req) /\ Credit(p, fr, {})
  <2>1. n + 1 \notin DOMAIN s
    BY <1>1
  <2>2. Above(s, n) = {}
    BY <2>1 DEF Above
  <2> QED
    BY <1>1, <2>2 DEF Nested, Credits
<1> HIDE DEF fr, below
<1>4. ASSUME NEW j \in DOMAIN below, j # Len(below) PROVE Credit(p, below[j], Above(below, j))
  <2>1. j \in DOMAIN s /\ j + 1 \in DOMAIN s /\ j + 1 \in DOMAIN below /\ below[j] = s[j] /\ below[j + 1] = s[j + 1]
    BY <1>1, <1>2, <1>4
  <2>2. Above(below, j) = Above(s, j)
    BY <2>1 DEF Above
  <2> QED
    BY <2>1, <2>2 DEF Credits
<1>5. ASSUME ~fr.unwound \/ fr.fn \notin Fns(p) \/ p[fr.fn].recovers, NEW j \in DOMAIN below, j = Len(below)
      PROVE  Credit(p, below[j], Above(below, j))
  <2>1. /\ j \in DOMAIN s /\ j = n - 1 /\ j + 1 = n /\ j < n /\ below[j] = s[j]
        /\ j + 1 \notin DOMAIN below /\ j + 1 \in DOMAIN s
    BY <1>1, <1>2, <1>5
  <2>2. Above(below, j) = {} /\ Above(s, j) = {fr.fn}
    BY <2>1 DEF Above, fr
  <2>3. Credit(p, s[j], {fr.fn})
    BY <2>1, <2>2 DEF Credits
  <2>4. fr.got \subseteq s[j].got
    BY <1>1, <2>1 DEF Nested, fr
  <2>5. ASSUME NEW key \in Keys, fr.fn \in Sure(p, key) PROVE key \in s[j].got
    <3>1. fr.fn \in Fns(p) /\ ~p[fr.fn].recovers
      BY <2>5, SureIs DEF Sure
    <3>2. ~fr.unwound
      BY <1>5, <3>1
    <3>3. key \in fr.got
      BY <1>3, <2>5, <3>2, EndsSure
    <3> QED
      BY <2>4, <3>3
  <2>6. \A key \in Keys : \A Stop : Made(p, s[j], {fr.fn}, key, Stop) => Made(p, s[j], {}, key, Stop)
    BY <2>5 DEF Made
  <2>7. Credit(p, s[j], {})
    BY <2>3, <2>6 DEF Credit
  <2> QED
    BY <2>1, <2>2, <2>7
<1> QED
  BY <1>4, <1>5 DEF Credits, fr, below

(* The frame that a panic of its callee passes. *)
LEMMA UnwindKept ==
    ASSUME NEW p, NEW req \in BOOLEAN, NEW s, Nested(p, s, req), s # <<>>,
           \A j \in DOMAIN s : j # Len(s) => Credit(p, s[j], Above(s, j))
    PROVE  Nested(p, Unwound(s), req) /\ Credits(p, Unwound(s))
<1> DEFINE n  == Len(s)
           fr == s[n]
           gr == [fr EXCEPT !.exiting = TRUE, !.panicking = TRUE, !.unwound = TRUE]
<1>1. s \in Seq(FrameSet(p)) /\ n \in DOMAIN s /\ fr \in FrameSet(p) /\ FrameOK(p, fr, req)
  BY DEF Nested
<1>2. Unwound(s) = [s EXCEPT ![n] = gr]
  BY <1>1 DEF Unwound
<1> HIDE DEF fr
<1>3. /\ gr \in FrameSet(p) /\ gr.fn = fr.fn /\ gr.at = fr.at /\ gr.got = fr.got /\ gr.defers = fr.defers
      /\ gr.exiting = TRUE /\ gr.unwound = TRUE /\ gr.panicking = TRUE
      /\ gr.behalf = fr.behalf /\ gr.before = fr.before
  BY <1>1 DEF FrameSet
<1> HIDE DEF gr
<1>4. SameCall(fr, gr)
  BY <1>3 DEF SameCall
<1>5. FrameOK(p, gr, req)
  <2>1. Placed(p, gr)
    BY <1>1, <1>3 DEF FrameOK, Placed
  <2>2. "req" \in gr.got => req
    BY <1>1, <1>3 DEF FrameOK
  <2>3. \A key \in Keys : QuietFrame(p, fr, key) => key \notin gr.got
    BY <1>1, <1>3 DEF FrameOK
  <2>4. \A i \in DOMAIN gr.defers : From(p, fr, gr.defers[i], req)
    BY <1>1, <1>3 DEF FrameOK
  <2> QED
    BY <1>1, <1>3, <1>4, <2>1, <2>2, <2>3, <2>4, FrameKept
<1>6. Credit(p, gr, {})
  BY <1>3 DEF Credit
<1>7. SameCall(s[Len(s)], gr) /\ gr.got = s[Len(s)].got
  BY <1>3, <1>4 DEF fr
<1>8. Nested(p, [s EXCEPT ![n] = gr], req) /\ Credits(p, [s EXCEPT ![n] = gr])
  BY <1>5, <1>6, <1>7, TopCredits
<1> QED
  BY <1>2, <1>8

(* A frame is left, by return, recovered panic or panic. *)
LEMMA LeaveOK ==
    ASSUME RunIInv, NEW t \in DOMAIN threads, RunLeave(t)
    PROVE  RunIInv'
<1> DEFINE s     == threads[t]
           fr    == Top(t)
           below == Popped(s)
           n     == Len(below)
<1>1. s # <<>> /\ fr.exiting /\ fr.defers = <<>> /\ fr = s[Len(s)]
  BY DEF RunLeave, Top
<1>2. /\ prog # NoProgram /\ IsUnit(prog) /\ required \in BOOLEAN
      /\ Nested(prog, s, required) /\ Credits(prog, s) /\ FrameOK(prog, fr, required)
  BY <1>1, ThreadIs
<1>3. PICK sw \in IF ~fr.panicking THEN {TRUE}
                  ELSE IF Known(fr.fn) /\ prog[fr.fn].recovers THEN BOOLEAN ELSE {FALSE} :
          threads' = [threads EXCEPT ![t] = IF sw \/ n = 0 THEN below ELSE Unwound(below)]
  BY DEF RunLeave, Popped, Unwound
<1>4. UNCHANGED <<prog, report, nev, disch, required>>
  BY DEF RunLeave
<1>5. Nested(prog, below, required)
  BY <1>1, <1>2, PopKept DEF Popped
<1>6. /\ \A j \in DOMAIN below : j # n => Credit(prog, below[j], Above(below, j))
      /\ ~fr.unwound \/ fr.fn \notin Fns(prog) \/ prog[fr.fn].recovers => Credits(prog, below)
  BY <1>1, <1>2, BelowKept
<1>7. CASE n = 0
  <2>1. below \in Seq(FrameSet(prog))
    BY <1>5 DEF Nested
  <2> HIDE DEF below
  <2>2. DOMAIN below = {}
    BY <1>7, <2>1
  <2>3. Credits(prog, below)
    BY <2>2 DEF Credits
  <2>4. threads' = [threads EXCEPT ![t] = below]
    BY <1>3, <1>7
  <2> QED
    BY <1>2, <1>4, <1>5, <2>3, <2>4, ThreadKept
<1>8. CASE sw /\ n # 0
  <2>1. ~fr.panicking \/ prog[fr.fn].recovers
    BY <1>3, <1>8
  <2>2. fr.unwound => fr.panicking
    BY <1>2 DEF FrameOK, Placed
  <2>3. Credits(prog, below)
    BY <1>6, <2>1, <2>2
  <2>4. threads' = [threads EXCEPT ![t] = below]
    BY <1>3, <1>8
  <2> HIDE DEF below
  <2> QED
    BY <1>2, <1>4, <1>5, <2>3, <2>4, ThreadKept
<1>9. CASE ~sw /\ n # 0
  <2>1. threads' = [threads EXCEPT ![t] = Unwound(below)]
    BY <1>3, <1>9
  <2> HIDE DEF below
  <2>2. below # <<>>
    BY <1>9
  <2>3. Nested(prog, Unwound(below), required) /\ Credits(prog, Unwound(below))
    BY <1>2, <1>5, <1>6, <2>2, UnwindKept
  <2> QED
    BY <1>2, <1>4, <2>1, <2>3, ThreadKept
<1> QED
  BY <1>7, <1>8, <1>9

-----------------------------------------------------------------------------
(* The other steps, and the invariant.                                     *)

(* A program is loaded. *)
LEMMA LoadOK ==
    ASSUME RunIInv, NEW p \in Programs, Load(p)
    PROVE  RunIInv'
<1>1. prog' = p /\ report' = Report(p) /\ threads' = <<>> /\ nev' = <<>> /\ disch' = <<>> /\ required' \in BOOLEAN
  BY DEF Load, RunIInv
<1>2. MemoOK'
  BY <1>1 DEF MemoOK
<1>3. threads' \in Seq(Seq(FrameSet(p))) /\ DOMAIN threads' = {}
  BY <1>1
<1> QED
  BY <1>1, <1>2, <1>3 DEF RunIInv

(* What is memoised is what would be answered anew; a component shares one *)
(* NEVER.                                                                  *)
LEMMA AskOK ==
    ASSUME RunIInv, NEW f \in Fns(prog), NEW key \in Keys, AskSummary(f, key)
    PROVE  RunIInv'
<1> DEFINE D == Discharge(prog, nev, disch, f, key)
           N == Never(prog, nev, f, key)
           K == Component(prog, f)
<1>1. /\ prog # NoProgram /\ threads = <<>> /\ UNCHANGED <<prog, report, threads, required>>
      /\ disch' = [k \in {MemoKey(f, key)} \cup DOMAIN disch |-> IF k \in {MemoKey(f, key)} THEN D ELSE disch[k]]
      /\ nev' = [k \in {MemoKey(m, key) : m \in K} \cup DOMAIN nev |->
                    IF k \in {MemoKey(m, key) : m \in K} THEN N ELSE nev[k]]
  BY DEF AskSummary, Memo
<1>2. IsUnit(prog) /\ MemoOK
  BY <1>1, UnitsOK DEF RunIInv
<1>3. RightNev(prog, nev, key) /\ \A g \in Fns(prog) :
          MemoKey(g, key) \in DOMAIN disch => disch[MemoKey(g, key)] = Discharges(prog, g, key)
  BY <1>2 DEF MemoOK, RightNev
<1>4. N = (f \in SilentFns(prog, key)) /\ D = Discharges(prog, f, key)
  BY <1>2, <1>3, TablesChangeNothing
<1>5. \A m \in K : m \in Fns(prog) /\ ReachFrom(prog, {m}) = ReachFrom(prog, {f})
  BY ComponentIs
<1>6. \A m \in K : (m \in SilentFns(prog, key)) = (f \in SilentFns(prog, key))
  <2>1. ASSUME NEW m \in K PROVE (m \in SilentFns(prog, key)) = (f \in SilentFns(prog, key))
    <3>1. (m \in SilentFns(prog, key)) <=> (f \in SilentFns(prog, key))
      <4>1. \A g \in Fns(prog) : g \in SilentFns(prog, key) <=> Clean(prog, ReachFrom(prog, {g}), key)
        BY DEF SilentFns
      <4>2. m \in Fns(prog) /\ ReachFrom(prog, {m}) = ReachFrom(prog, {f})
        BY <1>5
      <4> QED
        BY <4>1, <4>2
    <3>2. (m \in SilentFns(prog, key)) \in BOOLEAN
      OBVIOUS
    <3>3. (f \in SilentFns(prog, key)) \in BOOLEAN
      OBVIOUS
    <3> QED
      BY <3>1, <3>2, <3>3, SameTruth, Zenon
  <2> QED
    BY <2>1, Zenon
<1>7. \A g, h, k, l : MemoKey(g, k) = MemoKey(h, l) <=> g = h /\ k = l
  BY DEF MemoKey
<1> HIDE DEF D, N, K
<1>8. ASSUME NEW g \in Fns(prog), NEW k \in Keys, MemoKey(g, k) \in DOMAIN disch'
      PROVE  disch'[MemoKey(g, k)] = Discharges(prog, g, k)
  <2>1. CASE MemoKey(g, k) = MemoKey(f, key)
    BY <1>1, <1>4, <1>7, <2>1
  <2>2. CASE MemoKey(g, k) # MemoKey(f, key)
    BY <1>1, <1>2, <1>8, <2>2 DEF MemoOK
  <2> QED
    BY <2>1, <2>2
<1>9. ASSUME NEW g \in Fns(prog), NEW k \in Keys, MemoKey(g, k) \in DOMAIN nev'
      PROVE  nev'[MemoKey(g, k)] = (g \in SilentFns(prog, k))
  <2>1. CASE MemoKey(g, k) \in {MemoKey(m, key) : m \in K}
    <3>1. g \in K /\ k = key
      BY <1>7, <2>1
    <3>2. nev'[MemoKey(g, k)] = N
      BY <1>1, <1>9, <2>1
    <3> QED
      BY <1>4, <1>6, <3>1, <3>2, Zenon
  <2>2. CASE MemoKey(g, k) \notin {MemoKey(m, key) : m \in K}
    BY <1>1, <1>2, <1>9, <2>2 DEF MemoOK
  <2> QED
    BY <2>1, <2>2
<1>10. MemoOK'
  <2>1. prog' = prog
    BY <1>1
  <2> QED
    BY <1>8, <1>9, <2>1 DEF MemoOK
<1> QED
  BY <1>1, <1>10 DEF RunIInv

(* The runtime enters main, whose entries are not said to be covered.      *)
LEMMA StartOK ==
    ASSUME RunIInv, Start
    PROVE  RunIInv'
<1>1. /\ prog # NoProgram /\ threads' = <<<<Entering("main", required)>>>>
      /\ UNCHANGED <<prog, report, nev, disch, required>>
  BY DEF Start, Frame, Entering
<1>2. IsUnit(prog) /\ required \in BOOLEAN
  BY <1>1, UnitsOK DEF RunIInv
<1>3. "main" \in Fns(prog) /\ HasBody(prog, "main")
  BY <1>2 DEF IsUnit, HasBody
<1>4. "main" \notin Dominated(prog)
  <2>1. SUFFICES ASSUME "main" \in Dominated(prog) PROVE FALSE
    OBVIOUS
  <2>2. Entries(prog, "main") # {}
    BY <2>1, DominatedIs DEF EntriesGood
  <2>3. PICK g \in Fns(prog) : {y \in Sites(prog, g) : "main" \in Cands(prog, At(prog, g, y))} # {}
    BY <2>2 DEF Entries
  <2>4. "main" \in Calls(prog, g)
    BY <2>3 DEF Calls
  <2> QED
    BY <1>2, <2>4 DEF IsUnit
<1> DEFINE fr == Entering("main", required)
<1>5. FrameOK(prog, fr, required) /\ Credit(prog, fr, {})
  BY <1>2, <1>3, <1>4, EnteringIs
<1> HIDE DEF fr
<1>6. <<fr>> \in Seq(FrameSet(prog)) /\ DOMAIN <<fr>> = {1} /\ <<fr>>[1] = fr
  BY <1>5 DEF FrameOK
<1>7. Nested(prog, <<fr>>, required)
  BY <1>5, <1>6 DEF Nested
<1>8. Credits(prog, <<fr>>)
  <2>1. Above(<<fr>>, 1) = {}
    BY <1>6 DEF Above
  <2> QED
    BY <1>5, <1>6, <2>1 DEF Credits
<1> DEFINE s == <<fr>>
<1>9. threads' = <<s>>
  BY <1>1 DEF fr
<1>10. s \in Seq(FrameSet(prog)) /\ Nested(prog, s, required) /\ Credits(prog, s)
  BY <1>6, <1>7, <1>8
<1> HIDE DEF s
<1>11. threads' \in Seq(Seq(FrameSet(prog))) /\ DOMAIN threads' = {1} /\ threads'[1] = s
  BY <1>9, <1>10
<1>12. prog' = prog /\ report' = report /\ required' = required /\ MemoOK'
  BY <1>1 DEF RunIInv, MemoOK
<1> QED
  BY <1>1, <1>2, <1>10, <1>11, <1>12 DEF RunIInv

(* Every step keeps the invariant. *)
LEMMA RunIInvKept ==
    ASSUME RunIInv, [RunNext]_runVars
    PROVE  RunIInv'
<1>1. ASSUME NEW p \in Programs, Load(p) PROVE RunIInv'
  BY <1>1, LoadOK
<1>2. ASSUME NEW f \in Fns(prog), NEW key \in Keys, AskSummary(f, key) PROVE RunIInv'
  BY <1>2, AskOK
<1>3. CASE Start
  BY <1>3, StartOK
<1>4. ASSUME NEW t \in DOMAIN threads, Step(t) PROVE RunIInv'
  BY <1>4, CallOK, UseOK, DeferOK, GoOK, BlockEndOK, DeferredOK, LeaveOK DEF Step
<1>5. CASE UNCHANGED runVars
  BY <1>5 DEF runVars, RunIInv, MemoOK
<1> QED
  BY <1>1, <1>2, <1>3, <1>4, <1>5 DEF RunNext

(* The answers are right, the stacks nested, and what is ALWAYS made of a  *)
(* frame is behind it, above it or deferred, at every step of every run.   *)
THEOREM RunInvariant == RunSpec => []RunIInv
<1>1. RunInit => RunIInv
  BY DEF RunInit, RunIInv
<1>2. RunIInv /\ [RunNext]_runVars => RunIInv'
  BY RunIInvKept
<1> QED
  BY <1>1, <1>2, PTL DEF RunSpec

-----------------------------------------------------------------------------
(* What the invariant gives.                                               *)

(* The report is what is answered. *)
LEMMA ReportIs ==
    ASSUME RunIInv, prog # NoProgram
    PROVE  /\ IsUnit(prog) /\ required \in BOOLEAN
           /\ \A f \in Fns(prog), key \in Keys : report.discharge[f][key] = Discharges(prog, f, key)
           /\ report.entered = Dominated(prog)
           /\ \A f, x : <<f, x>> \in report.satisfied =>
                 /\ f \in Fns(prog) /\ x \in Sites(prog, f)
                 /\ Precede(prog, f, x, TRUE) = "SATISFIED"
           /\ \A f \in Fns(prog) : report.order[f] = OrderFacts(prog, f)
<1>1. IsUnit(prog) /\ required \in BOOLEAN /\ report = Report(prog)
  BY UnitsOK DEF RunIInv
<1>2. \A f \in Fns(prog), key \in Keys : report.discharge[f][key] = Discharges(prog, f, key)
  BY <1>1 DEF Report
<1>3. report.entered = Dominated(prog)
  BY <1>1 DEF Report, Dominated
<1>4. \A f \in Fns(prog) : report.order[f] = OrderFacts(prog, f)
  BY <1>1 DEF Report
<1>5. ASSUME NEW f, NEW x, <<f, x>> \in report.satisfied
      PROVE  f \in Fns(prog) /\ x \in Sites(prog, f) /\ Precede(prog, f, x, TRUE) = "SATISFIED"
  <2> DEFINE S(g) == {z \in Sites(prog, g) : /\ "bef" \in At(prog, g, z).tags
                                             /\ Precede(prog, g, z, TRUE) = "SATISFIED"}
  <2>1. report.satisfied = UNION {{<<g, y>> : y \in S(g)} : g \in Fns(prog)}
    BY <1>1 DEF Report
  <2>2. PICK g \in Fns(prog) : <<f, x>> \in {<<g, y>> : y \in S(g)}
    <3> HIDE DEF S
    <3> QED
      BY <1>5, <2>1
  <2>3. f = g /\ x \in S(g)
    <3> HIDE DEF S
    <3> QED
      BY <2>2
  <2> QED
    BY <2>3
<1> QED
  BY <1>1, <1>2, <1>3, <1>4, <1>5

(* The tables are right. *)
LEMMA MemoFollows == ASSUME RunIInv PROVE MemoRight
<1>1. CASE prog = NoProgram
  <2>1. Fns(prog) = {}
    BY <1>1 DEF NoProgram, Fns
  <2> QED
    BY <2>1 DEF MemoRight
<1>2. CASE prog # NoProgram
  <2>1. MemoOK
    BY <1>2 DEF RunIInv
  <2>2. \A f \in Fns(prog), key \in Keys : report.discharge[f][key] = Discharges(prog, f, key)
    BY <1>2, ReportIs
  <2>3. ASSUME NEW f \in Fns(prog), NEW key \in Keys
        PROVE  /\ <<f, key>> \in DOMAIN disch => disch[<<f, key>>] = report.discharge[f][key]
               /\ <<f, key>> \in DOMAIN nev => nev[<<f, key>>] = (f \in SilentFns(prog, key))
               /\ (f \in SilentFns(prog, key)) <=> \A g \in ReachFrom(prog, {f}) :
                     /\ prog[g].blocks # <<>>
                     /\ \A x \in Sites(prog, g) : /\ ~Hits(At(prog, g, x), key)
                                                  /\ ~Frontier(prog, At(prog, g, x))
    <3>1. /\ <<f, key>> \in DOMAIN disch => disch[<<f, key>>] = report.discharge[f][key]
          /\ <<f, key>> \in DOMAIN nev => nev[<<f, key>>] = (f \in SilentFns(prog, key))
      BY <2>1, <2>2 DEF MemoOK, MemoKey
    <3>2. (f \in SilentFns(prog, key)) <=> Clean(prog, ReachFrom(prog, {f}), key)
      BY DEF SilentFns
    <3> QED
      BY <3>1, <3>2 DEF Clean
  <2> QED
    BY <2>3 DEF MemoRight
<1> QED
  BY <1>1, <1>2

(* ALWAYS and NEVER are right. *)
LEMMA AnswersFollow == ASSUME RunIInv PROVE AnswersHold
<1> SUFFICES ASSUME NEW t \in DOMAIN threads, threads[t] # <<>>, NEW key \in Keys
             PROVE  /\ LET fr == Top(t)
                       IN  /\ Known(fr.fn) /\ fr.exiting /\ fr.defers = <<>> /\ ~fr.unwound
                           /\ report.discharge[fr.fn][key] = "ALWAYS"
                           => key \in fr.got
                    /\ \A j \in DOMAIN threads[t] :
                          key \in threads[t][j].got =>
                              \A f \in ({threads[t][j].fn} \cup threads[t][j].behalf) \cap Fns(prog) :
                                  report.discharge[f][key] # "NEVER"
  BY DEF AnswersHold
<1>1. /\ prog # NoProgram /\ IsUnit(prog) /\ required \in BOOLEAN /\ Nested(prog, threads[t], required)
      /\ FrameOK(prog, Top(t), required) /\ Credit(prog, Top(t), {})
  BY ThreadIs
<1>2. \A f \in Fns(prog) : report.discharge[f][key] = Discharges(prog, f, key)
  BY <1>1, ReportIs
<1>3. ASSUME Known(Top(t).fn), Top(t).exiting, Top(t).defers = <<>>, ~Top(t).unwound,
             report.discharge[Top(t).fn][key] = "ALWAYS"
      PROVE  key \in Top(t).got
  <2>1. Top(t).fn \in Sure(prog, key)
    BY <1>2, <1>3 DEF Sure, Known
  <2> QED
    BY <1>1, <1>3, <2>1, EndsSure
<1>4. ASSUME NEW j \in DOMAIN threads[t], key \in threads[t][j].got,
             NEW f \in ({threads[t][j].fn} \cup threads[t][j].behalf) \cap Fns(prog),
             report.discharge[f][key] = "NEVER"
      PROVE  FALSE
  <2>1. f \in SilentFns(prog, key)
    BY <1>1, <1>2, <1>4, NeverIsSilent
  <2>2. QuietFrame(prog, threads[t][j], key)
    BY <2>1 DEF QuietFrame
  <2> QED
    BY <1>1, <1>4, <2>2 DEF Nested, FrameOK
<1> QED
  BY <1>3, <1>4

(* What stops every path to the next instruction has been passed. *)
LEMMA PassedFirst ==
    ASSUME RunIInv, NEW t \in DOMAIN threads, AboutTo(t), NEW key \in Keys,
           NEW a \in RequireSites(prog, Top(t).fn, key),
           Before(a, Top(t).at) \/ (a[1] # Top(t).at[1] /\ Dominates(prog, Top(t).fn, a[1], Top(t).at[1]))
    PROVE  key \in Top(t).got
<1> DEFINE fr == Top(t)
<1>1. threads[t] # <<>> /\ ~fr.exiting
  BY DEF AboutTo, Running
<1>2. IsUnit(prog) /\ FrameOK(prog, fr, required) /\ Credit(prog, fr, {})
  BY <1>1, ThreadIs
<1>3. fr.fn \in Fns(prog) /\ fr.at \in Nat \X Nat
  BY <1>1, <1>2, StandsAt
<1>4. a[1] \in Nat /\ a[2] \in Nat
  BY <1>2, <1>3, SitesAre DEF RequireSites, Sites
<1>5. {a} \in SUBSET RequireSites(prog, fr.fn, key)
  OBVIOUS
<1>6. key \in fr.got \/ NotPast(prog, fr.fn, {a}, fr.at)
  BY <1>1, <1>2, <1>3, <1>5, RunsBehind
<1>7. ASSUME NotPast(prog, fr.fn, {a}, fr.at) PROVE FALSE
  <2>1. fr.at[1] \in Entered(prog, fr.fn, {a[1]}, {1}) /\ (a[1] = fr.at[1] => a[2] >= fr.at[2])
    <3>1. BlocksAt({a}) = {a[1]}
      BY DEF BlocksAt
    <3> QED
      BY <1>7, <3>1 DEF NotPast
  <2>2. CASE Before(a, fr.at)
    BY <1>3, <1>4, <2>1, <2>2 DEF Before
  <2>3. CASE a[1] # fr.at[1] /\ Dominates(prog, fr.fn, a[1], fr.at[1])
    BY <2>1, <2>3 DEF Dominates
  <2> QED
    BY <2>2, <2>3
<1> QED
  BY <1>6, <1>7

(* SATISFIED and dominated entries are right. *)
LEMMA PrecedeFollows == ASSUME RunIInv PROVE PrecedeHolds
<1>1. ASSUME NEW t \in DOMAIN threads, NEW j \in DOMAIN threads[t], Known(threads[t][j].fn),
             threads[t][j].fn \in report.entered
      PROVE  threads[t][j].before
  <2>1. threads[t] # <<>>
    OBVIOUS
  <2>2. prog # NoProgram /\ Nested(prog, threads[t], required)
    BY <2>1, ThreadIs
  <2>3. report.entered = Dominated(prog)
    BY <2>2, ReportIs
  <2> QED
    BY <1>1, <2>2, <2>3 DEF Nested, FrameOK
<1>2. ASSUME NEW t \in DOMAIN threads, AboutTo(t), <<Top(t).fn, Top(t).at>> \in report.satisfied
      PROVE  required
  <2> DEFINE f == Top(t).fn
             x == Top(t).at
             Dominating == \E a \in RequireSites(prog, f, "req") :
                              \/ Before(a, x)
                              \/ a[1] # x[1] /\ Dominates(prog, f, a[1], x[1])
  <2>1. threads[t] # <<>>
    BY <1>2 DEF AboutTo, Running
  <2>2. prog # NoProgram /\ FrameOK(prog, Top(t), required)
    BY <2>1, ThreadIs
  <2>3. f \in Fns(prog) /\ Precede(prog, f, x, TRUE) = "SATISFIED"
    BY <1>2, <2>2, ReportIs
  <2>4. CASE Dominating
    <3>1. PICK a \in RequireSites(prog, f, "req") :
              \/ Before(a, x)
              \/ a[1] # x[1] /\ Dominates(prog, f, a[1], x[1])
      BY <2>4
    <3>2. "req" \in Top(t).got
      BY <1>2, <3>1, PassedFirst DEF Keys
    <3> QED
      BY <2>2, <3>2 DEF FrameOK
  <2>5. CASE ~Dominating
    <3>1. EntryDominated(prog, f, "req")
      BY <2>3, <2>5 DEF Precede
    <3>2. f \in Dominated(prog)
      BY <2>3, <3>1 DEF Dominated
    <3> QED
      BY <2>2, <3>2 DEF FrameOK
  <2> QED
    BY <2>4, <2>5
<1> QED
  BY <1>1, <1>2 DEF PrecedeHolds, Frames

(* The order facts are right. *)
LEMMA CommittedFollows == ASSUME RunIInv PROVE CommittedByCalls
<1> SUFFICES ASSUME NEW t \in DOMAIN threads, AboutTo(t), NEW row \in report.order[Top(t).fn],
                    row.callee = Top(t).at, CommitsHere(Top(t).fn, row.effect), row.always
             PROVE  "eff" \in Top(t).got
  BY DEF CommittedByCalls, HappenedBefore
<1> DEFINE f == Top(t).fn
           a == row.effect
<1>1. threads[t] # <<>> /\ ~Top(t).exiting
  BY DEF AboutTo, Running
<1>2. /\ prog # NoProgram /\ FrameOK(prog, Top(t), required) /\ IsUnit(prog)
  BY <1>1, ThreadIs
<1>3. f \in Fns(prog)
  BY <1>1, <1>2, StandsAt
<1>4. row \in OrderFacts(prog, f)
  BY <1>2, <1>3, ReportIs
<1>5. PICK z \in Ordered(prog, f) :
          row = [effect |-> z[1], callee |-> z[2], always |-> AlwaysPrecedes(prog, f, z[1], z[2])]
  BY <1>4 DEF OrderFacts
<1>6. a = z[1] /\ z[2] = Top(t).at /\ AlwaysPrecedes(prog, f, a, Top(t).at)
  BY <1>5
<1>7. a \in Sites(prog, f)
  BY <1>5, <1>6 DEF Ordered, DirectEffects, DerivedEffects
<1>8. a \in RequireSites(prog, f, "eff")
  BY <1>7 DEF CommitsHere, RequireSites
<1>9. Before(a, Top(t).at) \/ (a[1] # Top(t).at[1] /\ Dominates(prog, f, a[1], Top(t).at[1]))
  BY <1>6 DEF AlwaysPrecedes
<1> QED
  BY <1>8, <1>9, PassedFirst DEF Keys

(* An answer of the summaries, and of never, is what would be answered     *)
(* anew, whatever was asked before it (MemoRight).                         *)
THEOREM MemoStaysRight == RunSpec => []MemoRight
BY RunInvariant, MemoFollows, PTL

(* discharge: no function that is ALWAYS ends without the call having been *)
(* made, and nothing a function that is NEVER runs makes it, through       *)
(* deferred calls, dynamic calls, goroutines and panics (AnswersHold).     *)
THEOREM AnswersAreKept == RunSpec => []AnswersHold
BY RunInvariant, AnswersFollow, PTL

(* checkPrecede and EntryDominated: the require has run before a target    *)
(* judged SATISFIED, and by the entry of a dominated function              *)
(* (PrecedeHolds).                                                         *)
THEOREM RequireRunsFirst == RunSpec => []PrecedeHolds
BY RunInvariant, PrecedeFollows, PTL

(* OrderFacts: the effect of a plain call that is said to always precede a *)
(* fallible call is committed when that call is made (CommittedByCalls).   *)
THEOREM EffectsCommitted == RunSpec => []CommittedByCalls
BY RunInvariant, CommittedFollows, PTL
=============================================================================
